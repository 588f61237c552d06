---------------------------- MODULE MCFeasPolish -----------------------------
(* Readings in millionths, as in MCHostPolish.  A segment is sampled at    *)
(* one inner point and its end.                                            *)
EXTENDS FeasPolish

MCPrimals == {"feasible", "closer", "loose", "off", "broken"}
MCDuals == {"exact", "raw", "zero", "broken"}

Row(x) == CASE x = "feasible" -> 0 [] x = "closer" -> 40 [] x = "loose" -> 80
            [] x = "off" -> 5000 [] x = "broken" -> NaN
Stationary(d) == CASE d = "exact" -> 0 [] d = "raw" -> 30 [] d = "zero" -> 300000
                   [] d = "broken" -> NaN

\* Feasible points are not the cheapest: moving there costs objective.
Gap(x, d) ==
    CASE "broken" \in {x, d} -> NaN
      [] d = "zero" -> 995000
      [] d = "raw"  -> (CASE x = "feasible" -> 120 [] x = "closer" -> 62
                          [] x = "loose" -> 5 [] x = "off" -> 6000)
      [] d = "exact" -> (CASE x = "feasible" -> 0 [] x = "closer" -> 45
                           [] x = "loose" -> 90 [] x = "off" -> 400)

MCDevice ==
    [x \in MCPrimals |-> [d \in MCDuals |->
        [primal |-> Row(x), dual |-> Stationary(d), gap |-> Gap(x, d)]]]

\* The audit sees a violated bound, and a dual that is worse than it looked.
MCAudited ==
    [x \in MCPrimals |-> [d \in MCDuals |->
        [primal |-> IF x = "feasible" THEN 120 ELSE Row(x),
         dual   |-> IF d = "exact" THEN 95 ELSE Stationary(d),
         gap    |-> Gap(x, d)]]]

Towards(mid, a, b) == IF a \in {b, "broken"} THEN <<a>> ELSE <<mid[a][b], b>>

MidX == [a \in MCPrimals |-> [b \in MCPrimals |->
           CASE "broken" \in {a, b} -> "broken"
             [] {a, b} = {"feasible", "off"} -> "loose"
             [] {a, b} = {"feasible", "loose"} -> "closer"
             [] OTHER -> a]]
MidD == [a \in MCDuals |-> [b \in MCDuals |->
           CASE "broken" \in {a, b} -> "broken"
             [] {a, b} = {"exact", "zero"} -> "raw"
             [] OTHER -> a]]

MCXPath == [a \in MCPrimals |-> [b \in MCPrimals |-> Towards(MidX, a, b)]]
MCDPath == [a \in MCDuals |-> [b \in MCDuals |-> Towards(MidD, a, b)]]

Setting(p, c, f) == [polishing |-> p, continue |-> c, feedback |-> f]
MCConfigs == {Setting(TRUE, FALSE, FALSE), Setting(TRUE, FALSE, TRUE),
              Setting(TRUE, TRUE, FALSE), Setting(FALSE, FALSE, FALSE)}
DefaultConfigs == {Setting(TRUE, FALSE, FALSE)}

\* The hypothesis of PolishKeepsOptimal.
ASSUME NoNaNBetween == SegmentsWhole
==============================================================================
