---------------------------- MODULE MCHostPolish -----------------------------
(* Readings in millionths: tolerances 1e-4 and 1e-6, the gates at 1e-2 and *)
(* 2e-1 and saturation at 0.99 are the code's values.                      *)
EXTENDS HostPolish

(* Optimal; within the original tolerance only; off by an fp32 floor; and  *)
(* so far off that only the gate for primal-only errors admits it.         *)
MCPrimals == {"optimal", "feasible", "near", "outside"}
MCDuals == {"exact", "raw", "damaged", "nan"}

PrimalResidual(x) ==
    CASE x = "optimal" -> 0 [] x = "feasible" -> 50
      [] x = "near" -> 5000 [] x = "outside" -> 150000

DualResidual(d) == CASE d = "exact" -> 0 [] d = "raw" -> 60 [] d = "damaged" -> 20000

\* Damaged duals saturate the gap; raw ones let a descent on the rows walk
\* through points that are worse in the gap.
MCGap(x, d) ==
    CASE d = "damaged" -> (IF x = "near" THEN 990001 ELSE 990000)
      [] d = "exact" -> CASE x = "feasible" -> 400 [] x = "outside" -> 80
                          [] OTHER -> 0
      [] d = "raw" -> CASE x = "optimal" -> 20 [] x = "outside" -> 30
                        [] OTHER -> 200000

MCMeasure ==
    [x \in MCPrimals |-> [d \in MCDuals |->
        IF d = "nan" THEN NonFinite
        ELSE [primal |-> PrimalResidual(x), dual |-> DualResidual(d), gap |-> MCGap(x, d)]]]

MCClamped == [x \in MCPrimals |-> IF x = "near" THEN "feasible" ELSE x]
MCBoundViolation == [x \in MCPrimals |-> IF x = "near" THEN 10 ELSE 0]
MCExact == [d \in MCDuals |-> IF d = "raw" THEN "exact" ELSE d]
MCViolation == [x \in MCPrimals |-> PrimalResidual(x)]
MCStationarity ==
    [x \in MCPrimals |-> [d \in MCDuals |-> IF d = "nan" THEN One ELSE DualResidual(d)]]

\* The device saw an optimal, a near and a broken iterate.
MCDeviceReadings ==
    { [primal |-> 0, dual |-> 0, gap |-> 0],
      [primal |-> 9000, dual |-> 300, gap |-> 80], NonFinite }
==============================================================================
