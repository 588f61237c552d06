----------------------------- MODULE Checkpoint ------------------------------
(***************************************************************************)
(* What the best-iterate safeguard promises (mlx_save_best_iterate and     *)
(* mlx_restore_best_iterate): out of every evaluated point one is kept.    *)
(* This is the abstract specification that the solve loop implements; a    *)
(* step is one evaluated, finite measurement offered to the safeguard.     *)
(***************************************************************************)
EXTENDS Metrics

CONSTANTS
    Candidates,   \* the metrics a solve may publish
    NoCheckpoint  \* best_iteration = -1

VARIABLES
    best,   \* metric of the retained point, or NoCheckpoint
    seen    \* history: every metric offered so far

cpVars == <<best, seen>>

Replaces(m, b) == b = NoCheckpoint \/ BetterCheckpoint(m, b)

CpInit == best = NoCheckpoint /\ seen = {}

\* Save whatever metric m the caller has just published.
Offer(m) ==
    /\ m \in Metric
    /\ best' = IF Replaces(m, best) THEN m ELSE best
    /\ seen' = seen \cup {m}

CpNext == \E m \in Candidates : Offer(m)

CpSpec == CpInit /\ [][CpNext]_cpVars

CpTypeOK ==
    /\ best \in Metric \cup {NoCheckpoint}
    /\ seen \subseteq Metric
    /\ best # NoCheckpoint => best \in seen
    /\ seen # {} => best # NoCheckpoint

------------------------------------------------------------------------------
(***************************************************************************)
(* As soon as one evaluated point had an informative gap (its KKT error is *)
(* below the saturation floor), the retained checkpoint is an exact        *)
(* minimum of the KKT error over everything evaluated, however saturated   *)
(* ties were broken before (solver.cpp, mlx_save_best_iterate: "use the    *)
(* strict full-KKT order").                                                *)
(***************************************************************************)
InformativeMinimum ==
    (\E m \in seen : Kkt(m) < SatFloor)
        => \A m \in seen : Kkt(best) <= Kkt(m)

(***************************************************************************)
(* A replacement never trades both ways: it lowers the KKT error, or it    *)
(* keeps a saturated error within the tie width and lowers feasibility.    *)
(* In particular an informative checkpoint never gets worse.               *)
(***************************************************************************)
Gains ==
    best # NoCheckpoint /\ best' # best =>
       \/ Kkt(best') < Kkt(best)
       \/ /\ Feas(best') < Feas(best)
          /\ Kkt(best) >= SatFloor
          /\ Kkt(best') <= Kkt(best) + SatTie

ReplacementGains == [][Gains]_cpVars

==============================================================================
