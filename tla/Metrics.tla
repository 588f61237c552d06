------------------------------- MODULE Metrics -------------------------------
(***************************************************************************)
(* The measurements every controller of mlxPDLP compares: a point's        *)
(* relative primal and dual residual and its relative objective gap.       *)
(* Values are naturals on a common scale; only their order, the factors 10 *)
(* and 1/2 and the tolerances matter to the control flow.                  *)
(***************************************************************************)
EXTENDS Integers

CONSTANTS
    FeasTol,   \* eps_feasible_relative
    OptTol,    \* eps_optimal_relative
    SatFloor,  \* saturated_gap_floor: from here on a KKT error carries no order
    SatTie,    \* saturated_gap_tie: saturated errors this close are tied
    NonFinite  \* a measurement with a NaN or an infinity in it

Metric == [primal : Nat, dual : Nat, gap : Nat]

ASSUME MetricsAssumption ==
    /\ FeasTol \in Nat /\ OptTol \in Nat     \* zero disables optimality
    /\ SatFloor \in Nat /\ SatTie \in Nat
    /\ NonFinite \notin Metric

Reading == Metric \cup {NonFinite}

IsFinite(m) == m # NonFinite

Larger(a, b) == IF a >= b THEN a ELSE b
Smaller(a, b) == IF a <= b THEN a ELSE b
Apart(a, b) == IF a >= b THEN a - b ELSE b - a

Feas(m) == Larger(m.primal, m.dual)

\* kkt_error: the largest of the three relative measurements.
Kkt(m) == Larger(Feas(m), m.gap)

\* The strict comparisons that declare a point OPTIMAL.
PassesTolerances(m) ==
    IsFinite(m) /\ Feas(m) < FeasTol /\ m.gap < OptTol

\* Within ten times the tolerances: near enough for early evaluations
\* and for the float64 audit of the working iterate.
WithinTenfold(m) ==
    IsFinite(m) /\ Feas(m) <= 10 * FeasTol /\ m.gap <= 10 * OptTol

Tied(a, b) == a >= SatFloor /\ b >= SatFloor /\ Apart(a, b) <= SatTie

\* improves_checkpoint: does finite metric m replace finite metric b?
BetterCheckpoint(m, b) ==
    IF Tied(Kkt(m), Kkt(b)) THEN Feas(m) < Feas(b) ELSE Kkt(m) < Kkt(b)

\* certificate_merit, cleared of its denominators (both tolerances positive).
Merit(m) == Larger(Feas(m) * OptTol, m.gap * FeasTol)
GapDominates(m) == m.gap * FeasTol >= Feas(m) * OptTol

\* mlx_host_double_feedback's "improves", for finite audited metrics.
BetterAudit(m, b) ==
    IF /\ m.gap >= SatFloor /\ b.gap >= SatFloor
       /\ GapDominates(m) /\ GapDominates(b)
       /\ Apart(m.gap, b.gap) <= SatTie
    THEN Feas(m) < Feas(b)
    ELSE Merit(m) < Merit(b)
==============================================================================
