------------------------------ MODULE Cadence --------------------------------
(***************************************************************************)
(* How many iterations lie between two early evaluations: a stride that    *)
(* grows by a decade whenever the count does.  The code computes it twice, *)
(* for a solve and for the lanes of a batch, with two different guards     *)
(* against overflowing the int it is kept in.                              *)
(***************************************************************************)
EXTENDS Integers

CONSTANTS
    Decade,          \* 10
    FirstStride,     \* 100
    FirstThreshold,  \* 10000
    IntMax,          \* INT32_MAX
    LastStride       \* 10000000, the largest stride of a lane that may grow

ASSUME CadenceAssumption ==
    /\ Decade \in Nat \ {0, 1} /\ {FirstStride, FirstThreshold} \subseteq Nat \ {0}
    /\ IntMax \in Nat /\ LastStride \in Nat

\* The stride of a lane, as run_shared computes it.
LaneStride(total) ==
    LET grown[stride \in Nat, threshold \in Nat] ==
            IF threshold > total \/ stride > LastStride THEN stride
            ELSE IF threshold > IntMax \div Decade THEN stride * Decade
            ELSE grown[stride * Decade, threshold * Decade]
    IN  grown[FirstStride, FirstThreshold]

\* conditional_evaluation_interval
ConditionalEvaluationInterval(total) ==
    LET grown[step \in Nat, threshold \in Nat] ==
            IF total >= threshold /\ step <= IntMax \div Decade /\ threshold <= IntMax \div Decade
            THEN grown[step * Decade, threshold * Decade] ELSE step
    IN  grown[FirstStride, FirstThreshold]
==============================================================================
