---------------------------- MODULE MemberResults ----------------------------
(* What a batch promises, whatever it shares or serializes: every member   *)
(* gets one result, once, with a definite reason ("Every input gets a      *)
(* result in input order", docs/batch_solver.md).                          *)
CONSTANTS Members, Reasons, NoResult

VARIABLE results

MrInit == results = [j \in Members |-> NoResult]

Pending == {j \in Members : results[j] = NoResult}

\* Any number of pending members finish; the others keep what they have.
Finish ==
    /\ results' \in [Members -> Reasons \cup {NoResult}]
    /\ \A j \in Members \ Pending : results'[j] = results[j]

MrSpec == MrInit /\ [][Finish]_results
==============================================================================
