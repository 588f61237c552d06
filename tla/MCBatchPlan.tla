----------------------------- MODULE MCBatchPlan -----------------------------
(* Callers of every kind, over the units of the budget's arithmetic.       *)
EXTENDS BatchPlan

CONSTANTS Grouped, Wide, Alone, Refused

Whole ==
    [ valid |-> TRUE, size |-> 3, shared |-> TRUE, tile |-> 2, timed |-> TRUE,
      budget |-> 0, base |-> 5, laneBytes |-> 3 ]

\* Five members: the budget holds three lanes, one tile of two.  Independent
\* execution without a deadline.  A budget below one tile.
MCRequest ==
    [ c \in Callers |->
        CASE c = Grouped -> [Whole EXCEPT !.size = 5, !.budget = 5 + 3 * 3 + 1]
          [] c = Wide -> Whole
          [] c = Alone -> [Whole EXCEPT !.shared = FALSE, !.size = 2, !.timed = FALSE,
                                        !.budget = 5 + 3]
          [] c = Refused -> [Whole EXCEPT !.budget = 5 + 3 + 2] ]
==============================================================================
