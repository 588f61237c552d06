---------------------------- MODULE MCSharedLanes ----------------------------
(* Two lanes.  Early checks of one lane cut the blocks of the other, and   *)
(* deadlines pass inside blocks, which are longer than a batch.            *)
EXTENDS SharedLanes

Early ==
    [ freq |-> 3, limit |-> 5, batch |-> 2, native |-> FALSE,
      conditional |-> TRUE, feedback |-> FALSE, handoff |-> FALSE, maxReductions |-> 0 ]

\* Native blocks that end where time is checked, not where they are full.
NativeBlocks ==
    [ Early EXCEPT !.freq = 5, !.limit = 6, !.conditional = FALSE, !.native = TRUE,
                   !.handoff = TRUE ]

\* One lane recovers, at an early check too, while the other goes on.
Recoveries ==
    [ Early EXCEPT !.freq = 2, !.limit = 3, !.batch = 1,
                   !.maxReductions = 1 ]

\* One lane recovers at a regular check after the first, where the other
\* neither restarts nor recovers, and both come to another.
RegularRecoveries == [Recoveries EXCEPT !.freq = 1, !.conditional = FALSE]

\* Audits replace readings, also the checkpoint's after a recovery.
Audited ==
    [ Recoveries EXCEPT !.freq = 1, !.limit = 1, !.conditional = FALSE, !.feedback = TRUE ]

NoIterations == [Early EXCEPT !.limit = 0]

\* A lane passes a threshold where the stride of its early checks grows.
Decades == [Early EXCEPT !.freq = 4, !.limit = 6, !.batch = 6,
                         !.native = TRUE]

MCConfigs == {NativeBlocks, Recoveries, RegularRecoveries, Audited, Decades,
              NoIterations}

\* A recovery, then a block the neighbour's deadline or check cuts short.
MCAudited == {[Early EXCEPT !.feedback = TRUE, !.maxReductions = 1]}

\* The hypothesis of LanesJudgedLikeSolo.
ASSUME GroupsMatch == StridesMatch
==============================================================================
