---------------------------- MODULE MCPdhgSolve ------------------------------
(* Small instances of PdhgSolve.  One unit is a hundredth: the tolerances  *)
(* are 1, ten times the tolerances 10, the saturation floor 99.            *)
EXTENDS PdhgSolve, Cadence

M(p, d, g) == [primal |-> p, dual |-> d, gap |-> g]
Point(d, a, o) == [dev |-> d, aud |-> a, orig |-> o]
Same(ms) == {Point(m, m, FALSE) : m \in ms}

MCOptimal == M(0, 0, 0)
MCNear == M(5, 3, 8)
MCFar == M(20, 40, 60)
MCSaturated == M(30, 10, 99)
MCTied == M(5, 20, 100)

\* The strides of early evaluations, for counts up to the longest limit.
Strides == [n \in 0 .. 14 |-> ConditionalEvaluationInterval(n)]

\* Every kind of device reading; one point that looks optimal fails the
\* original-model audit.  A single fixed-point error keeps restarts simple.
Checkpointing ==
    [ points |-> Same({MCOptimal, MCNear, MCFar, MCSaturated, MCTied, NonFinite})
                     \cup {Point(MCOptimal, MCOptimal, TRUE)},
      fpErrors |-> {1}, freq |-> 3, conditional |-> TRUE, stride |-> Strides,
      iterLimit |-> 8, maxReductions |-> 2, stepUsable |-> TRUE, hpr |-> FALSE, feedback |-> FALSE,
      auditGap |-> 0, handoff |-> FALSE, gate |-> 5, window |-> 2,
      sparseMetal |-> FALSE, perCheck |-> 1, polish |-> FALSE ]

\* All restart reasons: errors 1, 2, 5 separate the sufficient, necessary and
\* growth tests; the limit is long enough for the artificial test to fail.
PidRestarts ==
    [ Checkpointing EXCEPT !.points = Same({MCNear, MCFar}),
                           !.fpErrors = {1, 2, 5}, !.freq = 2,
                           !.conditional = FALSE, !.iterLimit = 9 ]

\* One acceptable point, one breakdown, and epochs long enough for HPR.
HprRestarts ==
    [ Checkpointing EXCEPT !.points = Same({MCFar, NonFinite}),
                           !.fpErrors = {1, 5}, !.freq = 2, !.hpr = TRUE,
                           !.conditional = FALSE, !.iterLimit = 14 ]

\* Device and audit disagree in both directions; each can be non-finite.
FeedbackPoints ==
    { Point(MCOptimal, MCOptimal, TRUE), Point(MCOptimal, MCNear, FALSE),
      Point(MCNear, MCOptimal, TRUE), Point(MCFar, MCTied, FALSE),
      Point(MCFar, MCSaturated, FALSE), Point(MCNear, NonFinite, FALSE),
      Point(NonFinite, NonFinite, FALSE) }
Audited ==
    [ Checkpointing EXCEPT !.points = FeedbackPoints, !.freq = 2, !.iterLimit = 8,
                           !.feedback = TRUE, !.auditGap = 4, !.polish = TRUE ]

\* The same without the continuation, so that only near-optimal readings
\* start the audits.
AuditedOnly == [Audited EXCEPT !.iterLimit = 4, !.polish = FALSE]

\* A trajectory that creeps into the float64 correction's reach, on the
\* sparse-Metal path with its sparser certificate checks.
Stagnating ==
    [ Checkpointing EXCEPT !.points = Same({M(4, 30, 0), M(1, 8, 0), MCFar, NonFinite}),
                           !.freq = 2, !.iterLimit = 13,
                           !.handoff = TRUE, !.sparseMetal = TRUE,
                           !.perCheck = 2, !.polish = TRUE ]

\* The same with audits: the merit that is kept may be the audit's, while the
\* handoff publishes the device reading again.
StagnatingAudited ==
    [ Stagnating EXCEPT !.points = {Point(M(4, 30, 0), M(3, 20, 0), FALSE),
                                    Point(M(4, 30, 0), M(4, 30, 0), FALSE),
                                    Point(NonFinite, NonFinite, FALSE)},
                        !.iterLimit = 11, !.feedback = TRUE, !.auditGap = 4 ]

\* No iteration is allowed at all: the start point is what is returned.
NoIterations == [Checkpointing EXCEPT !.iterLimit = 0]

\* A step size that underflows cannot be reduced any further.
Unrecoverable ==
    [ Checkpointing EXCEPT !.points = Same({MCFar, NonFinite}), !.stepUsable = FALSE ]

AllInstances == {Checkpointing, PidRestarts, HprRestarts, Audited, AuditedOnly,
                 Stagnating, StagnatingAudited, NoIterations, Unrecoverable}

\* The smallest instance on which a deadline can slip between two readings.
DeadlineInstances ==
    {[HprRestarts EXCEPT !.sparseMetal = TRUE, !.perCheck = 2, !.iterLimit = 9]}
==============================================================================
