------------------------------ MODULE PdhgSolve ------------------------------
(***************************************************************************)
(* MlxPdlpSolver::solve(): the control loop around the PDHG kernels.  A    *)
(* block of iterations runs up to the next evaluation, the evaluated point *)
(* is recovered or accepted, offered to the best-iterate safeguard, tested *)
(* for termination and, on the regular cadence, for a restart; afterwards  *)
(* the result is restored, audited on the original model and returned.     *)
(*                                                                         *)
(* Vectors are abstracted to points.  A point carries what evaluating it   *)
(* yields: `dev`, the device reading; `aud`, the float64 audit of the      *)
(* working iterate; `orig`, whether it passes the original-model audit.    *)
(* Kernels choose points; the clock is a flag that may rise at any time.   *)
(*                                                                         *)
(* Definitions named DEV_... are deviations a bug would introduce.  The    *)
(* specification never uses them: substituted for the definition that      *)
(* follows, each breaks the property PROJECT.json pairs it with.           *)
(***************************************************************************)
EXTENDS Metrics

CONSTANTS
    Instances,   \* the problems and parameters solve() is run with
    NoPoint,     \* nothing retained yet
    Invalid,     \* invalid_fixed_point_metric
    One,         \* a relative measurement of 1.0
    Inf          \* larger than every threshold test distinguishes

\* What the kernels may produce and measure on a problem, and its parameters.
IsInstance(i) ==
    /\ i.points \subseteq [dev : Reading, aud : Reading, orig : BOOLEAN]
    /\ NoPoint \notin i.points \cup [point : i.points, metric : Metric]
    /\ i.fpErrors \subseteq {e \in 0 .. Inf : 5 * e < Inf}
    /\ i.freq \in Nat \ {0}        \* termination_evaluation_frequency
    /\ i.conditional \in BOOLEAN   \* early evaluations on, and nnz small enough
    /\ i.iterLimit \in Nat         \* iteration_limit
    /\ \A n \in 0 .. i.iterLimit : i.stride[n] \in Nat \ {0}  \* early evaluations (Cadence)
    /\ i.maxReductions \in Nat     \* recoveries allowed (8)
    /\ i.stepUsable \in BOOLEAN    \* reduced step sizes stay positive and finite
    /\ i.hpr \in BOOLEAN           \* restart_policy = 1
    /\ i.feedback \in BOOLEAN      \* host_double_residual_evaluation on a GPU
    /\ i.auditGap \in Nat          \* iterations between unforced audits (2000)
    /\ i.handoff \in BOOLEAN       \* host_double_early_handoff, usable budget
    /\ i.gate \in Nat              \* feasibility gate of the early handoff
    /\ i.window \in Nat            \* regular blocks that count as stagnation (25)
    /\ i.sparseMetal \in BOOLEAN   \* sparse_metal_active
    /\ i.perCheck \in Nat \ {0}    \* blocks_per_infeasibility_check
    /\ i.polish \in BOOLEAN        \* host_double_polishing

ASSUME SolveAssumption ==
    /\ Inf \in Nat /\ One \in Nat
    /\ Invalid \notin Nat /\ NoPoint \notin Metric
    /\ \A i \in Instances : IsInstance(i)

VARIABLES
    run,          \* the instance being solved; constant over a solve
    pc,           \* where solve() stands
    total, inner, \* total_count, inner_count
    pdhg,         \* the point in x_pdhg, y_pdhg, dual_slack
    shown,        \* the published relative residuals and gap
    best,         \* x_best .. with the reading it was saved under
    host,         \* audited incumbent, feedback_active, last audit iteration
    handoff,      \* host_double_handoff checkpoint: point, iteration, kkt
    doRestart,    \* do_restart
    fp,           \* fixed_point_error
    initFp,       \* initial_fixed_point_error
    lastFp,       \* last_trial_fixed_point_error
    hprLast,      \* hpr_last_gap
    invalid,      \* invalid_fixed_point_metric_
    reductions,   \* step_size_reductions
    cond,         \* conditional_evaluation_admissible
    full,         \* full_evaluation argument of the pending termination check
    status,       \* termination_reason
    expired,      \* elapsed >= time_sec_limit
    result,       \* the returned termination reason and audited certificate
    hist          \* history, read by properties only

vars == <<run, pc, total, inner, pdhg, shown, best, host, handoff, doRestart, fp,
          initFp, lastFp, hprLast, invalid, reductions, cond, full, status,
          expired, result, hist>>

iterate == <<pdhg, shown, best, host>>
fpState == <<doRestart, fp, initFp, lastFp, hprLast, invalid>>
counters == <<total, inner, reductions>>

Points == run.points
Freq == run.freq
IterLimit == run.iterLimit
HostFeedback == run.feedback

Regular == total % Freq = 0
Limits == {"TIME_LIMIT", "ITERATION_LIMIT", "NUMERICAL_ERROR"}

------------------------------------------------------------------------------
(* Evaluation cadence: iterations_to_next_evaluation and the loop's clamp. *)

Earlier(regular) ==
    IF run.conditional /\ cond
    THEN Smaller(regular, run.stride[total] - (total % run.stride[total]))
    ELSE regular

DEV_CadenceFromEpoch == Larger(1, Earlier(Freq - (inner % Freq)))

NextEvaluation == Larger(1, Earlier(Freq - (total % Freq)))

DEV_ShortOfLimit == Smaller(IterLimit - 1 - total, NextEvaluation)

BlockIterations == Smaller(IterLimit - total, NextEvaluation)

------------------------------------------------------------------------------
(* The iterate bundle [pdhg, shown, best, host] and the two safeguards.    *)

Bundle(p, m, b, h) == [pdhg |-> p, shown |-> m, best |-> b, host |-> h]
Now == Bundle(pdhg, shown, best, host)
Become(s) == pdhg' = s.pdhg /\ shown' = s.shown /\ best' = s.best /\ host' = s.host

\* mlx_compute_residual on the point in place.
DEV_ReadingKept(s) == s

Evaluate(s) == [s EXCEPT !.shown = s.pdhg.dev]

NearHandoff(m) ==
    /\ run.polish /\ IsFinite(m)
    /\ m.primal <= run.gate /\ m.dual <= One /\ 2 * m.gap <= OptTol

DEV_ActiveNearHandoffOnly(s) == s.host.active \/ NearHandoff(s.shown)

\* host_double_feedback_active_: from the first promising reading on.
FeedbackActive(s) ==
    s.host.active \/ WithinTenfold(s.shown) \/ NearHandoff(s.shown)

ImprovesAudit(s) ==
    /\ IsFinite(s.pdhg.aud)
    /\ s.host.inc = NoPoint \/ BetterAudit(s.pdhg.aud, s.host.inc.aud)

AuditedIncumbent(s) == IF ImprovesAudit(s) THEN s.pdhg ELSE s.host.inc

\* mlx_host_double_feedback(force, preferBest) at iteration n: audit the point
\* in place, keep or bring back the audited incumbent, publish its reading.
Feedback(s, n, force, preferBest) ==
    LET active == FeedbackActive(s)
        inc    == AuditedIncumbent(s)
        ends   == IF preferBest /\ inc # NoPoint THEN inc ELSE s.pdhg
    IN  IF ~HostFeedback THEN s
        ELSE IF ~force /\ ~active /\ n - s.host.last < run.auditGap
        THEN s
        ELSE [s EXCEPT !.pdhg = ends, !.shown = ends.aud,
                       !.host = [inc |-> inc, active |-> active, last |-> n]]

DEV_SaveWithoutTies(s) ==
    IF IsFinite(s.shown) /\ (s.best = NoPoint \/ Kkt(s.shown) < Kkt(s.best.metric))
    THEN [s EXCEPT !.best = [point |-> s.pdhg, metric |-> s.shown]]
    ELSE s

\* mlx_save_best_iterate
SaveBest(s) ==
    IF /\ IsFinite(s.shown)
       /\ s.best = NoPoint \/ BetterCheckpoint(s.shown, s.best.metric)
    THEN [s EXCEPT !.best = [point |-> s.pdhg, metric |-> s.shown]]
    ELSE s

DEV_NotRestored(s) == s
DEV_RestoredAfterBreakdown(s) ==
    IF s.best = NoPoint \/ IsFinite(s.shown) THEN s
    ELSE [s EXCEPT !.pdhg = s.best.point]

\* mlx_restore_best_iterate
RestoreBest(s) ==
    IF s.best = NoPoint THEN s ELSE [s EXCEPT !.pdhg = s.best.point]

Offered(h, m) == IF IsFinite(m) THEN [h EXCEPT !.seen = @ \cup {m}] ELSE h

------------------------------------------------------------------------------
Init ==
    /\ run \in Instances
    /\ pc = "init" /\ total = 0 /\ inner = 0
    /\ pdhg \in Points /\ shown = pdhg.dev /\ best = NoPoint
    /\ host = [inc |-> NoPoint, active |-> FALSE, last |-> 0]
    /\ handoff = NoPoint
    /\ doRestart = FALSE /\ invalid = FALSE
    /\ fp = 0 /\ initFp = 0 /\ lastFp = 0 /\ hprLast = Inf
    /\ reductions = 0 /\ cond = FALSE /\ full = FALSE
    /\ status = "UNSPECIFIED" /\ expired \in BOOLEAN
    /\ result = NoPoint
    /\ hist = [seen |-> {}, baseline |-> FALSE, certAt |-> 0, late |-> 0,
               recovered |-> FALSE, recoveredAt |-> 0]

\* The end of initialize_solve: the start point is evaluated, audited and
\* offered to the safeguard before the first block moves away from it.
InitializeSolve ==
    /\ pc = "init"
    /\ LET s == Feedback(Evaluate(Now), 0, TRUE, FALSE)
       IN  Become(SaveBest(s)) /\ hist' = Offered(hist, s.shown)
    /\ pc' = "loop"
    /\ UNCHANGED <<run, counters, handoff, fpState, cond, full, status, expired, result>>

\* One trip of the loop up to and including the residual evaluation.  A
\* pending restart measures its fixed-point baseline on the first iteration.
RunBlock ==
    /\ pc = "loop" /\ total < IterLimit
    /\ \E p \in Points, e \in run.fpErrors \cup {Invalid},
          base \in run.fpErrors \cup {Invalid} :
         /\ ~doRestart \/ BlockIterations = 1 => base = e
         /\ pdhg' = p /\ shown' = p.dev
         /\ fp' = IF e = Invalid THEN Inf ELSE e
         /\ initFp' = IF ~doRestart THEN initFp
                      ELSE IF base = Invalid THEN Inf ELSE base
         /\ invalid' = (invalid \/ e = Invalid \/ base = Invalid)
    /\ doRestart' = FALSE
    /\ inner' = inner + BlockIterations /\ total' = total + BlockIterations
    /\ hist' = [hist EXCEPT !.baseline = @ \/ doRestart,
                            !.late = IF expired THEN @ + 1 ELSE @]
    /\ pc' = "evaluated"
    /\ UNCHANGED <<run, best, host, handoff, lastFp, hprLast, reductions, cond, full,
                   status, expired, result>>

\* The loop condition fails: only when nothing else stopped the solve.
LeaveLoop ==
    /\ pc = "loop" /\ total >= IterLimit
    /\ status' = "ITERATION_LIMIT" /\ pc' = "finish"
    /\ UNCHANGED <<run, counters, iterate, handoff, fpState, cond, full, expired,
                   result, hist>>

NumericallyBad == invalid \/ ~IsFinite(shown)
CanRecover ==
    best # NoPoint /\ reductions < run.maxReductions /\ run.stepUsable

Rewind(gap, restart, saved) ==
    /\ inner' = 0 /\ doRestart' = restart /\ invalid' = FALSE
    /\ fp' = Inf /\ initFp' = Inf /\ lastFp' = Inf /\ hprLast' = gap
    /\ handoff' = saved

DEV_NoRestartPending == Rewind(Inf, FALSE, NoPoint)
DEV_HandoffKept == Rewind(Inf, TRUE, handoff)

\* "Restart all Halpern and controller state together."
ResetController == Rewind(Inf, TRUE, NoPoint)

\* mlx_recover_numerical_failure: back to the checkpoint with a smaller step.
Recover ==
    /\ pc = "evaluated" /\ NumericallyBad /\ CanRecover
    /\ Become(Feedback(Evaluate(RestoreBest(Now)), total, TRUE, TRUE))
    /\ reductions' = reductions + 1
    /\ ResetController
    /\ full' = FALSE /\ pc' = "check"
    /\ hist' = [hist EXCEPT !.baseline = FALSE, !.recovered = TRUE,
                            !.recoveredAt = total]
    /\ UNCHANGED <<run, total, cond, status, expired, result>>

GiveUp ==
    /\ pc = "evaluated" /\ NumericallyBad /\ ~CanRecover
    /\ status' = "NUMERICAL_ERROR" /\ pc' = "finish"
    /\ UNCHANGED <<run, counters, iterate, handoff, fpState, cond, full, expired,
                   result, hist>>

\* An accepted evaluation is audited when due, then offered to the safeguard.
Accept ==
    /\ pc = "evaluated" /\ ~NumericallyBad
    /\ LET s == Feedback(Now, total, FALSE, FALSE)
       IN  Become(SaveBest(s)) /\ hist' = Offered(hist, s.shown)
    /\ full' = (Regular \/ total >= IterLimit)
    /\ pc' = "check"
    /\ UNCHANGED <<run, counters, handoff, fpState, cond, status, expired, result>>

------------------------------------------------------------------------------
(* mlx_check_termination reads the clock twice: once to decide whether the *)
(* ray certificates are due and once for the time limit itself.            *)

OnCertificateCadence ==
    \/ ~run.sparseMetal
    \/ total \div Freq <= 1
    \/ (total \div Freq) % run.perCheck = 0

DEV_CadenceOnly == (full /\ OnCertificateCadence) \/ expired

CertificateDue ==
    \/ full /\ OnCertificateCadence
    \/ total >= IterLimit
    \/ expired

Stop(reason) == status' = reason /\ pc' = "finish"

CheckOptimal ==
    /\ pc = "check" /\ PassesTolerances(shown)
    /\ Stop("OPTIMAL")
    /\ UNCHANGED <<run, counters, iterate, handoff, fpState, cond, full, expired,
                   result, hist>>

CheckCertificates ==
    /\ pc = "check" /\ ~PassesTolerances(shown)
    /\ hist' = [hist EXCEPT !.certAt = IF CertificateDue THEN total ELSE @]
    /\ \/ CertificateDue /\ Stop("PRIMAL_INFEASIBLE")
       \/ CertificateDue /\ Stop("DUAL_INFEASIBLE")
       \/ pc' = "limits" /\ UNCHANGED status
    /\ UNCHANGED <<run, counters, iterate, handoff, fpState, cond, full, expired, result>>

HandoffCandidate ==
    /\ full /\ run.handoff /\ IsFinite(shown)
    /\ shown.primal <= run.gate /\ shown.dual <= One /\ 2 * shown.gap <= OptTol
    /\ handoff = NoPoint \/ 2 * Kkt(shown) < handoff.kkt

Handoff ==
    IF HandoffCandidate
    THEN [point |-> pdhg, at |-> total, kkt |-> Kkt(shown)]
    ELSE handoff

Stagnates(h) ==
    full /\ h # NoPoint /\ total - h.at >= run.window * Freq

DEV_OutOfTimeOnFull == full /\ expired

OutOfTime == expired

CheckLimits ==
    /\ pc = "limits"
    /\ handoff' = Handoff
    /\ IF Stagnates(Handoff)
       THEN /\ pdhg' = Handoff.point /\ shown' = Handoff.point.dev
            /\ Stop("HOST_DOUBLE_HANDOFF")
       ELSE /\ CASE total >= IterLimit -> Stop("ITERATION_LIMIT")
                 [] total < IterLimit /\ OutOfTime -> Stop("TIME_LIMIT")
                 [] OTHER -> /\ pc' = IF full THEN "decide" ELSE "loop"
                             /\ UNCHANGED status
            /\ UNCHANGED <<pdhg, shown>>
    /\ UNCHANGED <<run, counters, best, host, fpState, cond, full, expired, result, hist>>

------------------------------------------------------------------------------
(* mlx_should_adaptive_restart and mlx_perform_restart, which only run on  *)
(* regular checkpoints; `full' without a limit means exactly that.         *)

PidRestart ==
    \/ total = Freq
    \/ /\ total > Freq
       /\ \/ 5 * fp <= initFp                    \* sufficient
          \/ 2 * fp <= initFp /\ fp > lastFp     \* necessary, then growth
          \/ 100 * inner >= 36 * total           \* artificial

HprRestart ==
    \/ total = Freq
    \/ /\ total > Freq
       /\ \/ 5 * fp <= hprLast
          \/ hprLast # Inf /\ 10 * fp <= 6 * hprLast /\ fp > lastFp
          \/ 5 * inner >= total

ShouldRestart == IF run.hpr THEN HprRestart ELSE PidRestart

Decide ==
    /\ pc = "decide"
    /\ cond' = IF run.conditional THEN WithinTenfold(shown) ELSE cond
    /\ IF ShouldRestart
       THEN /\ doRestart' = TRUE /\ inner' = 0 /\ lastFp' = Inf
            /\ hprLast' = IF run.hpr THEN fp ELSE hprLast
            /\ hist' = [hist EXCEPT !.baseline = FALSE, !.recovered = FALSE]
       ELSE lastFp' = fp /\ UNCHANGED <<doRestart, inner, hprLast, hist>>
    /\ pc' = "loop"
    /\ UNCHANGED <<run, total, reductions, iterate, handoff, fp, initFp, invalid, full,
                   status, expired, result>>

------------------------------------------------------------------------------
\* finish_solve with feasibility polishing off (its default): limits return
\* the checkpoint, and both forced audits may bring back the audited incumbent.
FinishSolve ==
    /\ pc = "finish"
    /\ LET s == IF status \in Limits THEN RestoreBest(Now) ELSE Now
           t == Feedback(Evaluate(s), total, TRUE, TRUE)
       IN  Become(Feedback(t, total, TRUE, TRUE))
    /\ pc' = "extract"
    /\ UNCHANGED <<run, counters, handoff, fpState, cond, full, status, expired,
                   result, hist>>

\* recompute_original_certificate: the status follows the audited vectors.
Audit(r) ==
    CASE r.orig -> [r EXCEPT !.status = "OPTIMAL"]
      [] ~r.orig /\ r.status = "OPTIMAL" -> [r EXCEPT !.status = "UNSPECIFIED"]
      [] OTHER -> r

\* extract_result without presolve: audit, bounded float64 continuation (its
\* bound repair may touch even a passing point), and the audit once more.
ExtractResult ==
    /\ pc = "extract"
    /\ \E polished \in BOOLEAN :
         LET r == Audit([status |-> status, orig |-> pdhg.orig])
         IN  /\ ~run.polish => polished = r.orig
             /\ result' = Audit([r EXCEPT !.orig = polished])
    /\ pc' = "done"
    /\ UNCHANGED <<run, counters, iterate, handoff, fpState, cond, full, status,
                   expired, hist>>

ClockExpires ==
    /\ ~expired /\ pc # "done" /\ expired' = TRUE
    /\ UNCHANGED <<run, pc, counters, iterate, handoff, fpState, cond, full, status,
                   result, hist>>

Step ==
    \/ InitializeSolve \/ RunBlock \/ LeaveLoop \/ Recover \/ GiveUp \/ Accept
    \/ CheckOptimal \/ CheckCertificates \/ CheckLimits \/ Decide
    \/ FinishSolve \/ ExtractResult

Returned == pc = "done" /\ UNCHANGED vars

Next == Step \/ ClockExpires \/ Returned

Spec == Init /\ [][Next]_vars

Locations == {"init", "loop", "evaluated", "check", "limits", "decide",
              "finish", "extract", "done"}

\* solve() is one thread that never blocks: until it returns, it leaves each
\* location it is at.  Every Step does so, the clock does not, and TLC's deadlock
\* check finds a location without a step: this is WF_pc(Step), checked cheaply.
Moves == pc # "done" /\ pc' \in Locations

FairSpec == Spec /\ WF_pc(Moves)

------------------------------------------------------------------------------
HostIncumbent == [inc : Points \cup {NoPoint}, active : BOOLEAN, last : Nat]
Checkpoints == [point : Points, metric : Metric]
Handoffs == [point : Points, at : Nat, kkt : Nat]
Statuses == Limits \cup {"UNSPECIFIED", "OPTIMAL", "PRIMAL_INFEASIBLE",
                         "DUAL_INFEASIBLE", "HOST_DOUBLE_HANDOFF"}
Histories == [seen : SUBSET Metric, baseline : BOOLEAN, certAt : Nat,
              late : Nat, recovered : BOOLEAN, recoveredAt : Nat]

TypeOK ==
    /\ run \in Instances
    /\ pc \in Locations
    /\ total \in Nat /\ inner \in Nat /\ reductions \in Nat
    /\ pdhg \in Points /\ shown \in Reading
    /\ best \in Checkpoints \cup {NoPoint}
    /\ host \in HostIncumbent
    /\ handoff \in Handoffs \cup {NoPoint}
    /\ fp \in Nat /\ initFp \in Nat /\ lastFp \in Nat /\ hprLast \in Nat
    /\ {doRestart, invalid, cond, full, expired} \subseteq BOOLEAN
    /\ status \in Statuses
    /\ result \in [status : Statuses, orig : BOOLEAN] \cup {NoPoint}
    /\ hist \in Histories

(***************************************************************************)
(* What is published describes the point in place: the residuals the loop  *)
(* tests, restarts from and returns are a reading (device or audited) of   *)
(* x_pdhg itself, although recovery, the handoff, the audited incumbent    *)
(* and finish_solve all exchange that point.                               *)
(***************************************************************************)
PublishedDescribesPoint ==
    pc \notin {"init", "evaluated"} =>
        shown \in {pdhg.dev} \cup (IF HostFeedback THEN {pdhg.aud} ELSE {})

(***************************************************************************)
(* A time, iteration or numerical limit returns useful work: the best      *)
(* reading of everything offered, once one of them was informative         *)
(* (finish_solve and the comment on mlx_save_best_iterate in the loop).    *)
(***************************************************************************)
LimitReturnsMinimum ==
    /\ pc \in {"extract", "done"}
    /\ status \in Limits
    /\ ~HostFeedback
    /\ \E m \in hist.seen : Kkt(m) < SatFloor
    => /\ IsFinite(shown)
       /\ \A m \in hist.seen : Kkt(shown) <= Kkt(m)

(***************************************************************************)
(* Once an evaluation was finite (and, with feedback, an audit was), no    *)
(* path returns a point whose published reading is not, not even a solve   *)
(* that ends in NUMERICAL_ERROR.                                           *)
(***************************************************************************)
NeverReturnsNonFinite ==
    /\ pc \in {"extract", "done"}
    /\ hist.seen # {}
    /\ HostFeedback => host.inc # NoPoint
    => IsFinite(shown)

(***************************************************************************)
(* With float64 feedback on, OPTIMAL is never declared from a device       *)
(* reading: the point returned under OPTIMAL passes its own audit, even    *)
(* where the audited incumbent was exchanged for it at the end.            *)
(***************************************************************************)
OptimalIsAudited ==
    pc \in {"extract", "done"} /\ status = "OPTIMAL" /\ HostFeedback
        => PassesTolerances(pdhg.aud)

(***************************************************************************)
(* The restart tests compare against a baseline measured since the last    *)
(* restart or recovery, also where a recovery replaced the first block's   *)
(* unconditional restart (do_restart, initial_fixed_point_error).          *)
(***************************************************************************)
BaselineMeasured ==
    pc = "decide" /\ total > Freq => hist.baseline

(***************************************************************************)
(* At most one block is started after the time limit has passed: every way *)
(* back to the loop, recoveries and early evaluations included, reads the  *)
(* clock first (mlx_check_termination).                                    *)
(***************************************************************************)
OneLateBlock == hist.late <= 1

(***************************************************************************)
(* "A limit block is always checked to preserve certificate precedence     *)
(* over iteration/time-limit statuses": ITERATION_LIMIT is only reported   *)
(* after the ray certificates of that very point were tested.              *)
(***************************************************************************)
IterationLimitAfterCertificates ==
    status = "ITERATION_LIMIT" /\ IterLimit > 0 => hist.certAt = total

\* The same sentence for the time limit.  The second reading of the clock
\* may see a deadline that the first one did not.
TimeLimitAfterCertificates ==
    status = "TIME_LIMIT" /\ total > 0 => hist.certAt = total

(***************************************************************************)
(* "Restart decisions retain their configured cadence": no block runs past *)
(* a regular checkpoint, and an adaptive restart begins only on one, so    *)
(* early evaluations do not move restarts.                                 *)
(***************************************************************************)
RestartsOnCadence ==
    [][/\ total' # total =>
              \A n \in total + 1 .. total' - 1 : n % Freq # 0
       /\ doRestart' /\ ~doRestart /\ reductions' = reductions =>
              total % Freq = 0]_vars

(***************************************************************************)
(* "Restart all Halpern and controller state together": nothing measured   *)
(* before a recovery decides anything after it.  A stagnation handoff      *)
(* returns a point of the current operator, a full window old, one of      *)
(* whose readings has the merit that passed the gates; and under HPR the   *)
(* first regular checkpoint always restarts (infinite hpr_last_gap).       *)
(***************************************************************************)
RecoveryForgets ==
    [][/\ pc' = "finish" /\ status' = "HOST_DOUBLE_HANDOFF" =>
              /\ handoff'.at > hist'.recoveredAt \/ reductions' = 0
              /\ total' - handoff'.at >= run.window * Freq
              /\ \E m \in {pdhg'.dev} \cup (IF HostFeedback THEN {pdhg'.aud} ELSE {}) :
                   IsFinite(m) /\ Kkt(m) = handoff'.kkt
       /\ pc = "decide" /\ pc' # pc /\ run.hpr /\ hist.recovered => doRestart']_vars

\* Every solve returns a result.
Termination == <>(pc = "done")

\* The metrics that can ever be published.
Readings ==
    (UNION {{p.dev, p.aud} : p \in UNION {i.points : i \in Instances}}) \ {NonFinite}

Safeguard == INSTANCE Checkpoint WITH
    Candidates   <- Readings,
    NoCheckpoint <- NoPoint,
    best         <- IF best = NoPoint THEN NoPoint ELSE best.metric,
    seen         <- hist.seen

(***************************************************************************)
(* The solve loop implements the abstract safeguard: each finite published *)
(* reading is offered exactly when it is accepted, and recovery, restarts, *)
(* handoff and the final restore leave the checkpoint alone.               *)
(***************************************************************************)
ImplementsSafeguard == Safeguard!CpSpec
==============================================================================
