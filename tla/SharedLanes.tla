----------------------------- MODULE SharedLanes -----------------------------
(***************************************************************************)
(* BatchDriver::run_shared: a group of LPs over one matrix iterates in     *)
(* lockstep.  Each LP is a lane with its own controller; a block of shared *)
(* iterations ends where the nearest lane is due, or early when a lane's   *)
(* deadline passes.  Lanes that are not due must not notice.               *)
(*                                                                         *)
(* An iterate is named by the iteration of its lane that wrote it; what an *)
(* evaluation finds is a free choice.  Step sizes, weights and Halpern      *)
(* indices are left out; both dimensions are positive.                     *)
(* DEV_... definitions are deviations, as in PdhgSolve.                    *)
(***************************************************************************)
EXTENDS Integers, Cadence

CONSTANTS
    NumLanes,    \* lanes of the group (its padding lanes are masked)
    Configs,     \* parameters and options a group is run with
    Native,      \* max_metal_batch_iterations
    None         \* no checkpoint, no result

Lanes == 1 .. NumLanes

IsConfig(c) ==
    /\ c.freq \in Nat \ {0}        \* termination_evaluation_frequency
    /\ c.limit \in Nat             \* iteration_limit
    /\ c.batch \in Nat \ {0}       \* iteration_batch_size
    /\ c.native \in BOOLEAN        \* metal_spmm_minor_batch is usable
    /\ c.conditional \in BOOLEAN   \* conditional checks on, and nnz small enough
    /\ c.feedback \in BOOLEAN      \* host_double_residual_evaluation
    /\ c.handoff \in BOOLEAN       \* host_double_early_handoff
    /\ c.maxReductions \in Nat

\* INFEASIBLE stands for both rays, which are tested and audited alike.
Reasons == {"OPTIMAL", "INFEASIBLE", "TIME_LIMIT", "ITERATION_LIMIT",
            "NUMERICAL_ERROR", "HOST_DOUBLE_HANDOFF"}

ASSUME LanesAssumption ==
    /\ NumLanes \in Nat \ {0} /\ Native \in Nat \ {0}
    /\ None \notin [point : Nat, of : Nat] \cup Reasons
    /\ \A c \in Configs : IsConfig(c)

VARIABLES
    run,         \* the configuration
    pc,
    active,      \* lanes still iterating
    k,           \* shared iterations of this block so far: advanced
    due,         \* member_due of each lane, for this block
    distance,    \* the smallest of them
    major,       \* the last of them that was major, 0 if none
    lane,        \* the lane being judged
    total,       \* total_count of each lane
    fresh,       \* a restart waits for its first-iteration baseline
    conditional, \* early checks admissible
    pdhg,        \* iteration that wrote x_pdhg, y_pdhg, dual_slack
    shown,       \* published residuals: iteration, finite, offered already
    best,        \* checkpoint: the point saved and the point of its readings
    invalid,     \* invalid_fixed_point_metric_
    reductions,  \* step_size_reductions
    expired,     \* the batch's or the lane's deadline has passed
    status,      \* termination_reason
    results,     \* results[begin + j]
    hist         \* history: solo checkpoint, baseline measured, late iterations

vars == <<run, pc, active, k, due, distance, major, lane, total, fresh,
          conditional, pdhg, shown, best, invalid, reductions, expired, status,
          results, hist>>

block == <<k, due, distance, major>>
evaluation == <<pdhg, shown, best, invalid, reductions>>
outcome == <<active, status, results>>

Least(a, b) == IF a <= b THEN a ELSE b

\* Iterations until a lane at n is next evaluated, in a group and alone.
Within(n, early, stride) ==
    Least(IF early THEN Least(run.freq - (n % run.freq), stride - (n % stride))
          ELSE run.freq - (n % run.freq),
          run.limit - n)

Due(n, early) == Within(n, early, LaneStride(n))
SoloDue(n, early) == Within(n, early, ConditionalEvaluationInterval(n))

\* Both strides are positive up to the iteration limit.
ASSUME StridesAssumption ==
    \A c \in Configs : \A n \in 0 .. c.limit :
        LaneStride(n) \in Nat \ {0} /\ ConditionalEvaluationInterval(n) \in Nat \ {0}

\* What JudgedLikeSolo needs of a group: up to its limit the two strides are
\* the same, and grow only where a stride ends.
StridesMatch ==
    \A c \in Configs : \A n \in 0 .. c.limit :
        /\ LaneStride(n) = ConditionalEvaluationInterval(n)
        /\ \A m \in n .. c.limit :
              m < n + (LaneStride(n) - (n % LaneStride(n))) => LaneStride(m) = LaneStride(n)

\* finish_member: an audit decides what finish_solve reports; a first result stays.
Outcomes(reason) ==
    {"OPTIMAL", IF reason = "OPTIMAL" THEN "NUMERICAL_ERROR" ELSE reason}

DEV_FinishAgain(finished, reason) ==
    \E r \in [finished -> Reasons \cup {"UNSPECIFIED"}] :
        /\ \A j \in finished : r[j] \in Outcomes(reason[j])
        /\ results' = [j \in Lanes |-> IF j \in finished THEN r[j] ELSE results[j]]

FinishMembers(finished, reason) ==
    \E r \in [finished -> Reasons \cup {"UNSPECIFIED"}] :
        /\ \A j \in finished : r[j] \in Outcomes(reason[j])
        /\ results' = [j \in Lanes |-> IF j \in finished /\ results[j] = None THEN r[j]
                                       ELSE results[j]]

------------------------------------------------------------------------------
\* Members are admitted and initialized: the start point is evaluated and
\* offered, unless its residuals are not finite.
Init ==
    /\ run \in Configs
    /\ pc = "top" /\ active = Lanes /\ lane = 1
    /\ k = 0 /\ distance = 0 /\ major = 0 /\ due = [j \in Lanes |-> 0]
    /\ total = [j \in Lanes |-> 0]
    /\ fresh = [j \in Lanes |-> FALSE] /\ conditional = fresh /\ invalid = fresh
    /\ pdhg = total
    /\ \E finite \in [Lanes -> BOOLEAN] :
         /\ shown = [j \in Lanes |-> [at |-> 0, finite |-> finite[j], offered |-> TRUE]]
         /\ best = [j \in Lanes |-> IF finite[j] THEN [point |-> 0, of |-> 0] ELSE None]
    /\ reductions = total
    /\ expired \in [Lanes -> BOOLEAN]
    /\ status = [j \in Lanes |-> "UNSPECIFIED"]
    /\ results = [j \in Lanes |-> None]
    /\ hist = [next |-> [j \in Lanes |-> SoloDue(0, FALSE)], baseline |-> fresh, late |-> total]

\* Lanes past their deadline leave before anything is dispatched.
DropExpired ==
    /\ pc = "top"
    /\ LET late == {j \in active : expired[j]}
       IN  /\ active' = active \ late
           /\ status' = [j \in Lanes |-> IF j \in late THEN "TIME_LIMIT" ELSE status[j]]
           /\ FinishMembers(late, status')
    /\ pc' = IF active' = {} THEN "leave" ELSE "plan"
    /\ UNCHANGED <<run, block, lane, total, fresh, conditional, evaluation, expired, hist>>

\* The block runs to the nearest due lane; none is left to run at the limit.
PlanBlock ==
    /\ pc = "plan"
    /\ due' = [j \in Lanes |-> IF j \in active THEN Due(total[j], conditional[j]) ELSE 0]
    /\ distance' \in {due'[j] : j \in active}
    /\ \A j \in active : distance' <= due'[j]
    /\ k' = 0 /\ major' = 0
    /\ pc' = IF distance' <= 0 THEN "leave" ELSE "iterate"
    /\ UNCHANGED <<run, outcome, lane, total, fresh, conditional, evaluation, expired, hist>>

------------------------------------------------------------------------------
DEV_BaselineIfAll == k = 0 /\ \A j \in active : fresh[j]

\* "first-step baselines belong to each member", but the first iteration is
\* major for every lane; a flag a dropped lane left behind total too.
Baseline == k = 0 /\ \E j \in Lanes : fresh[j]

DEV_NativeCount == Least(distance - (k + 1), Native)

DEV_ToTheCheck ==
    Least(Least(distance - (k + 1), Native), run.batch - 1 - (k % run.batch))

\* Iterations the next dispatch runs: a native block ends before the last
\* iteration and at the multiples of iteration_batch_size.
NativeCount ==
    Least(Least(distance - (k + 1), Native), run.batch - (k % run.batch))

Iterate(count, isMajor) ==
    /\ k' = k + count
    /\ major' = IF isMajor THEN k + 1 ELSE major
    /\ pc' = IF k' = distance \/ (k' % run.batch = 0 /\ \E j \in active : expired[j])
             THEN "gather" ELSE "iterate"

Late(count) == [j \in Lanes |-> hist.late[j] + IF expired[j] /\ j \in active THEN count ELSE 0]

MeasureBaselines ==
    /\ pc = "iterate" /\ Baseline
    /\ Iterate(1, TRUE)
    /\ LET measured == {j \in active : fresh[j]}
       IN  /\ \E bad \in SUBSET measured :
                invalid' = [j \in Lanes |-> invalid[j] \/ j \in bad]
           /\ fresh' = [j \in Lanes |-> fresh[j] /\ j \notin measured]
           /\ hist' = [hist EXCEPT !.late = Late(1),
                          !.baseline = [j \in Lanes |-> @[j] \/ j \in measured]]
    /\ UNCHANGED <<run, outcome, due, distance, lane, total, conditional, pdhg, shown,
                   best, reductions, expired>>

MinorIterations ==
    /\ pc = "iterate" /\ ~Baseline /\ k + 1 < distance
    /\ Iterate(IF run.native /\ run.batch > 1 THEN NativeCount ELSE 1, FALSE)
    /\ hist' = [hist EXCEPT !.late = Late(k' - k)]
    /\ UNCHANGED <<run, outcome, due, distance, lane, total, fresh, conditional,
                   evaluation, expired>>

LastIteration ==
    /\ pc = "iterate" /\ ~Baseline /\ k + 1 = distance
    /\ Iterate(1, TRUE)
    /\ hist' = [hist EXCEPT !.late = Late(1)]
    /\ UNCHANGED <<run, outcome, due, distance, lane, total, fresh, conditional,
                   evaluation, expired>>

\* The lanes take their columns of the workspace.
Gather ==
    /\ pc = "gather"
    /\ pdhg' = [j \in Lanes |-> IF j \in active /\ major # 0 THEN total[j] + major ELSE pdhg[j]]
    /\ lane' = 1 /\ pc' = "count"
    /\ UNCHANGED <<run, outcome, block, total, fresh, conditional, shown, best, invalid,
                   reductions, expired, hist>>

------------------------------------------------------------------------------
(* The lanes are judged one after the other; the clock moves on.           *)

AtLimit(j) == total[j] >= run.limit
Regular(j) == total[j] % run.freq = 0

\* After the last lane the block's local variables go out of scope.
NextLane ==
    IF lane < NumLanes THEN lane' = lane + 1 /\ pc' = "count" /\ UNCHANGED block
    ELSE /\ lane' = 1 /\ pc' = "top"
         /\ k' = 0 /\ distance' = 0 /\ major' = 0 /\ due' = [j \in Lanes |-> 0]

DEV_NeverPasses(j, n) == FALSE

\* "A speculative check due for another member changes neither this member's
\* controller history nor its best certificate."
PassedOver(j, n) == k < due[j] /\ n < run.limit /\ ~expired[j]

CountLane ==
    /\ pc = "count"
    /\ IF lane \notin active
       THEN NextLane /\ UNCHANGED <<total, shown, invalid>>
       ELSE /\ total' = [total EXCEPT ![lane] = @ + k]
            /\ IF PassedOver(lane, total'[lane]) THEN NextLane /\ UNCHANGED <<shown, invalid>>
               ELSE /\ pc' = "judge" /\ UNCHANGED <<lane, block>>
                    /\ IF k = distance /\ k >= due[lane]
                       THEN \E finite, bad \in BOOLEAN :
                              /\ shown' = [shown EXCEPT ![lane] =
                                   [at |-> pdhg[lane], finite |-> finite, offered |-> FALSE]]
                              /\ invalid' = [invalid EXCEPT ![lane] = @ \/ bad]
                       ELSE UNCHANGED <<shown, invalid>>
    /\ UNCHANGED <<run, outcome, fresh, conditional, pdhg, best, reductions, expired,
                   hist>>

NumericallyBad(j) == invalid[j] \/ ~shown[j].finite
CanRecover(j) == best[j] # None /\ reductions[j] < run.maxReductions

\* A lane goes back to its checkpoint; its neighbours iterate on.  The audit
\* of the checkpoint replaces its device reading.
Recover ==
    /\ pc = "judge" /\ NumericallyBad(lane) /\ CanRecover(lane)
    /\ reductions' = [reductions EXCEPT ![lane] = @ + 1]
    /\ pdhg' = [pdhg EXCEPT ![lane] = best[lane].point]
    /\ \E finite \in BOOLEAN :
         /\ finite \/ run.feedback
         /\ shown' = [shown EXCEPT ![lane] =
                        [at |-> best[lane].point, finite |-> finite, offered |-> FALSE]]
    /\ invalid' = [invalid EXCEPT ![lane] = FALSE]
    /\ fresh' = [fresh EXCEPT ![lane] = TRUE]
    /\ hist' = [hist EXCEPT !.baseline[lane] = FALSE]
    /\ pc' = "close"
    /\ UNCHANGED <<run, outcome, block, lane, total, conditional, best, expired>>

GiveUp ==
    /\ pc = "judge" /\ NumericallyBad(lane) /\ ~CanRecover(lane)
    /\ status' = [status EXCEPT ![lane] = "NUMERICAL_ERROR"]
    /\ pc' = "close"
    /\ UNCHANGED <<run, active, results, block, lane, total, fresh, conditional,
                   evaluation, expired, hist>>

\* mlx_host_double_feedback audits the point in place, if at all; then
\* mlx_save_best_iterate: readings offered before cannot improve on it again.
Accept ==
    /\ pc = "judge" /\ ~NumericallyBad(lane)
    /\ \E audited \in {run.feedback, FALSE}, finite, improves \in BOOLEAN :
         LET s == IF audited THEN [at |-> pdhg[lane], finite |-> finite, offered |-> FALSE]
                  ELSE shown[lane]
         IN  /\ ~audited => finite
             /\ improves => s.finite /\ ~s.offered
             /\ best[lane] = None /\ s.finite => improves
             /\ shown' = [shown EXCEPT ![lane] = [s EXCEPT !.offered = TRUE]]
             /\ best' = [best EXCEPT ![lane] =
                           IF improves THEN [point |-> pdhg[lane], of |-> s.at] ELSE @]
    /\ pc' = "test"
    /\ UNCHANGED <<run, outcome, block, lane, total, fresh, conditional, pdhg, invalid,
                   reductions, expired, hist>>

\* What mlx_check_termination may set once optimality did not.
Stops(j) ==
    (IF Regular(j) \/ AtLimit(j) \/ expired[j] THEN {"INFEASIBLE"} ELSE {})
    \cup (IF run.handoff /\ (Regular(j) \/ AtLimit(j)) THEN {"HOST_DOUBLE_HANDOFF"} ELSE {})
    \cup {IF AtLimit(j) THEN "ITERATION_LIMIT"
          ELSE IF expired[j] THEN "TIME_LIMIT" ELSE "UNSPECIFIED"}

\* A certificate that fails its original-model audit is withdrawn.
Test ==
    /\ pc = "test"
    /\ \E reason \in Stops(lane) \cup {"OPTIMAL"}, passes \in BOOLEAN :
         /\ status' = [status EXCEPT ![lane] =
              IF ~passes /\ reason \in {"OPTIMAL", "INFEASIBLE"}
              THEN "UNSPECIFIED" ELSE reason]
         /\ IF reason = "OPTIMAL" /\ ~passes /\ run.feedback
            THEN \E finite \in BOOLEAN : shown' = [shown EXCEPT ![lane] =
                   [at |-> pdhg[lane], finite |-> finite, offered |-> FALSE]]
            ELSE UNCHANGED shown
    /\ pc' = "restart"
    /\ UNCHANGED <<run, active, results, block, lane, total, fresh, conditional, pdhg, best,
                   invalid, reductions, expired, hist>>

\* The first regular checkpoint always restarts; later ones compare with the
\* baseline.
RestartTest ==
    /\ pc = "restart"
    /\ IF status[lane] = "UNSPECIFIED" /\ Regular(lane)
       THEN \E early \in {run.conditional, FALSE}, restart \in BOOLEAN :
              /\ total[lane] = run.freq => restart
              /\ conditional' = [conditional EXCEPT ![lane] = early]
              /\ fresh' = [fresh EXCEPT ![lane] = @ \/ restart]
              /\ hist' = [hist EXCEPT !.baseline[lane] = @ /\ ~restart]
       ELSE UNCHANGED <<conditional, fresh, hist>>
    /\ pc' = "close"
    /\ UNCHANGED <<run, outcome, block, lane, total, evaluation, expired>>

DEV_AnyDeadline(j) ==
    IF status[j] # "UNSPECIFIED" THEN status[j]
    ELSE IF \E i \in active : expired[i] THEN "TIME_LIMIT"
    ELSE IF AtLimit(j) THEN "ITERATION_LIMIT" ELSE "UNSPECIFIED"

FinalReason(j) ==
    IF status[j] # "UNSPECIFIED" THEN status[j]
    ELSE IF expired[j] THEN "TIME_LIMIT"
    ELSE IF AtLimit(j) THEN "ITERATION_LIMIT" ELSE "UNSPECIFIED"

CloseLane ==
    /\ pc = "close"
    /\ status' = [status EXCEPT ![lane] = FinalReason(lane)]
    /\ IF status'[lane] # "UNSPECIFIED"
       THEN /\ active' = active \ {lane} /\ fresh' = [fresh EXCEPT ![lane] = FALSE]
            /\ FinishMembers({lane}, status')
            /\ UNCHANGED hist
       ELSE /\ hist' = [hist EXCEPT !.next[lane] =
                                    total[lane] + SoloDue(total[lane], conditional[lane])]
            /\ UNCHANGED <<active, fresh, results>>
    /\ NextLane
    /\ UNCHANGED <<run, total, conditional, evaluation, expired>>

------------------------------------------------------------------------------
\* Lanes the loop left running are at the limit; every lane is finished.
LeaveLoop ==
    /\ pc = "leave"
    /\ status' = [j \in Lanes |-> IF status[j] = "UNSPECIFIED" THEN "ITERATION_LIMIT"
                                  ELSE status[j]]
    /\ FinishMembers(Lanes, status')
    /\ pc' = "done"
    /\ UNCHANGED <<run, active, block, lane, total, fresh, conditional, evaluation, expired,
                   hist>>

ClockExpires ==
    /\ pc # "done"
    /\ \E j \in Lanes : ~expired[j] /\ expired' = [expired EXCEPT ![j] = TRUE]
    /\ UNCHANGED <<run, pc, outcome, block, lane, total, fresh, conditional, evaluation, hist>>

Step ==
    \/ DropExpired \/ PlanBlock \/ MeasureBaselines \/ MinorIterations \/ LastIteration
    \/ Gather \/ CountLane \/ Recover \/ GiveUp \/ Accept \/ Test \/ RestartTest
    \/ CloseLane \/ LeaveLoop

Returned == pc = "done" /\ UNCHANGED vars

Next == Step \/ ClockExpires \/ Returned

Spec == Init /\ [][Next]_vars

\* run_shared is one thread, holding the plan's mutex already.
FairSpec == Spec /\ WF_vars(Step)

Readings == [at : Nat, finite : BOOLEAN, offered : BOOLEAN]

TypeOK ==
    /\ run \in Configs /\ active \subseteq Lanes /\ lane \in Lanes
    /\ pc \in {"top", "plan", "iterate", "gather", "count", "judge", "test", "restart",
               "close", "leave", "done"}
    /\ k \in Nat /\ distance \in Int /\ major \in Nat /\ due \in [Lanes -> Int]
    /\ total \in [Lanes -> Nat] /\ pdhg \in [Lanes -> Nat] /\ reductions \in [Lanes -> Nat]
    /\ fresh \in [Lanes -> BOOLEAN] /\ conditional \in [Lanes -> BOOLEAN]
    /\ invalid \in [Lanes -> BOOLEAN] /\ expired \in [Lanes -> BOOLEAN]
    /\ shown \in [Lanes -> Readings]
    /\ best \in [Lanes -> [point : Nat, of : Nat] \cup {None}]
    /\ status \in [Lanes -> Reasons \cup {"UNSPECIFIED"}]
    /\ results \in [Lanes -> Reasons \cup {None}]
    /\ hist \in [next : [Lanes -> Int], baseline : [Lanes -> BOOLEAN], late : [Lanes -> Nat]]

(***************************************************************************)
(* "Conditional checks use the union of due times; only due members update *)
(* their controller history": a lane is judged exactly where it would be   *)
(* evaluated alone, however its blocks were cut by other lanes' checks and *)
(* deadlines, unless its own deadline passed; and it never runs past that. *)
(***************************************************************************)
JudgedLikeSolo ==
    /\ pc \in {"judge", "test", "restart", "close"} =>
           total[lane] = hist.next[lane] \/ expired[lane]
    /\ \A j \in active : total[j] <= hist.next[j]

(***************************************************************************)
(* Restarts and "first-step baselines ... belong to each member": a lane's *)
(* later restart tests compare with a baseline measured since its own last *)
(* restart or recovery, whichever lanes the first iterations served.       *)
(***************************************************************************)
LaneBaselines ==
    pc = "restart" /\ Regular(lane) /\ total[lane] > run.freq => hist.baseline[lane]

(***************************************************************************)
(* "Time is checked ... at bounded iteration blocks": no lane runs more    *)
(* than iteration_batch_size iterations after its deadline, whatever the   *)
(* native blocks, baselines and the other lanes' due times make of it.     *)
(***************************************************************************)
LateWithinBatch == \A j \in Lanes : hist.late[j] <= run.batch

(***************************************************************************)
(* Termination belongs to each member: a lane only stops on its own        *)
(* deadline or at the iteration limit, although any lane's deadline cuts   *)
(* the block short and leftover lanes are closed without a test.           *)
(***************************************************************************)
OwnLimits ==
    \A j \in Lanes :
        /\ status[j] = "TIME_LIMIT" => expired[j]
        /\ status[j] = "ITERATION_LIMIT" => total[j] >= run.limit

(***************************************************************************)
(* "Preserve the best fully evaluated KKT point": the readings a lane's    *)
(* checkpoint was saved under are those of the point saved.                *)
(***************************************************************************)
BestFullyEvaluated ==
    \A j \in Lanes : best[j] # None => best[j].point = best[j].of

\* Every lane gets one result, once, with a definite reason.
Members == INSTANCE MemberResults WITH
    Members <- Lanes, Reasons <- Reasons, NoResult <- None, results <- results

(***************************************************************************)
(* The group implements the promise made for each member, although a       *)
(* member is finished in the loop, when it is dropped, or by the caller.   *)
(***************************************************************************)
ImplementsMembers == Members!MrSpec

\* The group returns, with a result for every lane.
GroupTermination == <>(pc = "done" /\ \A j \in Lanes : results[j] # None)
==============================================================================
