----------------------------- MODULE HostPolish ------------------------------
(***************************************************************************)
(* How a presolved solution leaves the solver: the float64 continuation    *)
(* host_double_polish on the reduced model, postsolve with the choice      *)
(* between its two reconstructions, and the continuation on the original   *)
(* model between two audits.  Both continuations share one iteration and   *)
(* one time budget.  A continuation goes through up to three phases: an    *)
(* objective-neutral descent that moves x alone, a dual certificate search *)
(* that holds x, and joint PDHG.                                           *)
(*                                                                         *)
(* A dual vector stands for (y, reduced costs) after projection onto the   *)
(* signs its bounds allow, which every audit and every phase applies first.*)
(* The optimality norm is L2, so that evaluate and the audit agree; a      *)
(* reading is NonFinite when the vectors are not finite.                   *)
(***************************************************************************)
EXTENDS Metrics

CONSTANTS
    Primals, Duals,  \* vectors; reduced and original model share the names
    Measure,         \* Measure[x][d]: reading of the pair
    Clamped,         \* Clamped[x]: x projected onto its variable bounds
    BoundViolation,  \* BoundViolation[x]: relative violation of those bounds
    Exact,           \* Exact[d]: the same y with reduced costs c - A'y
    Violation,       \* Violation[x]: squared row violation
    Stationarity,    \* Stationarity[x][d]: squared residual of the certificate
    DeviceReadings,  \* what the device may have published for its iterate
    One,             \* 1.0 on the scale of the readings
    PolishTol,       \* eps_feas_polish_relative
    Limit,           \* host_double_polishing_iteration_limit
    Freq,            \* max(3, termination_evaluation_frequency)
    NeutralCap,      \* 8192
    MaxMisses,       \* 8 iterations without a better point
    MaxHalvings      \* halvings that leave the certificate step above 1e-16

Point == [x : Primals, d : Duals]

ASSUME PolishAssumption ==
    /\ Measure \in [Primals -> [Duals -> Reading]]
    /\ Clamped \in [Primals -> Primals] /\ BoundViolation \in [Primals -> Nat]
    /\ Exact \in [Duals -> Duals]
    /\ Violation \in [Primals -> Nat]
    /\ Stationarity \in [Primals -> [Duals -> Nat]]
    /\ DeviceReadings \subseteq Reading
    /\ One \in Nat /\ PolishTol \in Nat /\ Limit \in Nat
    /\ {Freq, NeutralCap, MaxMisses, MaxHalvings} \subseteq Nat \ {0}

\* Reduced costs do not enter the primal residual, and no others of the
\* allowed signs are nearer to c - A'y.
ASSUME ExactIsNearest ==
    \A x \in Primals, d \in Duals :
        IsFinite(Measure[x][d]) /\ IsFinite(Measure[x][Exact[d]]) =>
            /\ Measure[x][Exact[d]].primal = Measure[x][d].primal
            /\ Measure[x][Exact[d]].dual <= Measure[x][d].dual

VARIABLES
    pc,
    model,     \* the continuation runs on the "working" or "original" model
    result,    \* vectors of the result
    reported,  \* its relative residuals and gap
    used,      \* host_double_polishing_iteration of the result
    timeUp,    \* the time budget is spent
    phaseUp,   \* the current phase's share of it is spent
    total,     \* total_count
    start,     \* x_initial, y_initial
    cur,       \* the phase's iterate
    top,       \* projection_best_x
    misses,    \* nonimproving_iterations
    until,     \* total_count at which the phase ends
    count,     \* certificate_count
    halvings,  \* certificate_backtracks
    baseline,  \* initial_fixed_point_error: "none", "due" after a restart, "measured"
    best, bestM, changed,  \* retained point, its metrics, best_changed
    reached,   \* correction_target_reached
    entry      \* history: what this continuation measured first

callVars == <<model, result, reported, used>>
searchVars == <<start, cur, top, misses, until, count, halvings, baseline>>
bestVars == <<best, bestM, changed, reached>>
vars == <<pc, callVars, timeUp, phaseUp, total, searchVars, bestVars, entry>>

Reads(p) == Measure[p.x][p.d]

------------------------------------------------------------------------------
(* The shared budget and the gates of one continuation.                    *)

DEV_WholeBudget == Limit

IterationLimit == Larger(0, Limit - used)

TargetFeas == IF model = "working" THEN Smaller(FeasTol, PolishTol) ELSE FeasTol

TargetOpt == IF model = "working" THEN Smaller(OptTol, PolishTol) ELSE OptTol

Meets(m) ==
    IsFinite(m) /\ Feas(m) < TargetFeas /\ m.gap < TargetOpt

\* Only x is in the way: its repair is admitted from further out.
PrimalOnly ==
    /\ model = "original"
    /\ reported.dual <= TargetFeas /\ reported.gap <= TargetOpt

PrimalGate ==
    IF PrimalOnly THEN Larger(One \div 5, 2000 * TargetFeas)
                  ELSE Larger(One \div 100, 100 * TargetFeas)

Admitted(repaired) ==
    /\ repaired \/ ~Meets(reported)
    /\ IsFinite(reported)
    /\ reported.primal <= PrimalGate /\ reported.dual <= One

DEV_MoreFeasible(m, b) == IsFinite(m) /\ (~IsFinite(b) \/ Feas(m) < Feas(b))

Improves(m, b) == IsFinite(m) /\ (~IsFinite(b) \/ BetterCheckpoint(m, b))

Retain(p, take) ==
    /\ best' = IF take THEN p ELSE best
    /\ bestM' = IF take THEN Reads(p) ELSE bestM
    /\ changed' = (changed \/ take)

------------------------------------------------------------------------------
Refined(p) ==
    LET e == [p EXCEPT !.d = Exact[p.d]]
    IN  IF /\ IsFinite(Reads(p)) /\ IsFinite(Reads(e))
           /\ Larger(Reads(e).dual, Reads(e).gap) < Larger(Reads(p).dual, Reads(p).gap)
        THEN e ELSE p

\* While no continuation runs its locals have one fixed value each.
Nowhere == CHOOSE p \in Point : TRUE

Init ==
    /\ model \in {"working", "original"}
    /\ pc = IF model = "working" THEN "polish" ELSE "audit"
    /\ result \in Point /\ reported \in DeviceReadings
    /\ used = 0 /\ timeUp = FALSE /\ entry = NonFinite
    /\ phaseUp = FALSE /\ total = 0
    /\ start = Nowhere /\ cur = Nowhere /\ top = Nowhere.x
    /\ misses = 0 /\ until = 0 /\ count = 0 /\ halvings = 0 /\ baseline = "none"
    /\ best = Nowhere /\ bestM = NonFinite /\ changed = FALSE /\ reached = FALSE

DEV_NoSecondAudit == IF model = "working" THEN "postsolve" ELSE "returned"

After == IF model = "working" THEN "postsolve" ELSE "reaudit"

\* polish_original_dual_certificate: audit, continuation, audit.
Audit ==
    /\ pc \in {"audit", "reaudit"}
    /\ result' = Refined(result) /\ reported' = Reads(result')
    /\ pc' = IF pc = "audit" THEN "polish" ELSE "returned"
    /\ UNCHANGED <<model, used, timeUp, phaseUp, total, searchVars, bestVars, entry>>

\* Nothing left of the budget: not even the bounds are repaired.
Skip ==
    /\ pc = "polish" /\ (IterationLimit = 0 \/ timeUp)
    /\ pc' = After
    /\ UNCHANGED <<callVars, timeUp, phaseUp, total, searchVars, bestVars, entry>>

Repaired == [result EXCEPT !.x = Clamped[@]]

Refuse ==
    /\ pc = "polish" /\ IterationLimit > 0 /\ ~timeUp
    /\ ~Admitted(Repaired # result)
    /\ result' = Repaired
    /\ pc' = After
    /\ UNCHANGED <<model, reported, used, timeUp, phaseUp, total, searchVars, bestVars, entry>>

NeedsNeutral(m) ==
    /\ model = "original" /\ IsFinite(m)
    /\ m.primal > TargetFeas /\ m.dual <= TargetFeas /\ m.gap <= TargetOpt

Begin ==
    /\ pc = "polish" /\ IterationLimit > 0 /\ ~timeUp
    /\ Admitted(Repaired # result)
    /\ result' = Repaired
    /\ start' = Repaired /\ cur' = Repaired /\ best' = Repaired /\ top' = Repaired.x
    /\ bestM' = Reads(Repaired) /\ entry' = bestM'
    /\ changed' = FALSE /\ reached' = FALSE /\ phaseUp' = FALSE
    /\ total' = 0 /\ misses' = 0 /\ count' = 0 /\ halvings' = 0 /\ baseline' = "none"
    /\ until' = Smaller(NeutralCap, Larger(1, IterationLimit \div 2))
    /\ pc' = IF NeedsNeutral(bestM') THEN "neutral" ELSE "choose"
    /\ UNCHANGED <<model, reported, used, timeUp>>

------------------------------------------------------------------------------
(* Objective-neutral descent: x moves, the dual vector stays.              *)

TooManyMisses(n) == n >= MaxMisses

\* One line search.  It may find no step, or only directions of no length.
NeutralIteration ==
    /\ pc = "neutral" /\ total < until /\ ~phaseUp
    /\ total' = total + 1
    /\ \/ /\ pc' = "neutralEnd"       \* no step was accepted
          /\ UNCHANGED <<cur, top, misses, bestVars>>
       \/ \E x \in Primals :
            LET p == [cur EXCEPT !.x = x]
                gains == /\ IsFinite(Reads(p))
                         /\ Kkt(Reads(p)) < Kkt(Reads([cur EXCEPT !.x = top]))
            IN  /\ Violation[x] < Violation[cur.x]
                /\ cur' = p
                /\ top' = IF gains THEN x ELSE top
                /\ misses' = IF gains THEN 0 ELSE misses + 1
                /\ Retain(p, Improves(Reads(p), bestM))
                /\ reached' = Meets(bestM')
                /\ pc' = IF reached' \/ TooManyMisses(misses')
                         THEN "neutralEnd" ELSE "neutral"
    /\ UNCHANGED <<callVars, timeUp, phaseUp, start, until, count, halvings, baseline, entry>>

DEV_StaysAtStart == start

NeutralHandoff ==
    LET p == [start EXCEPT !.x = top]
    IN  IF Kkt(Reads(p)) < Kkt(Reads(start)) THEN p ELSE start

\* Also when the descent direction or its curvature vanishes.
EndNeutral ==
    /\ pc \in {"neutral", "neutralEnd"}
    /\ start' = NeutralHandoff /\ cur' = start'
    /\ pc' = "choose"
    /\ UNCHANGED <<callVars, timeUp, phaseUp, total, top, misses, until, count,
                   halvings, baseline, bestVars, entry>>

------------------------------------------------------------------------------
(* Dual certificate at a fixed primal point.                               *)

NeedsCertificate ==
    /\ IsFinite(bestM)
    /\ bestM.primal <= TargetFeas
    /\ bestM.dual > TargetFeas \/ bestM.gap > TargetOpt

CertificateBudget(remaining) ==
    IF remaining <= 1 THEN remaining ELSE Larger(1, remaining \div 2)

SkipCertificate ==
    /\ pc = "choose" /\ ~NeedsCertificate
    /\ pc' = "joint"
    /\ UNCHANGED <<callVars, timeUp, phaseUp, total, searchVars, bestVars, entry>>

\* The multipliers are first projected onto the rows active at x.
BeginCertificate ==
    /\ pc = "choose" /\ NeedsCertificate
    /\ \E d \in Duals :
         /\ cur' = [start EXCEPT !.d = d]
         /\ Retain(cur', Improves(Reads(cur'), bestM))
    /\ reached' = (reached \/ Meets(bestM'))
    /\ until' = total + CertificateBudget(IterationLimit - total)
    /\ phaseUp' = timeUp
    /\ pc' = "certificate"
    /\ UNCHANGED <<callVars, timeUp, total, start, top, misses, count, halvings,
                   baseline, entry>>

DEV_WholeBlocks(remaining) == Smaller(Freq, remaining - (remaining % Freq))

Block(remaining) == Smaller(Freq, remaining)

Searching ==
    /\ pc = "certificate" /\ ~reached /\ total < until /\ ~phaseUp
    /\ Stationarity[start.x][cur.d] > 0

\* A block that raises the residual is rolled back; its iterations count.
\* The clock is read before each iteration.
CertificateBlock ==
    /\ Searching
    /\ \E done \in 0 .. Block(until - total), d \in Duals :
         LET block == Block(until - total)
             accepted == Stationarity[start.x][d] <= Stationarity[start.x][cur.d]
         IN  /\ done = 0 => d = cur.d
             /\ total' = total + done /\ count' = count + done
             /\ cur' = IF accepted THEN [start EXCEPT !.d = d] ELSE cur
             /\ halvings' = IF accepted THEN halvings ELSE halvings + 1
             /\ phaseUp' = (done < block)
             /\ Retain(cur', Improves(Reads(cur'), bestM))
             /\ reached' = Meets(bestM')
             /\ pc' = IF reached' \/ done < block \/ halvings' > MaxHalvings
                      THEN "handoff" ELSE "certificate"
    /\ UNCHANGED <<callVars, timeUp, start, top, misses, until, baseline, entry>>

\* Joint PDHG continues from the retained x, with the dual vector whose
\* residual is smaller.
HandOff ==
    /\ pc = "handoff" \/ (pc = "certificate" /\ ~Searching)
    /\ start' = [x |-> best.x,
                 d |-> IF IsFinite(Reads(cur)) /\ Reads(cur).dual < bestM.dual
                       THEN cur.d ELSE best.d]
    /\ cur' = start'
    /\ pc' = "joint"
    /\ UNCHANGED <<callVars, timeUp, phaseUp, total, top, misses, until, count,
                   halvings, baseline, bestVars, entry>>

------------------------------------------------------------------------------
(* Joint PDHG.                                                             *)

Continuing == pc = "joint" /\ ~reached /\ total < IterationLimit /\ ~timeUp

\* The test has no choice in the first block of a fresh continuation, nor
\* against an infinite baseline.
MustRestart(known, comparable, n) ==
    n = Freq \/ (comparable /\ known = "none")

DEV_FullBlockEnds(block) == block <= Freq

PartialBlockEnds(block) == block < Freq

JointBlock ==
    LET block == Block(IterationLimit - total)
        known == IF baseline = "due" THEN "measured" ELSE baseline
    IN  /\ Continuing
        /\ total' = total + block
        /\ cur' \in Point
        /\ Retain(cur', Improves(Reads(cur'), bestM) \/ Meets(Reads(cur')))
        /\ IF Meets(Reads(cur')) \/ PartialBlockEnds(block)
           THEN pc' = "leave" /\ baseline' = known /\ UNCHANGED start
           ELSE \E restart \in BOOLEAN :
                  \* the fixed-point error is as finite as the iterate
                  /\ MustRestart(known, IsFinite(Reads(cur')), total') => restart
                  /\ pc' = "joint"
                  /\ baseline' = IF restart THEN "due" ELSE known
                  /\ start' = IF restart THEN cur' ELSE start
        /\ UNCHANGED <<callVars, timeUp, phaseUp, top, misses, until, count,
                       halvings, reached, entry>>

\* Write the retained point back and account for the work.
Leave ==
    /\ pc = "leave" \/ (pc = "joint" /\ ~Continuing)
    /\ used' = used + total
    /\ result' = IF changed THEN best ELSE result
    /\ pc' = After
    /\ phaseUp' = FALSE /\ total' = 0
    /\ start' = Nowhere /\ cur' = Nowhere /\ top' = Nowhere.x
    /\ misses' = 0 /\ until' = 0 /\ count' = 0 /\ halvings' = 0 /\ baseline' = "none"
    /\ best' = Nowhere /\ bestM' = NonFinite /\ changed' = FALSE /\ reached' = FALSE
    /\ UNCHANGED <<model, reported, timeUp, entry>>

------------------------------------------------------------------------------
AuditMerit(p) == Larger(Kkt(Reads(p)), BoundViolation[p.x])
AuditFeas(p) == Larger(Feas(Reads(p)), BoundViolation[p.x])

\* Postsolve replays the reduced point with exact and with projected reduced
\* costs; differences below the optimality tolerance go by feasibility.
PrefersProjection(exact, projection) ==
    /\ IsFinite(Reads(projection))
    /\ \/ ~IsFinite(Reads(exact))
       \/ IF Apart(AuditMerit(exact), AuditMerit(projection)) <= OptTol
          THEN AuditFeas(projection) < AuditFeas(exact)
          ELSE AuditMerit(projection) < AuditMerit(exact)

ApplyPostsolve ==
    /\ pc = "postsolve"
    /\ \E p, q \in Point :
         LET exact == Refined(p)  projection == Refined(q)
         IN  result' = IF PrefersProjection(exact, projection)
                       THEN projection ELSE exact
    /\ reported' = Reads(result')
    /\ model' = "original" /\ entry' = NonFinite
    /\ pc' = "audit"
    /\ UNCHANGED <<used, timeUp, phaseUp, total, searchVars, bestVars>>

\* Time passes inside a continuation; each phase has a share of its budget.
ClockAdvances ==
    /\ pc \in {"neutral", "choose", "certificate", "joint"}
    /\ phaseUp' = TRUE
    /\ timeUp' \in {timeUp, TRUE}
    /\ UNCHANGED <<pc, callVars, total, searchVars, bestVars, entry>>

Returned == pc = "returned" /\ UNCHANGED vars

Step ==
    \/ Audit \/ ApplyPostsolve \/ Skip \/ Refuse \/ Begin
    \/ NeutralIteration \/ EndNeutral
    \/ SkipCertificate \/ BeginCertificate \/ CertificateBlock \/ HandOff
    \/ JointBlock \/ Leave

Next == Step \/ ClockAdvances \/ Returned

Spec == Init /\ [][Next]_vars

\* One thread runs the continuation; the clock owes nothing.
FairSpec == Spec /\ WF_vars(Step)

------------------------------------------------------------------------------
PCs == {"polish", "neutral", "neutralEnd", "choose", "certificate", "handoff",
        "joint", "leave", "postsolve", "audit", "reaudit", "returned"}

InPhase == pc \in {"neutral", "neutralEnd", "choose", "certificate", "handoff",
                   "joint", "leave"}

(***************************************************************************)
(* Types, with the bounds the counters keep.                               *)
(***************************************************************************)
HpTypeOK ==
    /\ pc \in PCs /\ model \in {"working", "original"}
    /\ result \in Point /\ reported \in Reading /\ used \in Nat
    /\ timeUp \in BOOLEAN /\ phaseUp \in BOOLEAN /\ total \in Nat
    /\ start \in Point /\ cur \in Point /\ top \in Primals
    /\ misses \in 0 .. MaxMisses /\ until \in Nat /\ count \in Nat
    /\ halvings \in 0 .. MaxHalvings + 1
    /\ baseline \in {"none", "due", "measured"}
    /\ best \in Point /\ bestM \in Reading
    /\ changed \in BOOLEAN /\ reached \in BOOLEAN /\ entry \in Reading

(***************************************************************************)
(* Both continuations of a presolved solve together stay within the one    *)
(* configured iteration limit, in every phase (lines 141-146).             *)
(***************************************************************************)
SharedBudget == used + (IF InPhase THEN total ELSE 0) <= Limit

(***************************************************************************)
(* The metrics that decide every later comparison are those of the vectors *)
(* that would be written back, although three phases install them.         *)
(***************************************************************************)
IncumbentMeasured == InPhase => bestM = Reads(best)

(***************************************************************************)
(* The dual certificate never spends more than half of what was left when  *)
(* it began, so joint PDHG can still move x (lines 1125-1134); only a last *)
(* single iteration goes to it whole.                                      *)
(***************************************************************************)
JointReserved ==
    /\ pc \in {"certificate", "handoff"}
    /\ count + (IterationLimit - total) >= 2
    => count <= IterationLimit - total

(***************************************************************************)
(* The certificate search holds the x of the retained point, also after    *)
(* the objective-neutral phase kept a checkpoint of its own; only while    *)
(* every KKT error is saturated can the two differ (lines 856-886).        *)
(***************************************************************************)
HeldPrimalIsIncumbent ==
    /\ pc \in {"certificate", "handoff"}
    /\ Kkt(bestM) < SatFloor
    => start.x = best.x

(***************************************************************************)
(* What a continuation retains is no worse than what it first measured,    *)
(* unless it meets every target or began with a saturated KKT error.       *)
(***************************************************************************)
NoWorse(m, e) == Kkt(m) <= Kkt(e) \/ Meets(m) \/ Kkt(e) >= SatFloor

RetainedNoWorse ==
    InPhase /\ IsFinite(entry) => IsFinite(bestM) /\ NoWorse(bestM, entry)

(***************************************************************************)
(* The result's residuals describe the vectors returned with them, after   *)
(* repairs, refinements and continuations rewrote those; and a presolved   *)
(* solve returns no worse than its last continuation measured at first.    *)
(* (Refined compares dual residual and gap on one scale: it could trade a  *)
(* met gap for a dual residual, were the gap's tolerance the tighter one.) *)
(***************************************************************************)
ReportedDescribesResult ==
    pc = "returned" =>
        /\ reported = Reads(result)
        /\ IsFinite(entry) /\ FeasTol <= OptTol => NoWorse(reported, entry)

(***************************************************************************)
(* A continuation that was admitted gives up only when it met its target   *)
(* or spent its iterations or its time, whichever phases it went through.  *)
(***************************************************************************)
GivesUpOnlySpent ==
    [][Leave => Meets(bestM) \/ total = IterationLimit \/ timeUp]_vars

(***************************************************************************)
(* Extraction returns a result, whatever the phases find.                  *)
(***************************************************************************)
ExtractionReturns == <>(pc = "returned")
==============================================================================
