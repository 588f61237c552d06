----------------------------- MODULE FeasPolish ------------------------------
(***************************************************************************)
(* finish_solve with feasibility polishing: the best checkpoint comes back *)
(* after a limit, then a primal and a dual phase each solve a surrogate of *)
(* the problem (no objective; all finite bounds zero) in the solver's own  *)
(* state, put everything back, and search the segment from the working     *)
(* point to what they found for a lower KKT merit of the real problem.     *)
(* The forced float64 feedback runs before and after.                      *)
(*                                                                         *)
(* A dual vector stands for (y, dual_slack).  Readings are componentwise,  *)
(* since a component that is not a number makes every comparison false and *)
(* std::max skips it unless it comes first; components are finite          *)
(* otherwise.  saved leaves out the readings stored with the best iterate, *)
(* which nothing reads after the loop.  Definitions named DEV_... are      *)
(* deviations a bug would introduce; nothing uses them.                    *)
(***************************************************************************)
EXTENDS Metrics, Sequences

CONSTANTS
    Primals, Duals,     \* vectors of the reduced, scaled problem
    ZeroX, ZeroD,       \* the surrogates' starting vectors
    NaN,                \* a component of a reading that is not a number
    Device, Audited,    \* [x][d]: device reading and float64 audit of a pair
    XPath, DPath,       \* [a][b]: the 64 convex combinations from a to b
    NoPoint,            \* nothing retained
    One,                \* a relative measurement of 1.0
    PolishTol,          \* eps_feas_polish_relative
    HostGate,           \* max(1e-2, 100 eps_feasible_relative)
    IterLimit,          \* iteration_limit
    Freq,               \* termination_evaluation_frequency
    Configs             \* the parameter settings a solve may have

Component == Nat \cup {NaN}
Parts == [primal : Component, dual : Component, gap : Component]
Point == [x : Primals, d : Duals]

ASSUME FeasPolishAssumption ==
    /\ NaN \notin Nat
    /\ ZeroX \in Primals /\ ZeroD \in Duals
    /\ NoPoint \notin Point
    /\ Device \in [Primals -> [Duals -> Parts]]
    /\ Audited \in [Primals -> [Duals -> Parts]]
    /\ \A a, b \in Primals : XPath[a][b] \in Seq(Primals) /\ XPath[a][b] # <<>>
    /\ \A a, b \in Duals : DPath[a][b] \in Seq(Duals) /\ DPath[a][b] # <<>>
    /\ One \in Nat /\ PolishTol \in Nat /\ HostGate \in Nat /\ IterLimit \in Nat
    /\ Freq \in Nat \ {0}
    /\ Configs \subseteq [polishing : BOOLEAN,  \* feasibility_polishing
                          continue : BOOLEAN,   \* host_double_polishing, usable budget
                          feedback : BOOLEAN]   \* host_double_residual_evaluation on a GPU

\* Row residuals do not depend on the dual, dual residuals not on x.
ASSUME SeparateResiduals ==
    /\ \A x \in Primals, d, e \in Duals : Device[x][d].primal = Device[x][e].primal
    /\ \A x, z \in Primals, d \in Duals : Device[x][d].dual = Device[z][d].dual

VARIABLES
    cfg,
    pc,
    point,      \* x_pdhg, and y_pdhg with dual_slack
    shown,      \* the published relative residuals and gap
    saved,      \* x_best, y_best, dual_slack_best, or NoPoint
    inc,        \* host_double_best_x_ .., or NoPoint
    status,     \* termination_reason
    problem,    \* what obj, var_lb, .. con_ub hold: "whole", "noObjective", "zeroBounds"
    controller, \* whose weights, step sizes and errors are set: "main", "phase"
    total, inner,
    iters,      \* feasibility_iteration
    base,       \* baseline_x, .. and main_total_count, .. of the running phase
    polished,   \* polished_x, or polished_y with polished_dual_slack
    bestRes,    \* best_primal_residual, best_dual_residual
    doRestart,
    expired,    \* elapsed >= time_sec_limit
    entry       \* history: the state in which polishing began

iterate == <<point, shown, saved, inc>>
counters == <<total, inner>>
phase == <<base, polished, bestRes, doRestart>>
vars == <<cfg, pc, iterate, status, problem, controller, counters, iters, phase,
          expired, entry>>

\* Termination reasons as far as finish_solve tells them apart: LIMIT for the
\* time and iteration limit and NUMERICAL_ERROR, OTHER for rays and handoff.
Statuses == {"OPTIMAL", "LIMIT", "OTHER"}

------------------------------------------------------------------------------
(* Comparing readings.                                                     *)

Below(a, b) == a # NaN /\ b # NaN /\ a < b
AtMost(a, b) == a # NaN /\ b # NaN /\ a <= b

Whole(m) == NaN \notin {m.primal, m.dual, m.gap}

\* std::max({primal, dual, gap}): a first NaN stays, a later one is skipped.
StdMax(a, b) == IF Below(a, b) THEN b ELSE a
DEV_FeasibilityMerit(m) == StdMax(m.primal, m.dual)

CodeMerit(m) == StdMax(StdMax(m.primal, m.dual), m.gap)

Passes(m) == Whole(m) /\ PassesTolerances(m)

DeviceReading(p) == Device[p.x][p.d]
AuditReading(p) == Audited[p.x][p.d]

\* mlx_host_double_feedback(true, true).
ImprovesAudit(p) ==
    /\ Whole(AuditReading(p))
    /\ inc = NoPoint \/ BetterAudit(AuditReading(p), AuditReading(inc))

\* prefer_best
Preferred(p) == IF ImprovesAudit(p) \/ inc = NoPoint THEN p ELSE inc

Feedback(p) ==
    /\ point' = IF cfg.feedback THEN Preferred(p) ELSE p
    /\ shown' = IF cfg.feedback THEN AuditReading(point') ELSE DeviceReading(p)
    /\ inc' = IF cfg.feedback /\ ImprovesAudit(p) THEN p ELSE inc

------------------------------------------------------------------------------
Idle == [at |-> NoPoint, merit |-> NaN, total |-> 0, inner |-> 0, status |-> "OPTIMAL"]

\* What the loop leaves behind.  Whatever was published as finite was offered
\* to the safeguard; an OPTIMAL status was measured, and with feedback
\* audited, at the point in place.
Init ==
    /\ cfg \in Configs /\ pc = "finish"
    /\ point \in Point
    /\ shown \in {DeviceReading(point)}
                   \cup (IF cfg.feedback THEN {AuditReading(point)} ELSE {})
    /\ saved \in Point \cup {NoPoint}
    /\ IF saved = NoPoint THEN ~Whole(shown)
       ELSE Whole(DeviceReading(saved)) \/ (cfg.feedback /\ Whole(AuditReading(saved)))
    /\ inc \in {NoPoint} \cup (IF cfg.feedback THEN Point ELSE {})
    /\ inc # NoPoint => Whole(AuditReading(inc))
    /\ status \in Statuses
    /\ status = "OPTIMAL" =>
         /\ Passes(shown)
         /\ cfg.feedback => shown = AuditReading(point) /\ ~ImprovesAudit(point)
    /\ problem = "whole" /\ controller = "main"
    /\ total = Freq /\ inner = Freq /\ iters = 0
    /\ base = Idle /\ polished = NoPoint /\ bestRes = NaN /\ doRestart = FALSE
    /\ expired \in BOOLEAN /\ entry = NoPoint

\* finish_solve up to the phases.
Finish ==
    /\ pc = "finish"
    /\ Feedback(IF status = "LIMIT" /\ saved # NoPoint THEN saved ELSE point)
    /\ entry' = [merit |-> CodeMerit(shown'), inc |-> inc', total |-> total, inner |-> inner,
                  status |-> status]
    /\ pc' = "primal"
    /\ UNCHANGED <<cfg, saved, status, problem, controller, counters, iters, phase, expired>>

------------------------------------------------------------------------------
(* What the two phases share.                                              *)

\* host_can_continue: leave the repair to the float64 continuation.
Deferred ==
    /\ cfg.continue /\ Whole(shown)
    /\ shown.primal <= HostGate /\ shown.dual <= One

Refused(residual) == ~cfg.polishing \/ AtMost(residual, PolishTol) \/ Deferred \/ expired

Start(surrogate, p, found, residual) ==
    /\ problem' = surrogate /\ controller' = "phase"
    /\ base' = [at |-> point, merit |-> CodeMerit(shown), total |-> total,
                inner |-> inner, status |-> status]
    /\ point' = p /\ polished' = found /\ bestRes' = residual
    /\ total' = 0 /\ inner' = 0 /\ doRestart' = FALSE

DEV_SinceRestart == inner < IterLimit /\ ~expired

BlockDue == total < IterLimit /\ ~expired

\* The bookkeeping after a block that left residual r at the vector v; the
\* reduction tests on the fixed-point error are left open.
AfterBlock(v, r) ==
    /\ total' = total + Freq
    /\ bestRes' = IF Below(r, bestRes) THEN r ELSE bestRes
    /\ polished' = IF Below(r, bestRes) THEN v ELSE polished
    /\ IF AtMost(bestRes', PolishTol)
       THEN inner' = inner + Freq /\ doRestart' = FALSE
       ELSE \E reduced \in BOOLEAN :
              /\ doRestart' = (\/ total' = Freq \/ reduced
                               \/ 100 * (inner + Freq) >= 36 * total')
              /\ inner' = IF doRestart' THEN 0 ELSE inner + Freq

\* The first of the points with the least merit below the phase's baseline.
Improving(trials) ==
    {i \in DOMAIN trials :
        /\ Below(CodeMerit(DeviceReading(trials[i])), base.merit)
        /\ \A j \in DOMAIN trials :
             /\ ~Below(CodeMerit(DeviceReading(trials[j])), CodeMerit(DeviceReading(trials[i])))
             /\ j < i => CodeMerit(DeviceReading(trials[j])) # CodeMerit(DeviceReading(trials[i]))}

DEV_Endpoint(trials) == trials[Len(trials)]

BestTrial(trials) ==
    IF Improving(trials) = {} THEN base.at
    ELSE trials[CHOOSE i \in Improving(trials) : TRUE]

DEV_ControllerOnly == controller' = "main" /\ UNCHANGED problem

RestoreProblem == controller' = "main" /\ problem' = "whole"

\* The end of a phase: everything back, then accept or reject.
Conclude(trials) ==
    /\ RestoreProblem
    /\ total' = base.total /\ inner' = base.inner /\ iters' = iters + total
    /\ point' = BestTrial(trials) /\ shown' = DeviceReading(point')
    /\ LET accepted == Improving(trials) # {}
       IN  /\ saved' = IF accepted THEN point' ELSE saved
           /\ status' = IF accepted /\ Passes(shown') THEN "OPTIMAL" ELSE base.status
    /\ base' = Idle /\ polished' = NoPoint /\ bestRes' = NaN /\ doRestart' = FALSE

------------------------------------------------------------------------------
(* mlx_primal_feasibility_polish                                           *)

SkipPrimal ==
    /\ pc = "primal" /\ Refused(shown.primal) /\ pc' = "dual"
    /\ UNCHANGED <<cfg, iterate, status, problem, controller, counters, iters, phase,
                   expired, entry>>

StartPrimal ==
    /\ pc = "primal" /\ ~Refused(shown.primal)
    /\ Start("noObjective", [point EXCEPT !.d = ZeroD], point.x, shown.primal)
    /\ pc' = "primalLoop"
    /\ UNCHANGED <<cfg, shown, saved, inc, status, iters, expired, entry>>

\* Only the row residual of the trial is published.
PrimalBlock ==
    /\ pc = "primalLoop" /\ BlockDue
    /\ point' \in Point
    /\ shown' = [shown EXCEPT !.primal = Device[point'.x][base.at.d].primal]
    /\ AfterBlock(point'.x, shown'.primal)
    /\ pc' = IF AtMost(bestRes', PolishTol) THEN "primalBlend" ELSE "primalLoop"
    /\ UNCHANGED <<cfg, saved, inc, status, problem, controller, iters, base,
                   expired, entry>>

LeavePrimal ==
    /\ pc = "primalLoop" /\ ~BlockDue /\ pc' = "primalBlend"
    /\ UNCHANGED <<cfg, iterate, status, problem, controller, counters, iters, phase,
                   expired, entry>>

PrimalTrials ==
    LET path == XPath[base.at.x][polished]
    IN  [i \in DOMAIN path |-> [base.at EXCEPT !.x = path[i]]]

BlendPrimal ==
    /\ pc = "primalBlend" /\ Conclude(PrimalTrials) /\ pc' = "dual"
    /\ UNCHANGED <<cfg, inc, expired, entry>>

------------------------------------------------------------------------------
(* mlx_dual_feasibility_polish                                             *)

SkipDual ==
    /\ pc = "dual" /\ Refused(shown.dual) /\ pc' = "audit"
    /\ UNCHANGED <<cfg, iterate, status, problem, controller, counters, iters, phase,
                   expired, entry>>

StartDual ==
    /\ pc = "dual" /\ ~Refused(shown.dual)
    /\ Start("zeroBounds", [point EXCEPT !.x = ZeroX], point.d, shown.dual)
    /\ pc' = "dualLoop"
    /\ UNCHANGED <<cfg, shown, saved, inc, status, iters, expired, entry>>

DualBlock ==
    /\ pc = "dualLoop" /\ BlockDue
    /\ point' \in Point
    /\ shown' = [shown EXCEPT !.dual = Device[base.at.x][point'.d].dual]
    /\ AfterBlock(point'.d, shown'.dual)
    /\ pc' = IF AtMost(bestRes', PolishTol) THEN "dualBlend" ELSE "dualLoop"
    /\ UNCHANGED <<cfg, saved, inc, status, problem, controller, iters, base,
                   expired, entry>>

LeaveDual ==
    /\ pc = "dualLoop" /\ ~BlockDue /\ pc' = "dualBlend"
    /\ UNCHANGED <<cfg, iterate, status, problem, controller, counters, iters, phase,
                   expired, entry>>

DualTrials ==
    LET path == DPath[base.at.d][polished]
    IN  [i \in DOMAIN path |-> [base.at EXCEPT !.d = path[i]]]

BlendDual ==
    /\ pc = "dualBlend" /\ Conclude(DualTrials) /\ pc' = "audit"
    /\ UNCHANGED <<cfg, inc, expired, entry>>

\* The second mlx_host_double_feedback(true, true) of finish_solve; without
\* feedback the readings stay as the phases left them.
FinalFeedback ==
    /\ pc = "audit" /\ pc' = "done"
    /\ IF cfg.feedback THEN Feedback(point) ELSE UNCHANGED <<point, shown, inc>>
    /\ UNCHANGED <<cfg, saved, status, problem, controller, counters, iters, phase,
                   expired, entry>>

------------------------------------------------------------------------------
Expire ==
    /\ ~expired /\ pc # "done" /\ expired' = TRUE
    /\ UNCHANGED <<cfg, pc, iterate, status, problem, controller, counters, iters, phase,
                   entry>>

Step ==
    \/ Finish
    \/ SkipPrimal \/ StartPrimal \/ PrimalBlock \/ LeavePrimal \/ BlendPrimal
    \/ SkipDual \/ StartDual \/ DualBlock \/ LeaveDual \/ BlendDual
    \/ FinalFeedback

Done == pc = "done" /\ UNCHANGED vars

Next == Step \/ Expire \/ Done

Spec == Init /\ [][Next]_vars

------------------------------------------------------------------------------
Resting == pc \in {"primal", "dual", "audit", "done"}

FpTypeOK ==
    /\ cfg \in Configs
    /\ pc \in {"finish", "primal", "primalLoop", "primalBlend",
               "dual", "dualLoop", "dualBlend", "audit", "done"}
    /\ point \in Point /\ shown \in Parts
    /\ saved \in Point \cup {NoPoint} /\ inc \in Point \cup {NoPoint}
    /\ status \in Statuses
    /\ problem \in {"whole", "noObjective", "zeroBounds"}
    /\ controller \in {"main", "phase"}
    /\ total \in Nat /\ inner \in Nat /\ iters \in Nat
    /\ base \in [at : Point \cup {NoPoint}, merit : Component, total : Nat,
                 inner : Nat, status : Statuses]
    /\ polished \in Primals \cup Duals \cup {NoPoint}
    /\ bestRes \in Component
    /\ {doRestart, expired} \subseteq BOOLEAN
    /\ entry \in [merit : Component, inc : Point \cup {NoPoint}, total : Nat,
                  inner : Nat, status : Statuses] \cup {NoPoint}

(***************************************************************************)
(* A phase borrows the problem, the controller and the counters of the     *)
(* solve and publishes readings of surrogate iterates.  Whenever it is     *)
(* over, the problem is whole, controller and counters are the solve's,    *)
(* and what is published reads the point in place: only after an audit is  *)
(* it the audit.                                                           *)
(***************************************************************************)
RestoredAtRest ==
    Resting =>
        /\ problem = "whole" /\ controller = "main"
        /\ total = entry.total /\ inner = entry.inner
        /\ shown \in {DeviceReading(point)}
                       \cup (IF cfg.feedback THEN {AuditReading(point)} ELSE {})

(***************************************************************************)
(* "Feasibility polishing cannot worsen full KKT merit" (test_solver.cpp): *)
(* after both phases the merit is at most the one polishing began with,    *)
(* although each phase minimises a surrogate residual only and the second  *)
(* starts from what the first accepted.  With feedback the returned point  *)
(* is no worse in the audit than the incumbent of that time, although the  *)
(* phases compare audited with device readings.                            *)
(***************************************************************************)
NeverWorse ==
    /\ Resting /\ ~cfg.feedback => ~Below(entry.merit, CodeMerit(shown))
    /\ pc = "done" /\ cfg.feedback /\ entry.inc # NoPoint =>
         /\ Whole(AuditReading(point))
         /\ ~BetterAudit(AuditReading(entry.inc), AuditReading(point))

\* A segment from a point read without a NaN to a vector whose residual is
\* a number has no NaN in it: a combination of two finite vectors is finite.
SegmentsWhole ==
    /\ \A x, z \in Primals, d \in Duals :
          Whole(Device[x][d]) /\ Device[z][d].primal # NaN =>
             \A i \in DOMAIN XPath[x][z] : Whole(Device[XPath[x][z][i]][d])
    /\ \A x \in Primals, d, e \in Duals :
          Whole(Device[x][d]) /\ Device[x][e].dual # NaN =>
             \A i \in DOMAIN DPath[d][e] : Whole(Device[x][DPath[d][e][i]])

(***************************************************************************)
(* OPTIMAL still describes the point when the phases are done: what a      *)
(* phase accepts where the tolerances were met meets them too ("this       *)
(* safeguard also protects objective quality", solver.cpp).  It holds for  *)
(* equal tolerances.  With feedback a phase may declare OPTIMAL from a     *)
(* device reading that the final audit does not confirm, so there it is    *)
(* said of a status the loop has declared.                                 *)
(***************************************************************************)
OptimalMeetsTolerances ==
    /\ pc = "done" /\ status = "OPTIMAL"
    /\ cfg.feedback => entry.status = "OPTIMAL"
    => Passes(shown)

(***************************************************************************)
(* A phase counts its iterations from zero against the whole               *)
(* iteration_limit and its restarts do not buy it more, so both together   *)
(* overrun twice the limit by less than a block each; and a phase whose    *)
(* baseline residual is not a number, which nothing can improve on, is     *)
(* stopped by nothing else.                                                *)
(***************************************************************************)
PhaseBudget ==
    /\ iters + (IF Resting \/ pc = "finish" THEN 0 ELSE total) < 2 * (IterLimit + Freq)
    /\ pc \in {"primalLoop", "primalBlend", "dualLoop", "dualBlend"} =>
         total < IterLimit + Freq
==============================================================================
