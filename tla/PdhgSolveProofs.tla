--------------------------- MODULE PdhgSolveProofs ---------------------------
(***************************************************************************)
(* The solve loop for every set of instances, tolerances and saturation    *)
(* constants: typing, the safeguard it implements, and the properties of   *)
(* the loop that rest on them.                                             *)
(***************************************************************************)
EXTENDS PdhgSolve, TLAPS

------------------------------------------------------------------------------
(* The comparisons of Metrics, for every floor and tie width.              *)

\* The errors the comparisons use are naturals, so their order is total.
LEMMA KktNat ==
    ASSUME NEW m \in Metric
    PROVE  Kkt(m) \in Nat /\ Feas(m) \in Nat
BY DEF Kkt, Feas, Larger, Metric

\* Against an informative checkpoint (or for an informative reading) no tie
\* is possible: the comparison is the strict order of the KKT error.
LEMMA InformativeIsStrict ==
    ASSUME NEW m \in Metric, NEW b \in Metric,
           Kkt(m) < SatFloor \/ Kkt(b) < SatFloor
    PROVE  BetterCheckpoint(m, b) <=> Kkt(m) < Kkt(b)
<1>1. Kkt(m) \in Nat /\ Kkt(b) \in Nat
  BY KktNat
<1>2. ~Tied(Kkt(m), Kkt(b))
  BY <1>1, MetricsAssumption DEF Tied
<1> QED
  BY <1>2 DEF BetterCheckpoint

\* A tie that replaces stays inside the tie width and gains feasibility.
LEMMA ReplacementIsGain ==
    ASSUME NEW m \in Metric, NEW b \in Metric, BetterCheckpoint(m, b)
    PROVE  \/ Kkt(m) < Kkt(b)
           \/ Feas(m) < Feas(b) /\ Kkt(b) >= SatFloor /\ Kkt(m) <= Kkt(b) + SatTie
<1>1. Kkt(m) \in Nat /\ Kkt(b) \in Nat /\ SatTie \in Nat
  BY KktNat, MetricsAssumption
<1>2. CASE Tied(Kkt(m), Kkt(b))
  BY <1>1, <1>2 DEF BetterCheckpoint, Tied, Apart
<1>3. CASE ~Tied(Kkt(m), Kkt(b))
  BY <1>3 DEF BetterCheckpoint
<1> QED
  BY <1>2, <1>3

\* b is a minimum of S as soon as S holds an informative reading.
Minimises(b, S) ==
    (\E k \in S : Kkt(k) < SatFloor) => \A k \in S : Kkt(b) <= Kkt(k)

\* Offering one more reading keeps the minimum, whether it is the first
\* informative one, a later one, or none was informative so far.
LEMMA MinimumKept ==
    ASSUME NEW S, S \subseteq Metric, NEW b \in S, NEW m \in Metric,
           Minimises(b, S)
    PROVE  Minimises(IF BetterCheckpoint(m, b) THEN m ELSE b, S \cup {m})
<1>1. \A k \in S \cup {m} : Kkt(k) \in Nat
  BY KktNat
<1>2. SatFloor \in Nat
  BY MetricsAssumption
<1>3. CASE \E k \in S : Kkt(k) < SatFloor
  <2>1. \A k \in S : Kkt(b) <= Kkt(k)
    BY <1>3 DEF Minimises
  <2>2. Kkt(b) < SatFloor
    BY <1>1, <1>2, <1>3, <2>1
  <2>3. BetterCheckpoint(m, b) <=> Kkt(m) < Kkt(b)
    BY <2>2, InformativeIsStrict
  <2> QED
    BY <1>1, <2>1, <2>3 DEF Minimises
<1>4. CASE (~ \E k \in S : Kkt(k) < SatFloor) /\ Kkt(m) < SatFloor
  <2>1. \A k \in S : Kkt(m) < Kkt(k)
    BY <1>1, <1>2, <1>4
  <2>2. BetterCheckpoint(m, b)
    BY <1>4, <2>1, InformativeIsStrict
  <2> QED
    BY <1>1, <2>1, <2>2 DEF Minimises
<1>5. CASE (~ \E k \in S : Kkt(k) < SatFloor) /\ ~(Kkt(m) < SatFloor)
  BY <1>5 DEF Minimises
<1> QED
  BY <1>3, <1>4, <1>5

LEMMA Cancel ==
    ASSUME NEW x \in Nat, NEW y \in Nat, NEW z \in Nat \ {0}
    PROVE  x * z < y * z <=> x < y
OBVIOUS

\* An audit that passes the tolerances is only kept out by one that passes too,
\* since below the saturated region the merit orders them.
LEMMA PassingAuditStays ==
    ASSUME OptTol <= SatFloor, NEW m \in Metric, NEW b \in Metric,
           PassesTolerances(m), ~BetterAudit(m, b)
    PROVE  PassesTolerances(b)
<1>1. /\ Feas(m) \in Nat /\ Feas(b) \in Nat /\ m.gap \in Nat /\ b.gap \in Nat
      /\ Feas(m) < FeasTol /\ m.gap < OptTol
  BY KktNat DEF Metric, PassesTolerances
<1>2. FeasTol \in Nat \ {0} /\ OptTol \in Nat \ {0} /\ SatFloor \in Nat
  BY <1>1, MetricsAssumption
<1>3. ~(Merit(m) < Merit(b))
  BY <1>1, <1>2 DEF BetterAudit
<1>4. /\ Feas(m) * OptTol < FeasTol * OptTol
      /\ m.gap * FeasTol < OptTol * FeasTol
  BY <1>1, <1>2, Cancel
<1> DEFINE fm == Feas(m) * OptTol
           gm == m.gap * FeasTol
           fb == Feas(b) * OptTol
           gb == b.gap * FeasTol
           limit == FeasTol * OptTol
<1>5. /\ fm \in Nat /\ gm \in Nat /\ fb \in Nat /\ gb \in Nat /\ limit \in Nat
      /\ OptTol * FeasTol = limit
  BY <1>1, <1>2
<1>6. Merit(m) = Larger(fm, gm) /\ Merit(b) = Larger(fb, gb)
  BY DEF Merit
<1> HIDE DEF fm, gm, fb, gb, limit
<1>7. fm < limit /\ gm < limit
  BY <1>4, <1>5 DEF fm, gm, limit
<1>8. fb < limit /\ gb < limit
  BY <1>3, <1>5, <1>6, <1>7 DEF Larger
<1>9. Feas(b) < FeasTol /\ b.gap < OptTol
  BY <1>1, <1>2, <1>5, <1>8, Cancel DEF fb, gb, limit
<1> QED
  BY <1>9, MetricsAssumption DEF PassesTolerances, IsFinite

------------------------------------------------------------------------------

Bundles == [pdhg : Points, shown : Reading,
            best : Checkpoints \cup {NoPoint}, host : HostIncumbent]

------------------------------------------------------------------------------
(* Typing of the instance and of the helpers that exchange points.         *)

LEMMA InstanceFacts ==
    ASSUME TypeOK
    PROVE  /\ Points \subseteq [dev : Reading, aud : Reading, orig : BOOLEAN]
           /\ NoPoint \notin Points /\ NoPoint \notin Checkpoints
           /\ Freq \in Nat \ {0} /\ IterLimit \in Nat
           /\ \A n \in 0 .. IterLimit : run.stride[n] \in Nat \ {0}
           /\ run.fpErrors \subseteq 0 .. Inf
           /\ Inf \in Nat
<1>1. IsInstance(run)
  BY SolveAssumption DEF TypeOK, Locations
<1> QED
  BY <1>1, SolveAssumption DEF IsInstance, Points, Checkpoints, Freq, IterLimit

LEMMA EvaluateType ==
    ASSUME TypeOK, NEW s \in Bundles
    PROVE  Evaluate(s) \in Bundles
BY InstanceFacts DEF Evaluate, Bundles

LEMMA RestoreBestType ==
    ASSUME NEW s \in Bundles
    PROVE  RestoreBest(s) \in Bundles
BY DEF RestoreBest, Bundles, Checkpoints

LEMMA SaveBestType ==
    ASSUME NEW s \in Bundles
    PROVE  SaveBest(s) \in Bundles
BY DEF SaveBest, Bundles, Checkpoints, Reading, IsFinite

LEMMA FeedbackType ==
    ASSUME TypeOK, NEW s \in Bundles, NEW n \in Nat,
           NEW force \in BOOLEAN, NEW preferBest \in BOOLEAN
    PROVE  Feedback(s, n, force, preferBest) \in Bundles
<1> DEFINE inc == AuditedIncumbent(s)
           ends == IF preferBest /\ inc # NoPoint THEN inc ELSE s.pdhg
<1>1. inc \in Points \cup {NoPoint}
  BY DEF AuditedIncumbent, Bundles, HostIncumbent
<1>2. ends \in Points /\ ends.aud \in Reading
  BY <1>1, InstanceFacts DEF Bundles
<1>3. FeedbackActive(s) \in BOOLEAN
  BY DEF FeedbackActive, Bundles, HostIncumbent
<1>4. [inc |-> inc, active |-> FeedbackActive(s), last |-> n] \in HostIncumbent
  BY <1>1, <1>3 DEF HostIncumbent
<1>5. [s EXCEPT !.pdhg = ends, !.shown = ends.aud,
                !.host = [inc |-> inc, active |-> FeedbackActive(s), last |-> n]]
         \in Bundles
  BY <1>2, <1>4 DEF Bundles
<1> QED
  BY <1>5 DEF Feedback

LEMMA NowType == ASSUME TypeOK PROVE Now \in Bundles
BY DEF TypeOK, Locations, Now, Bundle, Bundles

LEMMA BlockPositive ==
    ASSUME TypeOK, total < IterLimit
    PROVE  /\ NextEvaluation \in Nat \ {0}
           /\ BlockIterations \in Nat \ {0}
           /\ total + BlockIterations <= IterLimit
<1>1. total \in Nat /\ Freq \in Nat \ {0} /\ run.stride[total] \in Nat \ {0} /\ IterLimit \in Nat
  BY InstanceFacts DEF TypeOK, Locations
<1>2. total % Freq \in 0 .. Freq - 1 /\ total % run.stride[total] \in 0 .. run.stride[total] - 1
  BY <1>1
<1>3. NextEvaluation \in Nat \ {0}
  BY <1>1, <1>2 DEF NextEvaluation, Earlier, Smaller, Larger
<1> QED
  BY <1>1, <1>3 DEF BlockIterations, Smaller

------------------------------------------------------------------------------
(* Typing of the state.                                                    *)

\* The instance never changes, and so neither do the sets built from it.
LEMMA SameInstance ==
    ASSUME run' = run
    PROVE  /\ Points' = Points /\ Checkpoints' = Checkpoints
           /\ HostIncumbent' = HostIncumbent /\ Handoffs' = Handoffs
           /\ Freq' = Freq /\ IterLimit' = IterLimit /\ HostFeedback' = HostFeedback
BY DEF Points, Checkpoints, HostIncumbent, Handoffs, Freq, IterLimit, HostFeedback

LEMMA BecomeType ==
    ASSUME NEW s \in Bundles, Become(s)
    PROVE  /\ pdhg' \in Points /\ shown' \in Reading
           /\ best' \in Checkpoints \cup {NoPoint} /\ host' \in HostIncumbent
BY DEF Become, Bundles

LEMMA OfferedType ==
    ASSUME NEW h \in Histories, NEW m \in Reading
    PROVE  Offered(h, m) \in Histories
BY DEF Offered, Histories, IsFinite, Reading

LEMMA HistoryFields ==
    ASSUME NEW h \in Histories
    PROVE  /\ h.baseline \in BOOLEAN /\ h.late \in Nat /\ h.certAt \in Nat
           /\ h.seen \subseteq Metric
           /\ [h EXCEPT !.baseline = FALSE, !.recovered = FALSE] \in Histories
BY DEF Histories

LEMMA HistoryType ==
    ASSUME NEW h \in Histories, NEW b \in BOOLEAN, NEW c \in BOOLEAN, NEW n \in Nat
    PROVE  /\ [h EXCEPT !.baseline = b, !.late = n] \in Histories
           /\ [h EXCEPT !.baseline = b, !.recovered = c, !.recoveredAt = n] \in Histories
           /\ [h EXCEPT !.certAt = n] \in Histories
BY DEF Histories

\* Each step on its own keeps the types.
LEMMA InitializeType == TypeOK /\ InitializeSolve => TypeOK'
<1> SUFFICES ASSUME TypeOK, InitializeSolve PROVE TypeOK'
  OBVIOUS
<1> DEFINE s == Feedback(Evaluate(Now), 0, TRUE, FALSE)
<1>1. s \in Bundles
  BY NowType, EvaluateType, FeedbackType
<1>2. SaveBest(s) \in Bundles /\ Offered(hist, s.shown) \in Histories
  BY <1>1, SaveBestType, OfferedType DEF Bundles, TypeOK, Locations
<1>3. Become(SaveBest(s)) /\ hist' = Offered(hist, s.shown) /\ run' = run
  BY DEF InitializeSolve
<1> HIDE DEF s
<1>4. UNCHANGED <<run, counters, handoff, fpState, cond, full, status, expired, result>>
      /\ pc' = "loop"
  BY DEF InitializeSolve
<1> QED
  BY <1>2, <1>3, <1>4, BecomeType, SameInstance DEF TypeOK, Locations, counters, fpState

LEMMA RunBlockType == TypeOK /\ RunBlock => TypeOK'
<1> SUFFICES ASSUME TypeOK, RunBlock PROVE TypeOK'
  OBVIOUS
<1>1. total < IterLimit /\ run' = run
  BY DEF RunBlock
<1>2. BlockIterations \in Nat
  BY <1>1, BlockPositive
<1>3. total' \in Nat /\ inner' \in Nat
  BY <1>2 DEF RunBlock, TypeOK, Locations
<1>4. hist' \in Histories
  <2>1. (hist.baseline \/ doRestart) \in BOOLEAN
    OBVIOUS
  <2>2. (IF expired THEN hist.late + 1 ELSE hist.late) \in Nat
    BY DEF TypeOK, Locations, Histories
  <2>3. hist' = [hist EXCEPT !.baseline = hist.baseline \/ doRestart,
                             !.late = IF expired THEN hist.late + 1 ELSE hist.late]
    BY DEF RunBlock
  <2> QED
    BY <2>1, <2>2, <2>3, HistoryType DEF TypeOK, Locations
<1>5. PICK p \in Points, e \in run.fpErrors \cup {Invalid},
           base \in run.fpErrors \cup {Invalid} :
         /\ pdhg' = p /\ shown' = p.dev
         /\ fp' = IF e = Invalid THEN Inf ELSE e
         /\ initFp' = IF ~doRestart THEN initFp
                      ELSE IF base = Invalid THEN Inf ELSE base
         /\ invalid' = (invalid \/ e = Invalid \/ base = Invalid)
  BY DEF RunBlock
<1>6. pdhg' \in Points /\ shown' \in Reading
  BY <1>5, InstanceFacts
<1>7. fp' \in Nat /\ initFp' \in Nat /\ invalid' \in BOOLEAN
  BY <1>5, InstanceFacts DEF TypeOK, Locations
<1>8. doRestart' = FALSE /\ pc' = "evaluated"
      /\ UNCHANGED <<run, best, host, handoff, lastFp, hprLast, reductions, cond, full,
                     status, expired, result>>
  BY DEF RunBlock
<1> QED
  BY <1>3, <1>4, <1>6, <1>7, <1>8, SameInstance DEF TypeOK, Locations

LEMMA RecoverType == TypeOK /\ Recover => TypeOK'
<1> SUFFICES ASSUME TypeOK, Recover PROVE TypeOK'
  OBVIOUS
<1> DEFINE s == Feedback(Evaluate(RestoreBest(Now)), total, TRUE, TRUE)
<1>1. s \in Bundles
  BY NowType, RestoreBestType, EvaluateType, FeedbackType DEF TypeOK, Locations
<1>2. Become(s) /\ run' = run
  BY DEF Recover
<1>3. hist' \in Histories
  BY HistoryType DEF Recover, TypeOK, Locations
<1>4. /\ reductions' = reductions + 1 /\ full' = FALSE /\ pc' = "check"
      /\ inner' = 0 /\ doRestart' = TRUE /\ invalid' = FALSE
      /\ fp' = Inf /\ initFp' = Inf /\ lastFp' = Inf /\ hprLast' = Inf
      /\ handoff' = NoPoint
      /\ UNCHANGED <<run, total, cond, status, expired, result>>
  BY DEF Recover, ResetController, Rewind
<1>5. /\ pdhg' \in Points' /\ shown' \in Reading
      /\ best' \in Checkpoints' \cup {NoPoint} /\ host' \in HostIncumbent'
  BY <1>1, <1>2, BecomeType, SameInstance
<1> HIDE DEF s
<1> QED
  <2>1. /\ reductions' \in Nat /\ inner' \in Nat /\ total' \in Nat
        /\ fp' \in Nat /\ initFp' \in Nat /\ lastFp' \in Nat /\ hprLast' \in Nat
    BY <1>4, SolveAssumption DEF TypeOK, Locations
  <2>2. {doRestart', invalid', cond', full', expired'} \subseteq BOOLEAN
    BY <1>4 DEF TypeOK, Locations
  <2>3. /\ run' \in Instances /\ pc' = "check" /\ status' \in Statuses
        /\ result' \in [status : Statuses, orig : BOOLEAN] \cup {NoPoint}
        /\ handoff' = NoPoint
    BY <1>4 DEF TypeOK, Locations
  <2> QED
    BY <1>3, <1>5, <2>1, <2>2, <2>3 DEF TypeOK, Locations

LEMMA AcceptType == TypeOK /\ Accept => TypeOK'
<1> SUFFICES ASSUME TypeOK, Accept PROVE TypeOK'
  OBVIOUS
<1> DEFINE s == Feedback(Now, total, FALSE, FALSE)
<1>1. s \in Bundles
  BY NowType, FeedbackType DEF TypeOK, Locations
<1>2. SaveBest(s) \in Bundles /\ Offered(hist, s.shown) \in Histories
  BY <1>1, SaveBestType, OfferedType DEF Bundles, TypeOK, Locations
<1>3. Become(SaveBest(s)) /\ hist' = Offered(hist, s.shown)
  BY DEF Accept
<1>4. pc' = "check" /\ full' \in BOOLEAN
      /\ UNCHANGED <<run, counters, handoff, fpState, cond, status, expired, result>>
  BY DEF Accept
<1> HIDE DEF s
<1> QED
  BY <1>2, <1>3, <1>4, BecomeType, SameInstance DEF TypeOK, Locations, counters, fpState

LEMMA CheckLimitsType == TypeOK /\ CheckLimits => TypeOK'
<1> SUFFICES ASSUME TypeOK, CheckLimits PROVE TypeOK'
  OBVIOUS
<1>1. Handoff \in Handoffs \cup {NoPoint}
  <2>1. ASSUME HandoffCandidate
        PROVE  [point |-> pdhg, at |-> total, kkt |-> Kkt(shown)] \in Handoffs
    BY <2>1, KktNat DEF HandoffCandidate, TypeOK, Locations, Handoffs, IsFinite, Reading
  <2> QED
    BY <2>1 DEF Handoff, TypeOK, Locations
<1>2. ASSUME Stagnates(Handoff)
      PROVE  Handoff.point \in Points /\ Handoff.point.dev \in Reading
  BY <1>1, <1>2, InstanceFacts DEF Stagnates, Handoffs
<1>3. handoff' = Handoff /\ pdhg' \in Points /\ shown' \in Reading
  BY <1>2 DEF CheckLimits, TypeOK, Locations
<1>4. pc' \in {"finish", "decide", "loop"} /\ status' \in Statuses
  BY DEF CheckLimits, Stop, TypeOK, Locations, Statuses, Limits
<1>5. UNCHANGED <<run, counters, best, host, fpState, cond, full, expired, result, hist>>
  BY DEF CheckLimits
<1> QED
  BY <1>1, <1>3, <1>4, <1>5, SameInstance DEF TypeOK, Locations, counters, fpState

LEMMA DecideType == TypeOK /\ Decide => TypeOK'
<1> SUFFICES ASSUME TypeOK, Decide PROVE TypeOK'
  OBVIOUS
<1>1. cond' \in BOOLEAN
  BY DEF Decide, TypeOK, Locations, WithinTenfold, IsFinite
<1>2. /\ doRestart' \in BOOLEAN /\ inner' \in Nat /\ lastFp' \in Nat
      /\ hprLast' \in Nat /\ hist' \in Histories
  <2>1. inner' \in Nat /\ lastFp' \in Nat /\ hprLast' \in Nat
    BY InstanceFacts DEF Decide, TypeOK, Locations
  <2>2. doRestart' \in BOOLEAN
    BY DEF Decide, TypeOK, Locations
  <2>3. hist' \in Histories
    BY HistoryFields DEF Decide, TypeOK, Locations
  <2> QED
    BY <2>1, <2>2, <2>3
<1>3. pc' = "loop"
      /\ UNCHANGED <<run, total, reductions, iterate, handoff, fp, initFp, invalid, full,
                     status, expired, result>>
  BY DEF Decide
<1> QED
  BY <1>1, <1>2, <1>3, SameInstance DEF TypeOK, Locations, iterate

LEMMA FinishSolveType == TypeOK /\ FinishSolve => TypeOK'
<1> SUFFICES ASSUME TypeOK, FinishSolve PROVE TypeOK'
  OBVIOUS
<1> DEFINE s == IF status \in Limits THEN RestoreBest(Now) ELSE Now
           t == Feedback(Evaluate(s), total, TRUE, TRUE)
           u == Feedback(t, total, TRUE, TRUE)
<1>1. s \in Bundles
  BY NowType, RestoreBestType
<1>2. t \in Bundles
  BY <1>1, EvaluateType, FeedbackType DEF TypeOK, Locations
<1>3. u \in Bundles
  BY <1>2, FeedbackType DEF TypeOK, Locations
<1>4. Become(u) /\ pc' = "extract"
      /\ UNCHANGED <<run, counters, handoff, fpState, cond, full, status, expired,
                     result, hist>>
  BY DEF FinishSolve
<1> HIDE DEF u
<1> QED
  BY <1>3, <1>4, BecomeType, SameInstance DEF TypeOK, Locations, counters, fpState

LEMMA ExtractResultType == TypeOK /\ ExtractResult => TypeOK'
<1> SUFFICES ASSUME TypeOK, ExtractResult PROVE TypeOK'
  OBVIOUS
<1> DEFINE Results == [status : Statuses, orig : BOOLEAN]
<1>1. \A r \in Results : Audit(r) \in Results
  BY DEF Audit, Statuses
<1>2. [status |-> status, orig |-> pdhg.orig] \in Results
  BY InstanceFacts DEF TypeOK, Locations
<1>3. \A r \in Results, polished \in BOOLEAN : [r EXCEPT !.orig = polished] \in Results
  OBVIOUS
<1>4. result' \in Results
  BY <1>1, <1>2, <1>3 DEF ExtractResult
<1>5. pc' = "done"
      /\ UNCHANGED <<run, counters, iterate, handoff, fpState, cond, full, status,
                     expired, hist>>
  BY DEF ExtractResult
<1> QED
  BY <1>4, <1>5, SameInstance DEF TypeOK, Locations, counters, iterate, fpState

\* Steps that only move the program counter, the status or the clock.
LEMMA StatusStepType ==
    TypeOK /\ (LeaveLoop \/ GiveUp \/ CheckOptimal \/ CheckCertificates \/ ClockExpires)
        => TypeOK'
<1> SUFFICES ASSUME TypeOK,
                    LeaveLoop \/ GiveUp \/ CheckOptimal \/ CheckCertificates \/ ClockExpires
             PROVE  TypeOK'
  OBVIOUS
<1>1. UNCHANGED <<run, counters, iterate, handoff, fpState, cond, full, result>>
  BY DEF LeaveLoop, GiveUp, CheckOptimal, CheckCertificates, ClockExpires
<1>2. expired' \in BOOLEAN
  BY DEF LeaveLoop, GiveUp, CheckOptimal, CheckCertificates, ClockExpires, TypeOK, Locations
<1>3. /\ pc' \in {"finish", "limits"} \cup {pc}
      /\ status' \in Statuses
  BY DEF LeaveLoop, GiveUp, CheckOptimal, CheckCertificates, ClockExpires, Stop,
         TypeOK, Statuses, Limits
<1>4. hist' \in Histories
  <2>1. CASE CheckCertificates
    BY <2>1, HistoryType DEF CheckCertificates, TypeOK, Locations, Histories
  <2> QED
    BY <2>1 DEF LeaveLoop, GiveUp, CheckOptimal, ClockExpires, TypeOK, Locations
<1> QED
  BY <1>1, <1>2, <1>3, <1>4, SameInstance DEF TypeOK, Locations, counters, iterate, fpState

LEMMA InitType == Init => TypeOK
<1> SUFFICES ASSUME Init PROVE TypeOK
  OBVIOUS
<1>1. IsInstance(run) /\ Inf \in Nat
  BY SolveAssumption DEF Init
<1>2. pdhg \in Points /\ shown \in Reading
  BY <1>1 DEF Init, IsInstance, Points
<1>3. host \in HostIncumbent /\ hist \in Histories
  BY DEF Init, HostIncumbent, Histories
<1> QED
  BY <1>1, <1>2, <1>3 DEF Init, TypeOK, Locations, Statuses

\* The disjuncts of Next, and what each step may assume.
LEMMA NextType == TypeOK /\ [Next]_vars => TypeOK'
<1>1. TypeOK /\ UNCHANGED vars => TypeOK'
  BY DEF TypeOK, Locations, vars, Points, Checkpoints, HostIncumbent, Handoffs
<1> QED
  BY <1>1, InitializeType, RunBlockType, RecoverType, AcceptType, CheckLimitsType,
     DecideType, FinishSolveType, ExtractResultType, StatusStepType
  DEF Next, Step, Returned

(***************************************************************************)
(* Type correctness of the solve loop for every instance: in particular a  *)
(* retained checkpoint always carries a finite reading, and the controller *)
(* never reads an epoch or a total outside the naturals.                   *)
(***************************************************************************)
THEOREM SolveTypeCorrect == Spec => []TypeOK
BY InitType, NextType, PTL DEF Spec

------------------------------------------------------------------------------
(* The published reading and the two safeguards.                           *)

\* A bundle whose reading is one of its own point's.
Published(s) ==
    \/ s.shown = s.pdhg.dev
    \/ HostFeedback /\ s.shown = s.pdhg.aud

LEMMA EvaluateFrame ==
    ASSUME NEW s \in Bundles
    PROVE  /\ Evaluate(s).pdhg = s.pdhg /\ Evaluate(s).shown = s.pdhg.dev
           /\ Evaluate(s).best = s.best /\ Evaluate(s).host = s.host
BY DEF Evaluate, Bundles

LEMMA RestoreBestFrame ==
    ASSUME NEW s \in Bundles
    PROVE  /\ RestoreBest(s).best = s.best
           /\ s.best # NoPoint => RestoreBest(s).pdhg = s.best.point
BY DEF RestoreBest, Bundles

\* An audit either does nothing or publishes its reading of the point that
\* it leaves in place; it never touches the best-iterate checkpoint.
LEMMA FeedbackFrame ==
    ASSUME TypeOK, NEW s \in Bundles, NEW n \in Nat,
           NEW force \in BOOLEAN, NEW preferBest \in BOOLEAN
    PROVE  LET f == Feedback(s, n, force, preferBest)
           IN  /\ f.best = s.best
               /\ ~HostFeedback => f = s
               /\ f = s \/ (HostFeedback /\ f.shown = f.pdhg.aud)
BY DEF Feedback, Bundles

LEMMA FeedbackPublished ==
    ASSUME TypeOK, NEW s \in Bundles, NEW n \in Nat, Published(s),
           NEW force \in BOOLEAN, NEW preferBest \in BOOLEAN
    PROVE  Published(Feedback(s, n, force, preferBest))
BY FeedbackFrame DEF Published

LEMMA EvaluatePublished ==
    ASSUME NEW s \in Bundles
    PROVE  Published(Evaluate(s))
BY EvaluateFrame DEF Published

\* Saving changes the checkpoint only, and only for a finite reading.
LEMMA SaveBestFrame ==
    ASSUME NEW s \in Bundles
    PROVE  LET r == SaveBest(s)
           IN  /\ r.pdhg = s.pdhg /\ r.shown = s.shown /\ r.host = s.host
               /\ ~IsFinite(s.shown) => r.best = s.best
               /\ IsFinite(s.shown) =>
                    r.best = IF s.best = NoPoint \/ BetterCheckpoint(s.shown, s.best.metric)
                             THEN [point |-> s.pdhg, metric |-> s.shown]
                             ELSE s.best
BY DEF SaveBest, Bundles

PublishedNow == shown = pdhg.dev \/ (HostFeedback /\ shown = pdhg.aud)

LEMMA BecomePublished ==
    ASSUME NEW s \in Bundles, Published(s), Become(s), run' = run
    PROVE  PublishedNow'
BY DEF Become, Published, PublishedNow, HostFeedback

LEMMA NowPublished ==
    ASSUME PublishedNow
    PROVE  Published(Now)
BY DEF PublishedNow, Published, Now, Bundle

\* The bundle an accepted evaluation saves: the start point's, or a block's.
LEMMA OfferedBundle ==
    ASSUME TypeOK, PublishedNow
    PROVE  /\ LET s == Feedback(Evaluate(Now), 0, TRUE, FALSE)
              IN  s \in Bundles /\ Published(s) /\ s.best = best
           /\ LET s == Feedback(Now, total, FALSE, FALSE)
              IN  s \in Bundles /\ Published(s) /\ s.best = best
<1>1. Now \in Bundles /\ Published(Now) /\ Now.best = best /\ total \in Nat
  BY NowType, NowPublished DEF Now, Bundle, TypeOK, Locations
<1>2. Evaluate(Now) \in Bundles /\ Published(Evaluate(Now)) /\ Evaluate(Now).best = best
  BY <1>1, EvaluateType, EvaluatePublished, EvaluateFrame
<1>3. ASSUME NEW s \in Bundles, NEW n \in Nat, NEW force \in BOOLEAN, Published(s), s.best = best
      PROVE  /\ Feedback(s, n, force, FALSE) \in Bundles
             /\ Published(Feedback(s, n, force, FALSE))
             /\ Feedback(s, n, force, FALSE).best = best
  BY <1>3, FeedbackType, FeedbackPublished, FeedbackFrame
<1>4. 0 \in Nat /\ TRUE \in BOOLEAN /\ FALSE \in BOOLEAN
  OBVIOUS
<1> QED
  BY ONLY <1>1, <1>2, <1>3, <1>4

LEMMA SavePublished ==
    ASSUME NEW s \in Bundles, Published(s), Become(SaveBest(s)), run' = run
    PROVE  PublishedNow'
<1>1. SaveBest(s) \in Bundles /\ Published(SaveBest(s))
  BY SaveBestType, SaveBestFrame DEF Published
<1> QED
  BY <1>1, BecomePublished

\* The bundle a recovery ends with.
LEMMA RecoveredBundle ==
    ASSUME TypeOK
    PROVE  LET s == Feedback(Evaluate(RestoreBest(Now)), total, TRUE, TRUE)
           IN  s \in Bundles /\ Published(s) /\ s.best = best
<1>1. Now \in Bundles /\ Now.best = best /\ total \in Nat
  BY NowType DEF Now, Bundle, TypeOK, Locations
<1>2. RestoreBest(Now) \in Bundles /\ RestoreBest(Now).best = best
  BY <1>1, RestoreBestType, RestoreBestFrame
<1>3. LET s == Evaluate(RestoreBest(Now))
      IN  s \in Bundles /\ Published(s) /\ s.best = best
  BY <1>2, EvaluateType, EvaluatePublished, EvaluateFrame
<1> QED
  BY <1>1, <1>3, FeedbackType, FeedbackPublished, FeedbackFrame

\* The bundle finish_solve ends with.  Without float64 feedback a limit
\* publishes the checkpoint's own device reading.
FinishedBundle ==
    LET s == IF status \in Limits THEN RestoreBest(Now) ELSE Now
        t == Feedback(Evaluate(s), total, TRUE, TRUE)
    IN  Feedback(t, total, TRUE, TRUE)

LEMMA FinishedBundleFacts ==
    ASSUME TypeOK
    PROVE  /\ FinishedBundle \in Bundles /\ Published(FinishedBundle)
           /\ FinishedBundle.best = best
           /\ ~HostFeedback /\ status \in Limits /\ best # NoPoint
                => FinishedBundle.shown = best.point.dev
<1> DEFINE s == IF status \in Limits THEN RestoreBest(Now) ELSE Now
           e == Evaluate(s)
           t == Feedback(e, total, TRUE, TRUE)
<1>1. Now \in Bundles /\ Now.best = best /\ total \in Nat
  BY NowType DEF Now, Bundle, TypeOK, Locations
<1>2. /\ s \in Bundles /\ s.best = best
      /\ status \in Limits /\ best # NoPoint => s.pdhg = best.point
  BY <1>1, RestoreBestType, RestoreBestFrame
<1>3. /\ e \in Bundles /\ Published(e) /\ e.best = best
      /\ status \in Limits /\ best # NoPoint => e.shown = best.point.dev
  BY <1>2, EvaluateType, EvaluatePublished, EvaluateFrame
<1>4. t \in Bundles /\ Published(t) /\ t.best = best /\ (~HostFeedback => t = e)
  BY <1>1, <1>3, FeedbackType, FeedbackPublished, FeedbackFrame
<1> HIDE DEF t
<1>5. LET f == Feedback(t, total, TRUE, TRUE)
      IN  f \in Bundles /\ Published(f) /\ f.best = best /\ (~HostFeedback => f = t)
  BY <1>1, <1>4, FeedbackType, FeedbackPublished, FeedbackFrame
<1>6. FinishedBundle = Feedback(t, total, TRUE, TRUE)
  BY DEF FinishedBundle, t
<1> QED
  BY <1>3, <1>4, <1>5, <1>6

LEMMA PublishedStep == TypeOK /\ PublishedNow /\ [Next]_vars => PublishedNow'
<1> SUFFICES ASSUME TypeOK, PublishedNow, [Next]_vars PROVE PublishedNow'
  OBVIOUS
<1>1. CASE InitializeSolve
  BY <1>1, OfferedBundle, SavePublished DEF InitializeSolve
<1>2. CASE RunBlock
  BY <1>2 DEF RunBlock, PublishedNow
<1>3. CASE Recover
  BY <1>3, RecoveredBundle, BecomePublished DEF Recover
<1>4. CASE Accept
  BY <1>4, OfferedBundle, SavePublished DEF Accept
<1>5. CASE CheckLimits
  BY <1>5 DEF CheckLimits, PublishedNow, HostFeedback
<1>6. CASE FinishSolve
  BY <1>6, FinishedBundleFacts, BecomePublished DEF FinishSolve, FinishedBundle
<1>7. CASE UNCHANGED <<run, pdhg, shown>>
  BY <1>7 DEF PublishedNow, HostFeedback
<1> QED
  BY <1>1, <1>2, <1>3, <1>4, <1>5, <1>6, <1>7
  DEF Next, Step, Returned, vars, iterate, LeaveLoop, GiveUp, CheckOptimal,
      CheckCertificates, Decide, ExtractResult, ClockExpires

LEMMA PublishedAlways == Spec => []PublishedNow
<1>1. Init => PublishedNow
  BY DEF Init, PublishedNow
<1> QED
  BY <1>1, PublishedStep, SolveTypeCorrect, PTL DEF Spec

(***************************************************************************)
(* What solve() tests, restarts from and returns is always a reading of    *)
(* the very point it holds, for every instance and every exchange of that  *)
(* point by recovery, handoff, the audited incumbent or finish_solve.      *)
(***************************************************************************)
THEOREM SolvePublishesPoint == Spec => []PublishedDescribesPoint
<1>1. PublishedNow => PublishedDescribesPoint
  BY DEF PublishedNow, PublishedDescribesPoint
<1> QED
  BY <1>1, PublishedAlways, PTL

------------------------------------------------------------------------------
(* The best-iterate safeguard.                                             *)

LEMMA PublishedReading ==
    ASSUME TypeOK, NEW q \in Points, NEW m,
           m = q.dev \/ m = q.aud, IsFinite(m)
    PROVE  m \in Readings /\ m \in Metric
<1>1. run \in Instances
  BY DEF TypeOK, Locations
<1>2. m \in Readings
  BY <1>1 DEF Readings, Points, IsFinite
<1>3. m \in Reading
  BY InstanceFacts
<1> QED
  BY <1>2, <1>3 DEF Reading, IsFinite

\* The safeguard's own step, on the checkpoint with its point: reading m of
\* point q is offered.
OfferPoint(m, q) ==
    /\ hist'.seen = hist.seen \cup {m}
    /\ best' = IF best = NoPoint \/ BetterCheckpoint(m, best.metric)
               THEN [point |-> q, metric |-> m]
               ELSE best

KeepCheckpoint == best' = best /\ hist'.seen = hist.seen

\* An accepted evaluation offers its published reading if it is finite.
LEMMA AcceptedOffers ==
    ASSUME TypeOK, NEW s \in Bundles, Published(s), s.best = best,
           Become(SaveBest(s)), hist' = Offered(hist, s.shown)
    PROVE  \/ KeepCheckpoint
           \/ \E q \in Points, m \in Readings :
                /\ m \in Metric /\ (HostFeedback \/ m = q.dev)
                /\ OfferPoint(m, q)
<1>1. s.pdhg \in Points
  BY DEF Bundles
<1>2. best' = SaveBest(s).best
  BY DEF Become
<1>3. CASE ~IsFinite(s.shown)
  BY <1>2, <1>3, SaveBestFrame DEF Offered, KeepCheckpoint
<1>4. CASE IsFinite(s.shown)
  <2>1. s.shown \in Readings /\ s.shown \in Metric
    BY <1>1, <1>4, PublishedReading DEF Published
  <2>2. HostFeedback \/ s.shown = s.pdhg.dev
    BY DEF Published
  <2>3. hist'.seen = hist.seen \cup {s.shown}
    BY <1>4 DEF Offered, TypeOK, Locations, Histories
  <2>4. OfferPoint(s.shown, s.pdhg)
    BY <1>2, <1>4, <2>3, SaveBestFrame DEF OfferPoint
  <2> QED
    BY <1>1, <2>1, <2>2, <2>4
<1> QED
  BY <1>3, <1>4

\* Every step either leaves the checkpoint alone or offers to it.
LEMMA OfferOrKeep ==
    ASSUME TypeOK, PublishedNow, [Next]_vars
    PROVE  \/ KeepCheckpoint
           \/ \E q \in Points, m \in Readings :
                /\ m \in Metric /\ (HostFeedback \/ m = q.dev)
                /\ OfferPoint(m, q)
<1>1. CASE InitializeSolve
  <2> DEFINE s == Feedback(Evaluate(Now), 0, TRUE, FALSE)
  <2>1. s \in Bundles /\ Published(s) /\ s.best = best
    BY OfferedBundle
  <2>2. Become(SaveBest(s)) /\ hist' = Offered(hist, s.shown)
    BY <1>1 DEF InitializeSolve
  <2> QED
    BY <2>1, <2>2, AcceptedOffers
<1>2. CASE Accept
  <2> DEFINE s == Feedback(Now, total, FALSE, FALSE)
  <2>1. s \in Bundles /\ Published(s) /\ s.best = best
    BY OfferedBundle
  <2>2. Become(SaveBest(s)) /\ hist' = Offered(hist, s.shown)
    BY <1>2 DEF Accept
  <2> QED
    BY <2>1, <2>2, AcceptedOffers
<1>3. CASE Recover
  <2>1. best' = best
    BY <1>3, RecoveredBundle DEF Recover, Become
  <2>2. hist'.seen = hist.seen
    BY <1>3 DEF Recover, TypeOK, Locations, Histories
  <2> QED
    BY <2>1, <2>2 DEF KeepCheckpoint
<1>4. CASE FinishSolve
  <2>1. best' = best
    BY <1>4, FinishedBundleFacts DEF FinishSolve, FinishedBundle, Become
  <2> QED
    BY <1>4, <2>1 DEF FinishSolve, KeepCheckpoint
<1>5. CASE RunBlock \/ CheckCertificates \/ Decide
  <2>1. best' = best
    BY <1>5 DEF RunBlock, CheckCertificates, Decide, iterate
  <2>2. hist'.seen = hist.seen
    BY <1>5 DEF RunBlock, CheckCertificates, Decide, TypeOK, Locations, Histories
  <2> QED
    BY <2>1, <2>2 DEF KeepCheckpoint
<1>6. CASE UNCHANGED <<best, hist>>
  BY <1>6 DEF KeepCheckpoint
<1> QED
  BY <1>1, <1>2, <1>3, <1>4, <1>5, <1>6
  DEF Next, Step, Returned, vars, iterate, LeaveLoop, GiveUp, CheckOptimal,
      CheckLimits, ExtractResult, ClockExpires

\* The safeguard compares readings exactly as the loop does.
LEMMA SameComparisons ==
    /\ Safeguard!Metric = Metric
    /\ \A m, b : Safeguard!BetterCheckpoint(m, b) = BetterCheckpoint(m, b)
    /\ \A m : Safeguard!Kkt(m) = Kkt(m) /\ Safeguard!Feas(m) = Feas(m)
BY DEF Safeguard!Metric, Metric, Safeguard!BetterCheckpoint, BetterCheckpoint,
       Safeguard!Tied, Tied, Safeguard!Apart, Apart, Safeguard!Kkt, Kkt,
       Safeguard!Feas, Feas, Safeguard!Larger, Larger

(***************************************************************************)
(* The solve loop implements the abstract safeguard (module Checkpoint):   *)
(* finite published readings are offered one by one, and nothing else ever *)
(* touches the checkpoint.                                                 *)
(***************************************************************************)
THEOREM SafeguardImplemented == Spec => ImplementsSafeguard
<1>1. Init => Safeguard!CpInit
  BY DEF Init, Safeguard!CpInit
<1>2. TypeOK /\ PublishedNow /\ [Next]_vars => [Safeguard!CpNext]_(Safeguard!cpVars)
  <2> SUFFICES ASSUME TypeOK, PublishedNow, [Next]_vars
               PROVE  [Safeguard!CpNext]_(Safeguard!cpVars)
    OBVIOUS
  <2>1. CASE KeepCheckpoint
    BY <2>1 DEF KeepCheckpoint, Safeguard!cpVars
  <2>2. ASSUME NEW q \in Points, NEW m \in Readings, m \in Metric, OfferPoint(m, q)
        PROVE  Safeguard!CpNext
    <3>1. [point |-> q, metric |-> m] # NoPoint
      BY <2>2, InstanceFacts DEF Checkpoints
    <3>2. best # NoPoint => best.metric # NoPoint
      BY SolveAssumption DEF TypeOK, Locations, Checkpoints
    <3>3. (IF best' = NoPoint THEN NoPoint ELSE best'.metric) =
             IF best = NoPoint \/ BetterCheckpoint(m, best.metric)
             THEN m ELSE best.metric
      BY <2>2, <3>1 DEF OfferPoint
    <3>4. Safeguard!Offer(m)
      BY <2>2, <3>2, <3>3, SameComparisons
      DEF Safeguard!Offer, Safeguard!Replaces, OfferPoint
    <3> QED
      BY <3>4 DEF Safeguard!CpNext
  <2> QED
    BY <2>1, <2>2, OfferOrKeep
<1> QED
  BY <1>1, <1>2, SolveTypeCorrect, PublishedAlways, PTL
  DEF Spec, ImplementsSafeguard, Safeguard!CpSpec

\* The reading of the checkpoint, as the safeguard sees it.
Retained == IF best = NoPoint THEN NoPoint ELSE best.metric

LEMMA SafeguardOffer ==
    ASSUME NEW m, Safeguard!Offer(m)
    PROVE  /\ m \in Metric /\ hist.seen' = hist.seen \cup {m}
           /\ Retained' = IF Retained = NoPoint \/ BetterCheckpoint(m, Retained)
                          THEN m ELSE Retained
BY SameComparisons DEF Safeguard!Offer, Safeguard!Replaces, Retained

(***************************************************************************)
(* The safeguard keeps one of the readings that were offered, and has one  *)
(* as soon as anything was.                                                *)
(***************************************************************************)
RetainedOffered ==
    /\ Retained \in Metric \cup {NoPoint} /\ hist.seen \subseteq Metric
    /\ Retained # NoPoint => Retained \in hist.seen
    /\ hist.seen # {} => Retained # NoPoint

LEMMA RetainedAlways == Safeguard!CpSpec => []RetainedOffered
<1>1. Safeguard!CpInit => RetainedOffered
  BY DEF Safeguard!CpInit, RetainedOffered, Retained
<1>2. RetainedOffered /\ [Safeguard!CpNext]_(Safeguard!cpVars) => RetainedOffered'
  <2> SUFFICES ASSUME RetainedOffered, [Safeguard!CpNext]_(Safeguard!cpVars)
               PROVE  RetainedOffered'
    OBVIOUS
  <2>1. ASSUME NEW m, Safeguard!Offer(m) PROVE RetainedOffered'
    BY <2>1, SafeguardOffer, SolveAssumption DEF RetainedOffered
  <2>2. CASE UNCHANGED Safeguard!cpVars
    BY <2>2 DEF Safeguard!cpVars, RetainedOffered, Retained
  <2> QED
    BY <2>1, <2>2 DEF Safeguard!CpNext
<1> QED
  BY <1>1, <1>2, PTL DEF Safeguard!CpSpec

\* Once informative, the reading retained is a minimum over those offered.
RetainedMinimises == Retained # NoPoint => Minimises(Retained, hist.seen)

(***************************************************************************)
(* Once a reading was informative the checkpoint minimises the KKT error   *)
(* over everything offered, whatever the order of the readings was.        *)
(***************************************************************************)
THEOREM CheckpointMinimum == Spec => []Safeguard!InformativeMinimum
<1>1. Safeguard!CpInit => RetainedMinimises
  BY DEF Safeguard!CpInit, RetainedMinimises, Retained
<1>2. RetainedOffered /\ RetainedMinimises /\ [Safeguard!CpNext]_(Safeguard!cpVars)
         => RetainedMinimises'
  <2> SUFFICES ASSUME RetainedOffered, RetainedMinimises, [Safeguard!CpNext]_(Safeguard!cpVars)
               PROVE  RetainedMinimises'
    OBVIOUS
  <2>1. ASSUME NEW m, Safeguard!Offer(m) PROVE RetainedMinimises'
    <3>1. /\ m \in Metric /\ hist.seen' = hist.seen \cup {m} /\ hist.seen \subseteq Metric
          /\ Retained' = IF Retained = NoPoint \/ BetterCheckpoint(m, Retained)
                         THEN m ELSE Retained
      BY <2>1, SafeguardOffer DEF RetainedOffered
    <3>2. CASE Retained = NoPoint
      <4>1. hist.seen' = {m} /\ Retained' = m /\ Kkt(m) \in Nat
        BY <3>1, <3>2, KktNat DEF RetainedOffered
      <4> QED
        BY <4>1 DEF RetainedMinimises, Minimises
    <3>3. CASE Retained # NoPoint
      <4>1. /\ Retained \in hist.seen /\ Minimises(Retained, hist.seen)
            /\ Retained' = IF BetterCheckpoint(m, Retained) THEN m ELSE Retained
        BY <3>1, <3>3 DEF RetainedOffered, RetainedMinimises
      <4>2. Minimises(Retained', hist.seen')
        BY <3>1, <4>1, MinimumKept
      <4> QED
        BY <4>2 DEF RetainedMinimises, Minimises
    <3> QED
      BY <3>2, <3>3
  <2>2. CASE UNCHANGED Safeguard!cpVars
    BY <2>2 DEF Safeguard!cpVars, RetainedMinimises, Retained, Minimises
  <2> QED
    BY <2>1, <2>2 DEF Safeguard!CpNext
<1>3. RetainedOffered /\ RetainedMinimises => Safeguard!InformativeMinimum
  BY SameComparisons
  DEF RetainedOffered, RetainedMinimises, Minimises, Safeguard!InformativeMinimum, Retained
<1> QED
  BY <1>1, <1>2, <1>3, RetainedAlways, SafeguardImplemented, PTL
  DEF ImplementsSafeguard, Safeguard!CpSpec

(***************************************************************************)
(* No replacement trades both ways, and an informative checkpoint never    *)
(* gets worse.                                                             *)
(***************************************************************************)
THEOREM CheckpointGains == Spec => Safeguard!ReplacementGains
<1> DEFINE Gains == Retained # NoPoint /\ Retained' # Retained =>
         \/ Kkt(Retained') < Kkt(Retained)
         \/ /\ Feas(Retained') < Feas(Retained)
            /\ Kkt(Retained) >= SatFloor
            /\ Kkt(Retained') <= Kkt(Retained) + SatTie
<1>1. RetainedOffered /\ [Safeguard!CpNext]_(Safeguard!cpVars)
         => [Gains]_(Safeguard!cpVars)
  <2> SUFFICES ASSUME RetainedOffered, NEW m, Safeguard!Offer(m),
                      Retained # NoPoint, Retained' # Retained
               PROVE  Gains
    BY DEF Safeguard!CpNext
  <2>1. Retained \in Metric /\ m \in Metric
    BY SafeguardOffer DEF RetainedOffered
  <2>2. BetterCheckpoint(m, Retained) /\ Retained' = m
    BY SafeguardOffer
  <2> QED
    BY <2>1, <2>2, ReplacementIsGain
<1>2. [Gains]_(Safeguard!cpVars) => [Safeguard!Gains]_(Safeguard!cpVars)
  BY SameComparisons DEF Safeguard!Gains, Retained
<1> QED
  BY <1>1, <1>2, RetainedAlways, SafeguardImplemented, PTL
  DEF ImplementsSafeguard, Safeguard!CpSpec, Safeguard!ReplacementGains

------------------------------------------------------------------------------
(* What a limit returns.                                                   *)

\* The checkpoint is one of the offered readings, minimal once informative,
\* and without float64 feedback the device reading of its own point.
CheckpointInv ==
    /\ hist.seen # {} => best # NoPoint
    /\ best # NoPoint =>
         /\ best.metric \in hist.seen
         /\ Minimises(best.metric, hist.seen)
         /\ HostFeedback \/ best.metric = best.point.dev

\* From finish_solve on, a limit shows the checkpoint's reading.
LimitShowsCheckpoint ==
    pc \in {"extract", "done"} /\ status \in Limits /\ ~HostFeedback /\ best # NoPoint
        => shown = best.metric

LEMMA CheckpointStep ==
    ASSUME TypeOK, PublishedNow, CheckpointInv, [Next]_vars
    PROVE  CheckpointInv'
<1>1. HostFeedback' = HostFeedback
  BY DEF Next, Step, Returned, vars, HostFeedback, InitializeSolve, RunBlock, LeaveLoop,
         Recover, GiveUp, Accept, CheckOptimal, CheckCertificates, CheckLimits, Decide,
         FinishSolve, ExtractResult, ClockExpires
<1>2. CASE KeepCheckpoint
  BY <1>1, <1>2 DEF KeepCheckpoint, CheckpointInv
<1>3. ASSUME NEW q \in Points, NEW m \in Readings, m \in Metric,
             HostFeedback \/ m = q.dev, OfferPoint(m, q)
      PROVE  CheckpointInv'
  <2>1. hist.seen \subseteq Metric /\ hist'.seen = hist.seen \cup {m}
    BY <1>3, HistoryFields DEF OfferPoint, TypeOK, Locations
  <2>2. [point |-> q, metric |-> m] # NoPoint
    BY <1>3, InstanceFacts DEF Checkpoints
  <2>3. CASE best = NoPoint
    <3>1. best' = [point |-> q, metric |-> m] /\ hist'.seen = {m}
      BY <1>3, <2>1, <2>3 DEF OfferPoint, CheckpointInv
    <3>2. Minimises(m, {m})
      BY <1>3, KktNat DEF Minimises
    <3> QED
      BY <1>1, <1>3, <2>2, <3>1, <3>2 DEF CheckpointInv
  <2>4. CASE best # NoPoint
    <3> DEFINE b == best.metric
               c == IF BetterCheckpoint(m, b) THEN m ELSE b
    <3>1. b \in hist.seen /\ Minimises(b, hist.seen)
      BY <2>4 DEF CheckpointInv
    <3>2. Minimises(c, hist.seen \cup {m}) /\ c \in hist.seen \cup {m}
      BY <1>3, <2>1, <3>1, MinimumKept
    <3>3. best' = IF BetterCheckpoint(m, b) THEN [point |-> q, metric |-> m] ELSE best
      BY <1>3, <2>4 DEF OfferPoint
    <3>4. best' # NoPoint /\ best'.metric = c
      BY <2>2, <2>4, <3>3
    <3>5. HostFeedback \/ best'.metric = best'.point.dev
      BY <1>3, <2>4, <3>3 DEF CheckpointInv
    <3> QED
      BY <1>1, <2>1, <3>2, <3>4, <3>5 DEF CheckpointInv
  <2> QED
    BY <2>3, <2>4
<1> QED
  BY <1>2, <1>3, OfferOrKeep

LEMMA LimitStep ==
    ASSUME TypeOK, CheckpointInv, LimitShowsCheckpoint, [Next]_vars
    PROVE  LimitShowsCheckpoint'
<1>1. CASE FinishSolve
  <2>1. /\ best' = best /\ HostFeedback' = HostFeedback /\ status' = status
        /\ ~HostFeedback /\ status \in Limits /\ best # NoPoint => shown' = best.point.dev
    BY <1>1, FinishedBundleFacts
    DEF FinishSolve, FinishedBundle, Become, HostFeedback
  <2> QED
    BY <2>1 DEF LimitShowsCheckpoint, CheckpointInv
<1>2. CASE ExtractResult \/ ClockExpires \/ UNCHANGED vars
  <2>1. UNCHANGED <<shown, best, status, run>> /\ (pc' = pc \/ pc = "extract")
    BY <1>2 DEF ExtractResult, ClockExpires, vars, iterate
  <2> QED
    BY <2>1 DEF LimitShowsCheckpoint, HostFeedback
<1>3. CASE InitializeSolve \/ RunBlock \/ LeaveLoop \/ Recover \/ GiveUp \/ Accept
           \/ CheckOptimal \/ CheckCertificates \/ CheckLimits \/ Decide
  <2>1. pc' \notin {"extract", "done"}
    BY <1>3 DEF InitializeSolve, RunBlock, LeaveLoop, Recover, GiveUp, Accept,
                CheckOptimal, CheckCertificates, CheckLimits, Decide, Stop
  <2> QED
    BY <2>1 DEF LimitShowsCheckpoint
<1> QED
  BY <1>1, <1>2, <1>3 DEF Next, Step, Returned

(***************************************************************************)
(* A time, iteration or numerical limit returns the best of everything     *)
(* evaluated once one reading was informative: the promise of the          *)
(* safeguard carried through recovery, the final restore and the final     *)
(* residual evaluation, for every instance without float64 feedback.       *)
(***************************************************************************)
THEOREM LimitReturnsBest == Spec => []LimitReturnsMinimum
<1>1. Init => CheckpointInv /\ LimitShowsCheckpoint
  BY DEF Init, CheckpointInv, LimitShowsCheckpoint
<1>2. CheckpointInv /\ LimitShowsCheckpoint /\ TypeOK => LimitReturnsMinimum
  <2> SUFFICES ASSUME CheckpointInv, LimitShowsCheckpoint, TypeOK,
                      pc \in {"extract", "done"}, status \in Limits, ~HostFeedback,
                      \E m \in hist.seen : Kkt(m) < SatFloor
               PROVE  IsFinite(shown) /\ \A m \in hist.seen : Kkt(shown) <= Kkt(m)
    BY DEF LimitReturnsMinimum
  <2>1. best # NoPoint /\ shown = best.metric
    BY DEF CheckpointInv, LimitShowsCheckpoint
  <2>2. shown \in Metric
    BY <2>1 DEF TypeOK, Locations, Checkpoints
  <2> QED
    BY <2>1, <2>2, MetricsAssumption DEF CheckpointInv, Minimises, IsFinite
<1> QED
  BY <1>1, <1>2, CheckpointStep, LimitStep, SolveTypeCorrect, PublishedAlways, PTL DEF Spec

------------------------------------------------------------------------------
(* The clock and the restart baseline.                                     *)

LateInv ==
    /\ hist.late <= 1
    /\ hist.late > 0 => expired /\ pc \notin {"init", "loop", "decide"}

LEMMA LateStep == TypeOK /\ LateInv /\ [Next]_vars => LateInv'
<1> SUFFICES ASSUME TypeOK, LateInv, [Next]_vars PROVE LateInv'
  OBVIOUS
<1>0. hist.late \in Nat
  BY DEF TypeOK, Locations, Histories
<1>1. CASE RunBlock
  <2>1. hist.late = 0
    BY <1>0, <1>1 DEF RunBlock, LateInv
  <2>2. hist'.late = (IF expired THEN hist.late + 1 ELSE hist.late)
    BY <1>1 DEF RunBlock, TypeOK, Locations, Histories
  <2>3. expired' = expired /\ pc' = "evaluated"
    BY <1>1 DEF RunBlock
  <2> QED
    BY <2>1, <2>2, <2>3 DEF LateInv
<1>2. CASE InitializeSolve \/ Decide
  <2>1. pc \in {"init", "decide"}
    BY <1>2 DEF InitializeSolve, Decide
  <2>2. hist.late = 0
    BY <1>0, <2>1 DEF LateInv
  <2>3. hist'.late = hist.late
    BY <1>2 DEF InitializeSolve, Decide, Offered, TypeOK, Locations, Histories
  <2> QED
    BY <2>2, <2>3 DEF LateInv
<1>3. CASE CheckLimits
  <2>0. total >= IterLimit \/ total < IterLimit
    BY InstanceFacts DEF TypeOK, Locations
  <2>1. expired => pc' = "finish"
    BY <1>3, <2>0 DEF CheckLimits, Stop, OutOfTime
  <2> QED
    BY <1>3, <2>1 DEF CheckLimits, LateInv
<1>4. CASE \/ LeaveLoop \/ Recover \/ GiveUp \/ Accept \/ CheckOptimal
           \/ CheckCertificates \/ FinishSolve \/ ExtractResult
  <2>1. hist'.late = hist.late
    BY <1>4 DEF LeaveLoop, Recover, GiveUp, Accept, CheckOptimal, CheckCertificates,
                FinishSolve, ExtractResult, Offered, TypeOK, Histories
  <2>2. pc' \in {"finish", "check", "limits", "extract", "done"} /\ expired' = expired
    BY <1>4 DEF LeaveLoop, Recover, GiveUp, Accept, CheckOptimal, CheckCertificates,
                FinishSolve, ExtractResult, Stop
  <2> QED
    BY <2>1, <2>2 DEF LateInv
<1>5. CASE ClockExpires \/ UNCHANGED vars
  BY <1>5 DEF ClockExpires, vars, LateInv
<1> QED
  BY <1>1, <1>2, <1>3, <1>4, <1>5 DEF Next, Step, Returned

(***************************************************************************)
(* At most one block starts after the deadline, for every evaluation       *)
(* frequency and every mixture of early evaluations and recoveries.        *)
(***************************************************************************)
THEOREM SolveStopsLate == Spec => []OneLateBlock
<1>1. Init => LateInv
  BY DEF Init, LateInv
<1>2. LateInv => OneLateBlock
  BY DEF LateInv, OneLateBlock
<1> QED
  BY <1>1, <1>2, LateStep, SolveTypeCorrect, PTL DEF Spec

LEMMA Remainders ==
    ASSUME NEW n \in Nat, NEW f \in Nat \ {0}
    PROVE  (n < f => n % f = n) /\ f % f = 0
OBVIOUS

\* A baseline was measured, or is about to be, once the first checkpoint is
\* behind; up to the first checkpoint the initial restart is still to come.
BaselineInv ==
    /\ pc = "init" => total = 0
    /\ pc = "loop" => total < Freq \/ hist.baseline \/ doRestart
    /\ pc = "evaluated" => ~doRestart /\ (total <= Freq \/ hist.baseline)
    /\ pc \in {"check", "limits"} =>
         \/ doRestart /\ ~full
         \/ ~doRestart /\ (total <= Freq \/ hist.baseline) /\ (Regular => full)
    /\ pc = "decide" => ~doRestart /\ (total <= Freq \/ hist.baseline)

LEMMA FirstBlock ==
    ASSUME TypeOK, total < IterLimit, total < Freq
    PROVE  total + BlockIterations <= Freq
<1>1. total \in Nat /\ Freq \in Nat \ {0} /\ IterLimit \in Nat /\ run.stride[total] \in Nat \ {0}
  BY InstanceFacts DEF TypeOK, Locations
<1>2. total % Freq = total
  BY <1>1, Remainders
<1>3. total % run.stride[total] \in 0 .. run.stride[total] - 1
  BY <1>1
<1> QED
  BY <1>1, <1>2, <1>3 DEF BlockIterations, NextEvaluation, Earlier, Smaller, Larger

LEMMA BaselineStep == TypeOK /\ BaselineInv /\ [Next]_vars => BaselineInv'
<1> SUFFICES ASSUME TypeOK, BaselineInv, [Next]_vars PROVE BaselineInv'
  OBVIOUS
<1>0. total \in Nat /\ Freq \in Nat \ {0} /\ (total = Freq => Regular)
  BY InstanceFacts, Remainders DEF TypeOK, Locations, Regular
<1>1. CASE InitializeSolve
  <2>1. UNCHANGED <<total, run>> /\ pc = "init" /\ pc' = "loop"
    BY <1>1 DEF InitializeSolve, counters
  <2> QED
    BY <1>0, <2>1 DEF BaselineInv, Freq
<1>2. CASE RunBlock
  <2>1. hist'.baseline = (hist.baseline \/ doRestart)
    BY <1>2 DEF RunBlock, TypeOK, Locations, Histories
  <2>2. total < Freq => total' <= Freq
    BY <1>2, FirstBlock DEF RunBlock
  <2>3. Freq' = Freq /\ pc = "loop" /\ pc' = "evaluated" /\ doRestart' = FALSE
    BY <1>2 DEF RunBlock, Freq
  <2> QED
    BY <2>1, <2>2, <2>3 DEF BaselineInv
<1>3. CASE Recover
  BY <1>3 DEF Recover, ResetController, Rewind, BaselineInv
<1>4. CASE Accept
  <2>1. hist'.baseline = hist.baseline
    BY <1>4 DEF Accept, Offered, TypeOK, Locations, Histories
  <2>2. UNCHANGED <<total, doRestart, run>> /\ pc = "evaluated" /\ pc' = "check"
        /\ (Regular => full')
    BY <1>4 DEF Accept, counters, fpState
  <2> QED
    BY <2>1, <2>2 DEF BaselineInv, Freq, Regular
<1>5. CASE CheckCertificates
  <2>1. hist'.baseline = hist.baseline
    BY <1>5 DEF CheckCertificates, TypeOK, Locations, Histories
  <2>2. UNCHANGED <<total, doRestart, run, full>> /\ pc = "check"
        /\ pc' \in {"finish", "limits"}
    BY <1>5 DEF CheckCertificates, counters, fpState, Stop
  <2> QED
    BY <2>1, <2>2 DEF BaselineInv, Freq, Regular
<1>6. CASE CheckLimits
  <2>1. /\ UNCHANGED <<total, doRestart, run, full, hist>> /\ pc = "limits"
        /\ pc' \in {"finish"} \cup (IF full THEN {"decide"} ELSE {"loop"})
    BY <1>6 DEF CheckLimits, counters, fpState, Stop
  <2> QED
    BY <1>0, <2>1 DEF BaselineInv, Freq
<1>7. CASE Decide
  <2>1. total = Freq => ShouldRestart
    BY DEF ShouldRestart, PidRestart, HprRestart
  <2>2. \/ doRestart'
        \/ ~ShouldRestart /\ hist' = hist
    BY <1>7 DEF Decide
  <2>3. UNCHANGED <<total, run>> /\ pc = "decide" /\ pc' = "loop"
    BY <1>7 DEF Decide
  <2> QED
    BY <1>0, <2>1, <2>2, <2>3 DEF BaselineInv, Freq
<1>8. CASE LeaveLoop \/ GiveUp \/ CheckOptimal \/ FinishSolve \/ ExtractResult
  <2>1. pc' \in {"finish", "extract", "done"}
    BY <1>8 DEF LeaveLoop, GiveUp, CheckOptimal, FinishSolve, ExtractResult, Stop
  <2> QED
    BY <2>1 DEF BaselineInv
<1>9. CASE ClockExpires \/ UNCHANGED vars
  BY <1>9 DEF ClockExpires, vars, counters, fpState, BaselineInv, Freq, Regular
<1> QED
  BY <1>1, <1>2, <1>3, <1>4, <1>5, <1>6, <1>7, <1>8, <1>9 DEF Next, Step, Returned

(***************************************************************************)
(* No restart test ever uses a stale or unmeasured baseline: where the     *)
(* first block's unconditional restart is skipped because that block broke *)
(* down, the recovery's own pending restart measures it instead.           *)
(***************************************************************************)
THEOREM RestartBaseline == Spec => []BaselineMeasured
<1>1. Init => BaselineInv
  BY DEF Init, BaselineInv
<1>2. TypeOK /\ BaselineInv => BaselineMeasured
  BY InstanceFacts DEF TypeOK, Locations, BaselineInv, BaselineMeasured
<1> QED
  BY <1>1, <1>2, BaselineStep, SolveTypeCorrect, PTL DEF Spec

------------------------------------------------------------------------------
(* How a solve ends.                                                       *)

Running == {"init", "loop", "evaluated", "check", "limits", "decide"}

\* The status stays open while the loop runs, a block ends below the limit or
\* at it, and from the limit no way leads back to the loop.
LimitInv ==
    /\ pc \in Running => status = "UNSPECIFIED"
    /\ pc = "init" => total = 0
    /\ pc \in {"loop", "decide"} /\ IterLimit > 0 => total < IterLimit
    /\ pc = "limits" /\ total >= IterLimit => hist.certAt = total
    /\ IterationLimitAfterCertificates

LEMMA LimitInvStep == TypeOK /\ LimitInv /\ [Next]_vars => LimitInv'
<1> SUFFICES ASSUME TypeOK, LimitInv, [Next]_vars PROVE LimitInv'
  OBVIOUS
<1>0. total \in Nat /\ IterLimit \in Nat
  BY InstanceFacts DEF TypeOK
<1>1. CASE InitializeSolve
  <2>1. UNCHANGED <<run, total, status>> /\ pc = "init" /\ pc' = "loop"
    BY <1>1 DEF InitializeSolve, counters
  <2> QED
    BY <1>0, <2>1 DEF LimitInv, Running, IterationLimitAfterCertificates, IterLimit
<1>2. CASE RunBlock \/ Recover \/ Accept
  <2>1. /\ run' = run /\ status' = status /\ pc \in Running
        /\ pc' \in {"evaluated", "check"}
    BY <1>2 DEF RunBlock, Recover, Accept, Running
  <2> QED
    BY <2>1 DEF LimitInv, Running, IterationLimitAfterCertificates
<1>3. CASE LeaveLoop
  <2>1. UNCHANGED <<run, total>> /\ pc = "loop" /\ pc' = "finish" /\ total >= IterLimit
    BY <1>3 DEF LeaveLoop, counters
  <2> QED
    BY <1>0, <2>1 DEF LimitInv, Running, IterationLimitAfterCertificates, IterLimit
<1>4. CASE GiveUp \/ CheckOptimal
  <2>1. pc' = "finish" /\ status' # "ITERATION_LIMIT"
    BY <1>4 DEF GiveUp, CheckOptimal, Stop
  <2> QED
    BY <2>1 DEF LimitInv, Running, IterationLimitAfterCertificates
<1>5. CASE CheckCertificates
  <2>1. hist'.certAt = IF CertificateDue THEN total ELSE hist.certAt
    BY <1>5 DEF CheckCertificates, TypeOK, Histories
  <2>2. /\ UNCHANGED <<run, total>> /\ pc = "check" /\ pc' \in {"finish", "limits"}
        /\ status' \in {status, "PRIMAL_INFEASIBLE", "DUAL_INFEASIBLE"}
        /\ pc' = "limits" => status' = status
    BY <1>5 DEF CheckCertificates, counters, Stop
  <2>3. total >= IterLimit => hist'.certAt = total
    BY <2>1 DEF CertificateDue
  <2> QED
    BY <2>2, <2>3 DEF LimitInv, Running, IterationLimitAfterCertificates, IterLimit
<1>6. CASE CheckLimits
  <2>1. UNCHANGED <<run, total, hist>> /\ pc = "limits"
    BY <1>6 DEF CheckLimits, counters
  <2>2. \/ pc' \in {"decide", "loop"} /\ status' = status /\ ~(total >= IterLimit)
        \/ pc' = "finish" /\ (status' = "ITERATION_LIMIT" => total >= IterLimit)
    BY <1>0, <1>6 DEF CheckLimits, Stop
  <2> QED
    BY <1>0, <2>1, <2>2 DEF LimitInv, Running, IterationLimitAfterCertificates, IterLimit
<1>7. CASE Decide
  <2>1. UNCHANGED <<run, total, status>> /\ pc = "decide" /\ pc' = "loop"
    BY <1>7 DEF Decide
  <2> QED
    BY <2>1 DEF LimitInv, Running, IterationLimitAfterCertificates, IterLimit
<1>8. CASE FinishSolve \/ ExtractResult
  <2>1. UNCHANGED <<run, total, status, hist>> /\ pc' \in {"extract", "done"}
    BY <1>8 DEF FinishSolve, ExtractResult, counters
  <2> QED
    BY <2>1 DEF LimitInv, Running, IterationLimitAfterCertificates, IterLimit
<1>9. CASE ClockExpires \/ UNCHANGED vars
  <2>1. UNCHANGED <<run, pc, total, status, hist>>
    BY <1>9 DEF ClockExpires, vars, counters
  <2> QED
    BY <2>1 DEF LimitInv, Running, IterationLimitAfterCertificates, IterLimit
<1> QED
  BY <1>1, <1>2, <1>3, <1>4, <1>5, <1>6, <1>7, <1>8, <1>9 DEF Next, Step, Returned

LEMMA LimitInvAlways == Spec => []LimitInv
<1>1. Init => LimitInv
  <2> SUFFICES ASSUME Init PROVE LimitInv
    OBVIOUS
  <2>1. IterLimit \in Nat
    BY InitType, InstanceFacts
  <2> QED
    BY <2>1 DEF Init, LimitInv, Running, IterationLimitAfterCertificates
<1> QED
  BY <1>1, LimitInvStep, SolveTypeCorrect, PTL DEF Spec

(***************************************************************************)
(* For every evaluation frequency, early evaluation, recovery and deadline,*)
(* a solve ends in ITERATION_LIMIT only after the ray certificates were    *)
(* tested at that very iteration.                                          *)
(***************************************************************************)
THEOREM CertificatesBeforeLimit == Spec => []IterationLimitAfterCertificates
<1>1. LimitInv => IterationLimitAfterCertificates
  BY DEF LimitInv
<1> QED
  BY <1>1, LimitInvAlways, PTL

\* The audited incumbent of a bundle has a finite audit.
FiniteIncumbent(s) == s.host.inc # NoPoint => IsFinite(s.host.inc.aud)

LEMMA FeedbackIncumbent ==
    ASSUME TypeOK, NEW s \in Bundles, FiniteIncumbent(s), NEW n \in Nat,
           NEW force \in BOOLEAN, NEW preferBest \in BOOLEAN
    PROVE  LET f == Feedback(s, n, force, preferBest)
           IN  /\ FiniteIncumbent(f)
               /\ HostFeedback /\ (force \/ WithinTenfold(s.shown)) =>
                    f.shown = f.pdhg.aud
               /\ HostFeedback /\ ~force /\ ~WithinTenfold(s.shown) =>
                    f = s \/ f.shown = f.pdhg.aud
               /\ HostFeedback /\ force /\ preferBest =>
                    /\ f.host.inc = AuditedIncumbent(s)
                    /\ f.host.inc # NoPoint => f.pdhg = f.host.inc
                    /\ f.host.inc = NoPoint => f.pdhg = s.pdhg
<1>1. AuditedIncumbent(s) # NoPoint => IsFinite(AuditedIncumbent(s).aud)
  BY DEF AuditedIncumbent, ImprovesAudit, FiniteIncumbent
<1> QED
  BY <1>1 DEF Feedback, FeedbackActive, FiniteIncumbent, Bundles

\* With a forced audit a point that passes is kept or exchanged for another.
LEMMA PassingKept ==
    ASSUME TypeOK, OptTol <= SatFloor, HostFeedback, NEW s \in Bundles, FiniteIncumbent(s),
           PassesTolerances(s.pdhg.aud), NEW n \in Nat
    PROVE  PassesTolerances(Feedback(s, n, TRUE, TRUE).pdhg.aud)
<1> DEFINE f == Feedback(s, n, TRUE, TRUE)
<1>1. /\ f.host.inc = AuditedIncumbent(s)
      /\ f.host.inc # NoPoint => f.pdhg = f.host.inc
      /\ f.host.inc = NoPoint => f.pdhg = s.pdhg
  BY FeedbackIncumbent
<1>2. CASE ImprovesAudit(s)
  <2>1. AuditedIncumbent(s) = s.pdhg
    BY <1>2 DEF AuditedIncumbent
  <2> QED
    BY <1>1, <2>1
<1>3. CASE ~ImprovesAudit(s)
  <2> DEFINE b == s.host.inc
  <2>1. AuditedIncumbent(s) = b
    BY <1>3 DEF AuditedIncumbent
  <2>2. IsFinite(s.pdhg.aud)
    BY DEF PassesTolerances
  <2>3. b # NoPoint /\ ~BetterAudit(s.pdhg.aud, b.aud)
    BY <1>3, <2>2 DEF ImprovesAudit
  <2>4. b \in Points /\ s.pdhg \in Points /\ IsFinite(b.aud)
    BY <2>3 DEF Bundles, HostIncumbent, FiniteIncumbent
  <2>5. b.aud \in Metric /\ s.pdhg.aud \in Metric
    BY <2>2, <2>4, InstanceFacts DEF Reading, IsFinite
  <2>6. PassesTolerances(b.aud)
    BY <2>3, <2>5, PassingAuditStays
  <2> QED
    BY <1>1, <2>1, <2>3, <2>6
<1> QED
  BY <1>2, <1>3

\* What is known of the incumbent, of a reading near the tolerances, and of
\* the readings a solve may end with.
EndInv ==
    /\ host.inc # NoPoint => IsFinite(host.inc.aud)
    /\ HostFeedback /\ pc = "check" => shown = pdhg.aud \/ ~WithinTenfold(shown)
    /\ HostFeedback /\ pc \in {"extract", "done"} /\ host.inc # NoPoint =>
         IsFinite(shown)
    /\ ~HostFeedback =>
         /\ pc \in {"check", "limits", "decide"} => IsFinite(shown)
         /\ pc \in {"finish", "extract", "done"} /\ status \notin Limits =>
              IsFinite(shown)
         /\ handoff # NoPoint => IsFinite(handoff.point.dev)

AuditedOptimal ==
    HostFeedback /\ status = "OPTIMAL" /\ pc \in {"finish", "extract", "done"} =>
        PassesTolerances(pdhg.aud)

LEMMA PassingIsNear ==
    ASSUME TypeOK, PassesTolerances(shown)
    PROVE  WithinTenfold(shown)
<1>1. shown \in Metric
  BY DEF TypeOK, Reading, PassesTolerances, IsFinite
<1>2. Feas(shown) \in Nat /\ shown.gap \in Nat
  BY <1>1, KktNat DEF Metric
<1> QED
  BY <1>2, MetricsAssumption DEF PassesTolerances, WithinTenfold

LEMMA AcceptEnds ==
    ASSUME TypeOK, PublishedNow, EndInv, Accept
    PROVE  EndInv'
<1> DEFINE s == Feedback(Now, total, FALSE, FALSE)
<1>0. /\ Now \in Bundles /\ total \in Nat /\ FiniteIncumbent(Now)
      /\ Now.shown = shown /\ Now.pdhg = pdhg
  BY NowType DEF TypeOK, EndInv, FiniteIncumbent, Now, Bundle
<1>1. /\ s \in Bundles /\ FiniteIncumbent(s) /\ (~HostFeedback => s = Now)
      /\ HostFeedback => s.shown = s.pdhg.aud \/ (s = Now /\ ~WithinTenfold(shown))
  <2>1. FALSE \in BOOLEAN
    OBVIOUS
  <2> QED
    BY <1>0, <2>1, FeedbackType, FeedbackFrame, FeedbackIncumbent
<1>2. Become(SaveBest(s)) /\ pc' = "check" /\ run' = run /\ handoff' = handoff
  BY DEF Accept
<1>3. pdhg' = s.pdhg /\ shown' = s.shown /\ host' = s.host
  BY <1>1, <1>2, SaveBestFrame DEF Become
<1>4. IsFinite(shown)
  BY DEF Accept, NumericallyBad
<1> HIDE DEF s
<1>5. HostFeedback' = HostFeedback
  BY <1>2 DEF HostFeedback
<1> QED
  BY <1>0, <1>1, <1>2, <1>3, <1>4, <1>5 DEF EndInv, FiniteIncumbent

LEMMA RecoverEnds ==
    ASSUME TypeOK, CheckpointInv, EndInv, Recover
    PROVE  EndInv'
<1> DEFINE e == Evaluate(RestoreBest(Now))
           s == Feedback(e, total, TRUE, TRUE)
<1>0. Now \in Bundles /\ total \in Nat /\ FiniteIncumbent(Now) /\ Now.best = best
  BY NowType DEF TypeOK, EndInv, FiniteIncumbent, Now, Bundle
<1>1. best # NoPoint
  BY DEF Recover, CanRecover
<1>2. RestoreBest(Now) \in Bundles /\ RestoreBest(Now).pdhg = best.point
        /\ RestoreBest(Now).host = Now.host
  BY <1>0, <1>1, RestoreBestType, RestoreBestFrame DEF RestoreBest, Bundles
<1>3. e \in Bundles /\ FiniteIncumbent(e) /\ e.shown = best.point.dev
  BY <1>0, <1>2, EvaluateType, EvaluateFrame DEF FiniteIncumbent
<1>4. ~HostFeedback => IsFinite(best.point.dev)
  <2>1. best.metric \in Metric
    BY <1>1 DEF TypeOK, Checkpoints
  <2> QED
    BY <1>1, <2>1, MetricsAssumption DEF CheckpointInv, IsFinite
<1> HIDE DEF e
<1>5. /\ s \in Bundles /\ FiniteIncumbent(s) /\ (~HostFeedback => s = e)
      /\ HostFeedback => s.shown = s.pdhg.aud
  BY <1>0, <1>3, FeedbackType, FeedbackFrame, FeedbackIncumbent
<1>6. Become(s) /\ pc' = "check" /\ run' = run /\ handoff' = NoPoint
  BY DEF Recover, ResetController, Rewind, e
<1> HIDE DEF s
<1>7. HostFeedback' = HostFeedback /\ pdhg' = s.pdhg /\ shown' = s.shown /\ host' = s.host
  BY <1>6 DEF HostFeedback, Become
<1> QED
  BY <1>3, <1>4, <1>5, <1>6, <1>7 DEF EndInv, FiniteIncumbent

\* The bundle finish_solve ends with, as the result of two forced audits.
LEMMA FinishEnds ==
    ASSUME TypeOK, PublishedNow, EndInv, FinishSolve
    PROVE  /\ EndInv'
           /\ OptTol <= SatFloor /\ AuditedOptimal => AuditedOptimal'
<1> DEFINE s == IF status \in Limits THEN RestoreBest(Now) ELSE Now
           e == Evaluate(s)
           t == Feedback(e, total, TRUE, TRUE)
           f == Feedback(t, total, TRUE, TRUE)
<1>0. /\ Now \in Bundles /\ total \in Nat /\ FiniteIncumbent(Now)
      /\ Now.pdhg = pdhg /\ Now.shown = shown
  BY NowType DEF TypeOK, EndInv, FiniteIncumbent, Now, Bundle
<1>1. /\ s \in Bundles /\ FiniteIncumbent(s)
      /\ status \notin Limits => s.pdhg = pdhg
  BY <1>0, RestoreBestType DEF RestoreBest, Bundles, FiniteIncumbent
<1> HIDE DEF s
<1>2. /\ e \in Bundles /\ FiniteIncumbent(e)
      /\ status \notin Limits => e.pdhg = pdhg /\ e.shown = pdhg.dev
  BY <1>1, EvaluateType, EvaluateFrame DEF FiniteIncumbent
<1> HIDE DEF e
<1>3. t \in Bundles /\ FiniteIncumbent(t) /\ (~HostFeedback => t = e)
  BY <1>0, <1>2, FeedbackType, FeedbackFrame, FeedbackIncumbent
<1>4. HostFeedback /\ OptTol <= SatFloor /\ PassesTolerances(e.pdhg.aud)
        => PassesTolerances(t.pdhg.aud)
  BY <1>0, <1>2, PassingKept
<1> HIDE DEF t
<1>5. /\ f \in Bundles /\ FiniteIncumbent(f) /\ (~HostFeedback => f = t)
      /\ HostFeedback => f.shown = f.pdhg.aud
      /\ HostFeedback /\ f.host.inc # NoPoint => f.pdhg = f.host.inc
  BY <1>0, <1>3, FeedbackType, FeedbackFrame, FeedbackIncumbent
<1>6. HostFeedback /\ OptTol <= SatFloor /\ PassesTolerances(t.pdhg.aud)
        => PassesTolerances(f.pdhg.aud)
  BY <1>0, <1>3, PassingKept
<1>7. /\ Become(f) /\ pc = "finish" /\ pc' = "extract"
      /\ UNCHANGED <<run, handoff, status>>
  BY DEF FinishSolve, f, t, e, s
<1> HIDE DEF f
<1>8. HostFeedback' = HostFeedback /\ pdhg' = f.pdhg /\ shown' = f.shown /\ host' = f.host
  BY <1>7 DEF HostFeedback, Become
<1>9. EndInv'
  <2>1. /\ host'.inc # NoPoint => IsFinite(host'.inc.aud)
        /\ HostFeedback /\ host'.inc # NoPoint => IsFinite(shown')
    BY <1>5, <1>8 DEF FiniteIncumbent
  <2>2. ~HostFeedback /\ status \notin Limits => IsFinite(shown')
    BY <1>2, <1>3, <1>5, <1>7, <1>8 DEF EndInv, PublishedNow
  <2> QED
    BY <1>7, <1>8, <2>1, <2>2 DEF EndInv
<1>10. OptTol <= SatFloor /\ AuditedOptimal => AuditedOptimal'
  <2>1. status = "OPTIMAL" => status \notin Limits
    BY DEF Limits
  <2> QED
    BY <1>2, <1>4, <1>6, <1>7, <1>8, <2>1 DEF AuditedOptimal
<1> QED
  BY <1>9, <1>10

LEMMA EndStep ==
    ASSUME TypeOK, PublishedNow, CheckpointInv, EndInv, [Next]_vars
    PROVE  EndInv'
<1>1. CASE InitializeSolve
  <2> DEFINE s == Feedback(Evaluate(Now), 0, TRUE, FALSE)
  <2>1. Now \in Bundles /\ FiniteIncumbent(Now)
    BY NowType DEF EndInv, FiniteIncumbent, Now, Bundle
  <2>2. Evaluate(Now) \in Bundles /\ FiniteIncumbent(Evaluate(Now))
    BY <2>1, EvaluateType, EvaluateFrame DEF FiniteIncumbent
  <2>3. s \in Bundles /\ FiniteIncumbent(s)
    BY <2>2, FeedbackType, FeedbackIncumbent
  <2>4. Become(SaveBest(s)) /\ pc' = "loop" /\ UNCHANGED <<run, handoff>>
    BY <1>1 DEF InitializeSolve
  <2> HIDE DEF s
  <2>5. host' = s.host
    BY <2>3, <2>4, SaveBestFrame DEF Become
  <2> QED
    BY <2>3, <2>4, <2>5 DEF EndInv, FiniteIncumbent, HostFeedback
<1>2. CASE RunBlock
  BY <1>2 DEF RunBlock, EndInv, HostFeedback
<1>3. CASE Recover
  BY <1>3, RecoverEnds
<1>4. CASE Accept
  BY <1>4, AcceptEnds
<1>5. CASE FinishSolve
  BY <1>5, FinishEnds
<1>6. CASE CheckLimits
  <2>1. /\ UNCHANGED <<run, host>> /\ handoff' = Handoff /\ pc = "limits"
        /\ pc' \in {"loop", "decide", "finish"}
    BY <1>6 DEF CheckLimits, Stop
  <2>2. \/ shown' = shown
        \/ Handoff # NoPoint /\ shown' = Handoff.point.dev
    BY <1>6 DEF CheckLimits, Stagnates
  <2>3. ~HostFeedback /\ Handoff # NoPoint => IsFinite(Handoff.point.dev)
    BY DEF Handoff, HandoffCandidate, EndInv, PublishedNow
  <2> QED
    BY <2>1, <2>2, <2>3 DEF EndInv, HostFeedback
<1>7. CASE CheckOptimal \/ CheckCertificates
  <2>1. /\ UNCHANGED <<run, host, handoff, shown>> /\ pc = "check"
        /\ pc' \in {"finish", "limits"}
    BY <1>7 DEF CheckOptimal, CheckCertificates, Stop, iterate
  <2> QED
    BY <2>1 DEF EndInv, HostFeedback
<1>8. CASE LeaveLoop \/ GiveUp
  <2>1. /\ UNCHANGED <<run, host, handoff>> /\ pc' = "finish" /\ status' \in Limits
    BY <1>8 DEF LeaveLoop, GiveUp, iterate, Limits
  <2> QED
    BY <2>1 DEF EndInv, HostFeedback
<1>9. CASE Decide
  <2>1. UNCHANGED <<run, host, handoff>> /\ pc' = "loop"
    BY <1>9 DEF Decide, iterate
  <2> QED
    BY <2>1 DEF EndInv, HostFeedback
<1>10. CASE ExtractResult
  <2>1. UNCHANGED <<run, host, handoff, shown, status>> /\ pc = "extract" /\ pc' = "done"
    BY <1>10 DEF ExtractResult, iterate
  <2> QED
    BY <2>1 DEF EndInv, HostFeedback
<1>11. CASE ClockExpires \/ UNCHANGED vars
  <2>1. UNCHANGED <<run, pc, pdhg, host, handoff, shown, status>>
    BY <1>11 DEF ClockExpires, vars, iterate
  <2> QED
    BY <2>1 DEF EndInv, HostFeedback
<1> QED
  BY <1>1, <1>2, <1>3, <1>4, <1>5, <1>6, <1>7, <1>8, <1>9, <1>10, <1>11
     DEF Next, Step, Returned

LEMMA EndAlways == Spec => []EndInv
<1>1. Init => EndInv /\ CheckpointInv
  BY DEF Init, EndInv, CheckpointInv
<1> QED
  BY <1>1, EndStep, CheckpointStep, SolveTypeCorrect, PublishedAlways, PTL DEF Spec

(***************************************************************************)
(* Once an evaluation was finite (with feedback: an audit), what a solve   *)
(* returns was measured finite, whatever it went through: recoveries, the  *)
(* handoff of an earlier point, exchanged incumbents, a numerical failure. *)
(***************************************************************************)
THEOREM ReturnsFinite == Spec => []NeverReturnsNonFinite
<1>1. Init => CheckpointInv /\ LimitShowsCheckpoint
  BY DEF Init, CheckpointInv, LimitShowsCheckpoint
<1>2. TypeOK /\ CheckpointInv /\ LimitShowsCheckpoint /\ EndInv => NeverReturnsNonFinite
  <2> SUFFICES ASSUME TypeOK, CheckpointInv, LimitShowsCheckpoint, EndInv,
                      pc \in {"extract", "done"}, hist.seen # {},
                      HostFeedback => host.inc # NoPoint
               PROVE  IsFinite(shown)
    BY DEF NeverReturnsNonFinite
  <2>1. CASE HostFeedback \/ status \notin Limits
    BY <2>1 DEF EndInv
  <2>2. CASE ~HostFeedback /\ status \in Limits
    <3>1. best # NoPoint /\ shown = best.metric
      BY <2>2 DEF CheckpointInv, LimitShowsCheckpoint
    <3>2. best.metric \in Metric
      BY <3>1 DEF TypeOK, Checkpoints
    <3> QED
      BY <3>1, <3>2, MetricsAssumption DEF IsFinite
  <2> QED
    BY <2>1, <2>2
<1> QED
  BY <1>1, <1>2, CheckpointStep, LimitStep, EndAlways, SolveTypeCorrect, PublishedAlways,
     PTL DEF Spec

LEMMA AuditedOptimalStep ==
    ASSUME OptTol <= SatFloor, TypeOK, PublishedNow, EndInv, LimitInv, AuditedOptimal,
           [Next]_vars
    PROVE  AuditedOptimal'
<1>1. CASE FinishSolve
  BY <1>1, FinishEnds
<1>2. CASE CheckOptimal
  <2>1. UNCHANGED <<run, pdhg>> /\ pc = "check" /\ PassesTolerances(shown)
    BY <1>2 DEF CheckOptimal, iterate
  <2>2. HostFeedback => shown = pdhg.aud
    BY <2>1, PassingIsNear DEF EndInv
  <2> QED
    BY <2>1, <2>2 DEF AuditedOptimal, HostFeedback
<1>3. CASE \/ InitializeSolve \/ RunBlock \/ Recover \/ Accept \/ Decide
  <2>1. pc' \notin {"finish", "extract", "done"}
    BY <1>3 DEF InitializeSolve, RunBlock, Recover, Accept, Decide
  <2> QED
    BY <2>1 DEF AuditedOptimal
<1>4. CASE LeaveLoop \/ GiveUp \/ CheckCertificates \/ CheckLimits
  <2>1. pc \in Running /\ status # "OPTIMAL"
    BY <1>4 DEF LeaveLoop, GiveUp, CheckCertificates, CheckLimits, Running, LimitInv
  <2>2. status' # "OPTIMAL"
    BY <1>4, <2>1 DEF LeaveLoop, GiveUp, CheckCertificates, CheckLimits, Stop
  <2> QED
    BY <2>2 DEF AuditedOptimal
<1>5. CASE ExtractResult
  <2>1. UNCHANGED <<run, pdhg, status>> /\ pc = "extract"
    BY <1>5 DEF ExtractResult, iterate
  <2> QED
    BY <2>1 DEF AuditedOptimal, HostFeedback
<1>6. CASE ClockExpires \/ UNCHANGED vars
  <2>1. UNCHANGED <<run, pc, pdhg, status>>
    BY <1>6 DEF ClockExpires, vars, iterate
  <2> QED
    BY <2>1 DEF AuditedOptimal, HostFeedback
<1> QED
  BY <1>1, <1>2, <1>3, <1>4, <1>5, <1>6 DEF Next, Step, Returned

(***************************************************************************)
(* With float64 feedback, and an optimality tolerance below the saturated  *)
(* region (1e-4 against 0.99 by default), a point returned under OPTIMAL   *)
(* passes its own audit: a reading near the tolerances is always audited   *)
(* before it is tested, and an incumbent that replaces the point at the    *)
(* end passes too.  Above the floor the incumbent could win on a tie.      *)
(***************************************************************************)
THEOREM OptimalPassesAudit ==
    ASSUME OptTol <= SatFloor
    PROVE  Spec => []OptimalIsAudited
<1>1. Init => AuditedOptimal
  BY DEF Init, AuditedOptimal
<1>2. AuditedOptimal => OptimalIsAudited
  BY DEF AuditedOptimal, OptimalIsAudited
<1>3. TypeOK /\ PublishedNow /\ EndInv /\ LimitInv /\ AuditedOptimal /\ [Next]_vars
        => AuditedOptimal'
  BY AuditedOptimalStep
<1> QED
  BY <1>1, <1>2, <1>3, SolveTypeCorrect, PublishedAlways, EndAlways, LimitInvAlways, PTL
     DEF Spec

------------------------------------------------------------------------------
(* Cadence and controller state.                                           *)

\* Short of a period's end, the count is no multiple of it.
LEMMA WithinPeriod ==
    ASSUME NEW a \in Nat, NEW b \in Nat \ {0}, NEW c \in Nat \ {0}, (a % b) + c < b
    PROVE  (a + c) % b # 0
<1> DEFINE q == a \div b
           r == a % b
<1>1. a = b * q + r /\ q \in Nat /\ r \in 0 .. b - 1
  OBVIOUS
<1>2. a + c = b * q + (r + c) /\ r + c \in 1 .. b - 1
  BY <1>1
<1> HIDE DEF q, r
<1>3. (b * q + (r + c)) % b = r + c
  BY <1>1, <1>2
<1> QED
  BY <1>2, <1>3

LEMMA BlockWithinPeriod ==
    ASSUME TypeOK, total < IterLimit
    PROVE  \A n \in total + 1 .. (total + BlockIterations) - 1 : n % Freq # 0
<1>0. /\ total \in Nat /\ Freq \in Nat \ {0} /\ run.stride[total] \in Nat \ {0}
      /\ IterLimit \in Nat /\ BlockIterations \in Nat \ {0}
  BY InstanceFacts, BlockPositive DEF TypeOK
<1>1. total % Freq \in 0 .. Freq - 1 /\ total % run.stride[total] \in 0 .. run.stride[total] - 1
  BY <1>0
<1>2. BlockIterations <= Freq - (total % Freq)
  BY <1>0, <1>1 DEF BlockIterations, NextEvaluation, Earlier, Smaller, Larger
<1> SUFFICES ASSUME NEW n \in total + 1 .. (total + BlockIterations) - 1
             PROVE  n % Freq # 0
  OBVIOUS
<1>3. n - total \in Nat \ {0} /\ (total % Freq) + (n - total) < Freq
        /\ total + (n - total) = n
  BY <1>0, <1>1, <1>2
<1> QED
  BY <1>0, <1>3, WithinPeriod

\* What a full check, a decision and a controller that has recovered rest on.
CadenceInv ==
    /\ pc \in {"check", "limits"} /\ full =>
         (Regular \/ total >= IterLimit) /\ 5 * fp < Inf
    /\ pc = "decide" => Regular /\ 5 * fp < Inf
    /\ pc = "evaluated" /\ ~invalid => 5 * fp < Inf
    /\ pc \in {"evaluated", "check", "limits", "decide"} => total > 0
    /\ hist.recovered => hprLast = Inf

LEMMA CadenceStep == TypeOK /\ CadenceInv /\ [Next]_vars => CadenceInv'
<1> SUFFICES ASSUME TypeOK, CadenceInv, [Next]_vars PROVE CadenceInv'
  OBVIOUS
<1>0. total \in Nat /\ IterLimit \in Nat
  BY InstanceFacts DEF TypeOK
<1>1. CASE InitializeSolve
  <2>1. pc' = "loop" /\ hprLast' = hprLast /\ hist'.recovered = hist.recovered
    BY <1>1 DEF InitializeSolve, Offered, TypeOK, Histories, fpState
  <2> QED
    BY <2>1 DEF CadenceInv
<1>2. CASE RunBlock
  <2>1. total' \in Nat /\ total' > 0
    BY <1>0, <1>2, BlockPositive DEF RunBlock
  <2>2. hist'.recovered = hist.recovered /\ hprLast' = hprLast /\ pc' = "evaluated"
    BY <1>2 DEF RunBlock, TypeOK, Histories
  <2>3. ~invalid' => fp' \in run.fpErrors
    BY <1>2 DEF RunBlock
  <2>4. \A e \in run.fpErrors : 5 * e < Inf
    BY SolveAssumption DEF TypeOK, IsInstance
  <2> QED
    BY <2>1, <2>2, <2>3, <2>4 DEF CadenceInv
<1>3. CASE Recover
  <2>1. /\ pc = "evaluated" /\ pc' = "check" /\ full' = FALSE /\ hprLast' = Inf
        /\ total' = total
    BY <1>3 DEF Recover, ResetController, Rewind
  <2> QED
    BY <2>1 DEF CadenceInv
<1>4. CASE Accept
  <2>1. hist'.recovered = hist.recovered /\ hprLast' = hprLast /\ fp' = fp
    BY <1>4 DEF Accept, Offered, TypeOK, Histories, fpState
  <2>2. /\ pc = "evaluated" /\ pc' = "check" /\ total' = total /\ run' = run
        /\ ~invalid /\ full' = (Regular \/ total >= IterLimit)
    BY <1>4 DEF Accept, NumericallyBad, counters
  <2> QED
    BY <2>1, <2>2 DEF CadenceInv, Regular, Freq, IterLimit
<1>5. CASE CheckCertificates
  <2>1. hist'.recovered = hist.recovered /\ hprLast' = hprLast /\ fp' = fp
    BY <1>5 DEF CheckCertificates, TypeOK, Histories, fpState
  <2>2. UNCHANGED <<total, run, full>> /\ pc = "check" /\ pc' \in {"finish", "limits"}
    BY <1>5 DEF CheckCertificates, counters, Stop
  <2> QED
    BY <2>1, <2>2 DEF CadenceInv, Regular, Freq, IterLimit
<1>6. CASE CheckLimits
  <2>1. UNCHANGED <<total, run, full, hprLast, fp, hist>> /\ pc = "limits"
    BY <1>6 DEF CheckLimits, counters, fpState
  <2>2. pc' \in {"loop", "finish"} \/ (pc' = "decide" /\ full /\ ~(total >= IterLimit))
    BY <1>0, <1>6 DEF CheckLimits, Stop
  <2> QED
    BY <2>1, <2>2 DEF CadenceInv, Regular, Freq
<1>7. CASE Decide
  <2>1. pc' = "loop" /\ (hist'.recovered => hist.recovered /\ hprLast' = hprLast)
    BY <1>7 DEF Decide, TypeOK, Histories
  <2> QED
    BY <2>1 DEF CadenceInv
<1>8. CASE LeaveLoop \/ GiveUp \/ CheckOptimal \/ FinishSolve \/ ExtractResult
  <2>1. UNCHANGED <<hist, hprLast>> /\ pc' \in {"finish", "extract", "done"}
    BY <1>8 DEF LeaveLoop, GiveUp, CheckOptimal, FinishSolve, ExtractResult, Stop, fpState
  <2> QED
    BY <2>1 DEF CadenceInv
<1>9. CASE ClockExpires \/ UNCHANGED vars
  <2>1. UNCHANGED <<run, pc, total, full, fp, invalid, hprLast, hist>>
    BY <1>9 DEF ClockExpires, vars, counters, fpState
  <2> QED
    BY <2>1 DEF CadenceInv, Regular, Freq, IterLimit
<1> QED
  BY <1>1, <1>2, <1>3, <1>4, <1>5, <1>6, <1>7, <1>8, <1>9 DEF Next, Step, Returned

LEMMA CadenceAlways == Spec => []CadenceInv
<1>1. Init => CadenceInv
  BY DEF Init, CadenceInv
<1> QED
  BY <1>1, CadenceStep, SolveTypeCorrect, PTL DEF Spec

(***************************************************************************)
(* For every frequency and every stride of early evaluations, no block     *)
(* runs past a regular checkpoint, and only a regular checkpoint begins an *)
(* adaptive restart.                                                       *)
(***************************************************************************)
THEOREM RestartsKeepCadence == Spec => RestartsOnCadence
<1> DEFINE A == /\ total' # total => \A n \in total + 1 .. total' - 1 : n % Freq # 0
                /\ doRestart' /\ ~doRestart /\ reductions' = reductions => total % Freq = 0
<1>1. ASSUME TypeOK, CadenceInv, [Next]_vars PROVE [A]_vars
  <2>1. CASE RunBlock
    <3>1. total' = total + BlockIterations /\ doRestart' = FALSE /\ total < IterLimit
      BY <2>1 DEF RunBlock
    <3>2. \A n \in total + 1 .. (total + BlockIterations) - 1 : n % Freq # 0
      BY <1>1, <3>1, BlockWithinPeriod
    <3>3. \A n \in total + 1 .. total' - 1 : n % Freq # 0
      BY <3>1, <3>2
    <3> QED
      BY <3>1, <3>3
  <2>2. CASE Recover
    <3>1. total' = total /\ reductions' = reductions + 1 /\ reductions \in Nat
      BY <1>1, <2>2 DEF Recover, TypeOK
    <3> QED
      BY <3>1
  <2>3. CASE Decide
    <3>1. total' = total /\ pc = "decide"
      BY <2>3 DEF Decide
    <3> QED
      BY <1>1, <3>1 DEF CadenceInv, Regular
  <2>4. CASE UNCHANGED <<total, doRestart>>
    BY <2>4
  <2> QED
    BY <1>1, <2>1, <2>2, <2>3, <2>4
       DEF Next, Step, Returned, vars, counters, fpState, InitializeSolve, LeaveLoop, GiveUp,
           Accept, CheckOptimal, CheckCertificates, CheckLimits, FinishSolve,
           ExtractResult, ClockExpires
<1>2. TypeOK /\ CadenceInv /\ [Next]_vars => [A]_vars
  BY <1>1
<1> QED
  BY <1>2, SolveTypeCorrect, CadenceAlways, PTL DEF Spec, RestartsOnCadence

\* k is the merit of a finite reading of point q.
MeritOf(k, q) ==
    \E m \in {q.dev} \cup (IF HostFeedback THEN {q.aud} ELSE {}) :
        IsFinite(m) /\ Kkt(m) = k

\* The handoff checkpoint is younger than the last recovery and was measured;
\* a recovery's own check is not a full one, so it cannot save its point.
HandoffInv ==
    /\ handoff # NoPoint =>
         /\ handoff.at > hist.recoveredAt \/ reductions = 0
         /\ MeritOf(handoff.kkt, handoff.point)
    /\ hist.recoveredAt <= total
    /\ pc = "evaluated" \/ (pc \in {"check", "limits"} /\ full) =>
         total > hist.recoveredAt \/ reductions = 0
    /\ pc = "finish" /\ status = "HOST_DOUBLE_HANDOFF" =>
         /\ handoff # NoPoint /\ pdhg = handoff.point
         /\ total - handoff.at >= run.window * Freq

LEMMA LimitsHandoff ==
    ASSUME TypeOK, PublishedNow, HandoffInv, CheckLimits
    PROVE  HandoffInv'
<1>1. /\ UNCHANGED <<run, total, reductions, hist, full>> /\ pc = "limits"
      /\ handoff' = Handoff
  BY DEF CheckLimits, counters
<1>2. \/ /\ pc' = "finish" /\ Stagnates(Handoff) /\ pdhg' = Handoff.point
      \/ pc' \in {"decide", "loop"}
      \/ pc' = "finish" /\ status' \in {"ITERATION_LIMIT", "TIME_LIMIT"}
  <2>1. total >= IterLimit \/ total < IterLimit
    BY InstanceFacts DEF TypeOK
  <2> QED
    BY <2>1 DEF CheckLimits, Stop
<1>3. Handoff # NoPoint =>
        /\ Handoff.at > hist.recoveredAt \/ reductions = 0
        /\ MeritOf(Handoff.kkt, Handoff.point)
  <2>1. CASE HandoffCandidate
    <3>1. /\ Handoff = [point |-> pdhg, at |-> total, kkt |-> Kkt(shown)]
          /\ full /\ IsFinite(shown)
      BY <2>1 DEF Handoff, HandoffCandidate
    <3>2. MeritOf(Kkt(shown), pdhg)
      BY <3>1 DEF MeritOf, PublishedNow
    <3> QED
      BY <1>1, <3>1, <3>2 DEF HandoffInv
  <2>2. CASE ~HandoffCandidate
    BY <2>2 DEF Handoff, HandoffInv
  <2> QED
    BY <2>1, <2>2
<1>4. Stagnates(Handoff) => Handoff # NoPoint /\ total - Handoff.at >= run.window * Freq
  BY DEF Stagnates
<1>5. handoff' # NoPoint => MeritOf(handoff.kkt, handoff.point)'
  BY <1>1, <1>3 DEF MeritOf, HostFeedback
<1>6. (run.window * Freq)' = run.window * Freq
  BY <1>1 DEF Freq
<1>7. pc' = "finish" /\ status' = "HOST_DOUBLE_HANDOFF" =>
        /\ handoff' # NoPoint /\ pdhg' = handoff'.point
        /\ total' - handoff'.at >= (run.window * Freq)'
  BY <1>1, <1>2, <1>4, <1>6
<1>8. handoff' # NoPoint => handoff'.at > hist'.recoveredAt \/ reductions' = 0
  BY <1>1, <1>3
<1>9. pc' \notin {"evaluated", "check", "limits"}
  BY <1>2
<1> QED
  BY <1>1, <1>5, <1>7, <1>8, <1>9 DEF HandoffInv

LEMMA HandoffStep ==
    ASSUME TypeOK, PublishedNow, HandoffInv, [Next]_vars
    PROVE  HandoffInv'
<1>0. total \in Nat /\ reductions \in Nat /\ hist.recoveredAt \in Nat
  BY DEF TypeOK, Histories
<1>1. run' = run
  BY DEF Next, Step, Returned, vars, InitializeSolve, RunBlock, LeaveLoop, Recover, GiveUp,
         Accept, CheckOptimal, CheckCertificates, CheckLimits, Decide, FinishSolve,
         ExtractResult, ClockExpires
<1>2. CASE Recover
  <2>1. hist'.recoveredAt = total
    BY <1>2 DEF Recover, TypeOK, Histories
  <2>2. total' = total /\ handoff' = NoPoint /\ pc' = "check" /\ full' = FALSE
    BY <1>2 DEF Recover, ResetController, Rewind
  <2> QED
    BY <1>0, <2>1, <2>2 DEF HandoffInv
<1>3. CASE CheckLimits
  BY <1>3, LimitsHandoff
<1>4. CASE RunBlock
  <2>1. total' > total /\ total' \in Nat
    BY <1>0, <1>4, BlockPositive DEF RunBlock
  <2>2. /\ hist'.recoveredAt = hist.recoveredAt /\ pc' = "evaluated"
        /\ handoff' = handoff /\ reductions' = reductions
    BY <1>4 DEF RunBlock, TypeOK, Histories
  <2>3. total' > hist'.recoveredAt
    BY <1>0, <2>1, <2>2 DEF HandoffInv
  <2> QED
    BY <1>0, <1>1, <2>1, <2>2, <2>3 DEF HandoffInv, MeritOf, HostFeedback
<1>5. ASSUME UNCHANGED <<handoff, total, reductions>>, hist'.recoveredAt = hist.recoveredAt,
             \/ pc' \in {"loop", "extract", "done"}
             \/ pc' = "finish" /\ status' # "HOST_DOUBLE_HANDOFF"
             \/ pc = "evaluated" /\ pc' = "check"
             \/ pc = "check" /\ pc' = "limits" /\ full' = full
             \/ pc' = pc /\ UNCHANGED <<status, pdhg, full>>
      PROVE  HandoffInv'
  BY <1>1, <1>5 DEF HandoffInv, MeritOf, HostFeedback, Freq
<1>6. CASE InitializeSolve \/ Accept
  <2>1. hist'.recoveredAt = hist.recoveredAt
    BY <1>6 DEF InitializeSolve, Accept, Offered, TypeOK, Histories
  <2> QED
    BY <1>5, <1>6, <2>1 DEF InitializeSolve, Accept, counters
<1>7. CASE LeaveLoop \/ GiveUp \/ CheckOptimal \/ FinishSolve \/ ExtractResult
  BY <1>5, <1>7 DEF LeaveLoop, GiveUp, CheckOptimal, FinishSolve, ExtractResult, Stop, counters
<1>8. CASE CheckCertificates
  <2>1. hist'.recoveredAt = hist.recoveredAt
    BY <1>8 DEF CheckCertificates, TypeOK, Histories
  <2> QED
    BY <1>5, <1>8, <2>1 DEF CheckCertificates, Stop, counters
<1>9. CASE Decide
  <2>1. hist'.recoveredAt = hist.recoveredAt
    BY <1>9 DEF Decide, TypeOK, Histories
  <2> QED
    BY <1>5, <1>9, <2>1 DEF Decide
<1>10. CASE ClockExpires \/ UNCHANGED vars
  BY <1>5, <1>10 DEF ClockExpires, vars, counters, iterate
<1> QED
  BY <1>2, <1>3, <1>4, <1>6, <1>7, <1>8, <1>9, <1>10 DEF Next, Step, Returned

LEMMA HandoffAlways == Spec => []HandoffInv
<1>1. Init => HandoffInv
  BY DEF Init, HandoffInv
<1> QED
  BY <1>1, HandoffStep, SolveTypeCorrect, PublishedAlways, PTL DEF Spec

LEMMA RegularIsLate ==
    ASSUME NEW n \in Nat \ {0}, NEW f \in Nat \ {0}, n % f = 0
    PROVE  n = f \/ n > f
BY Remainders

\* The first regular checkpoint after a recovery restarts under HPR.
LEMMA RecoveredRestarts ==
    ASSUME TypeOK, CadenceInv, Decide, run.hpr, hist.recovered
    PROVE  doRestart'
<1>1. /\ total \in Nat \ {0} /\ Freq \in Nat \ {0} /\ Regular
      /\ 5 * fp < Inf /\ hprLast = Inf /\ fp \in Nat /\ Inf \in Nat
  BY InstanceFacts DEF TypeOK, CadenceInv, Decide
<1>2. total = Freq \/ total > Freq
  BY <1>1, RegularIsLate DEF Regular
<1>3. ShouldRestart
  BY <1>1, <1>2 DEF ShouldRestart, HprRestart
<1> QED
  BY <1>3 DEF Decide

(***************************************************************************)
(* For every window, gate and number of recoveries: a stagnation handoff   *)
(* returns a measured point of the operator since the last recovery, and   *)
(* no HPR gap from before a recovery decides the restart after it.         *)
(***************************************************************************)
THEOREM RecoveryStartsOver == Spec => RecoveryForgets
<1>1. TypeOK /\ PublishedNow /\ CadenceInv /\ HandoffInv /\ [Next]_vars =>
        [/\ pc' = "finish" /\ status' = "HOST_DOUBLE_HANDOFF" =>
              /\ handoff'.at > hist'.recoveredAt \/ reductions' = 0
              /\ total' - handoff'.at >= run.window * Freq
              /\ \E m \in {pdhg'.dev} \cup (IF HostFeedback THEN {pdhg'.aud} ELSE {}) :
                   IsFinite(m) /\ Kkt(m) = handoff'.kkt
         /\ pc = "decide" /\ pc' # pc /\ run.hpr /\ hist.recovered => doRestart']_vars
  <2> SUFFICES ASSUME TypeOK, PublishedNow, CadenceInv, HandoffInv, Next, ~UNCHANGED vars
               PROVE  /\ pc' = "finish" /\ status' = "HOST_DOUBLE_HANDOFF" =>
                           /\ handoff'.at > hist'.recoveredAt \/ reductions' = 0
                           /\ total' - handoff'.at >= run.window * Freq
                           /\ \E m \in {pdhg'.dev}
                                     \cup (IF HostFeedback THEN {pdhg'.aud} ELSE {}) :
                                IsFinite(m) /\ Kkt(m) = handoff'.kkt
                      /\ pc = "decide" /\ pc' # pc /\ run.hpr /\ hist.recovered
                           => doRestart'
    OBVIOUS
  <2>1. HandoffInv' /\ run' = run
    <3>1. HandoffInv'
      BY HandoffStep
    <3> QED
      BY <3>1
         DEF Next, Step, Returned, vars, InitializeSolve, RunBlock, LeaveLoop, Recover,
             GiveUp, Accept, CheckOptimal, CheckCertificates, CheckLimits, Decide,
             FinishSolve, ExtractResult, ClockExpires
  <2>2. pc = "decide" /\ pc' # pc => Decide
    BY DEF Next, Step, Returned, InitializeSolve, RunBlock, LeaveLoop, Recover, GiveUp,
           Accept, CheckOptimal, CheckCertificates, CheckLimits, FinishSolve,
           ExtractResult, ClockExpires
  <2> QED
    BY <2>1, <2>2, RecoveredRestarts DEF HandoffInv, MeritOf, HostFeedback, Freq
<1> QED
  BY <1>1, SolveTypeCorrect, PublishedAlways, CadenceAlways, HandoffAlways, PTL
     DEF Spec, RecoveryForgets

------------------------------------------------------------------------------
(* How many steps a solve takes.                                           *)

\* Steps from a location to the end when no further block is run.
Rank == [init      |-> 8, evaluated |-> 7, check |-> 6, limits  |-> 5, decide |-> 4,
         loop      |-> 3, finish    |-> 2, extract |-> 1, done  |-> 0]

\* Bound on the steps still to come: five for each iteration of the limit that
\* was not run, those to the end from here, and the deadline if it lies ahead.
StepsLeft ==
    5 * (IterLimit - total) + Rank[pc] + (IF expired THEN 0 ELSE 1)

WithinLimit == total <= IterLimit

LEMMA WithinLimitAlways == Spec => []WithinLimit
<1>1. Init => WithinLimit
  <2> SUFFICES ASSUME Init PROVE WithinLimit
    OBVIOUS
  <2>1. IterLimit \in Nat
    BY InitType, InstanceFacts
  <2> QED
    BY <2>1 DEF Init, WithinLimit
<1>2. TypeOK /\ WithinLimit /\ [Next]_vars => WithinLimit'
  <2> SUFFICES ASSUME TypeOK, WithinLimit, [Next]_vars PROVE WithinLimit'
    OBVIOUS
  <2>1. CASE RunBlock
    <3>1. run' = run /\ total' = total + BlockIterations /\ total < IterLimit
      BY <2>1 DEF RunBlock
    <3> QED
      BY <3>1, BlockPositive DEF WithinLimit, IterLimit
  <2>2. CASE UNCHANGED <<run, total>>
    BY <2>2 DEF WithinLimit, IterLimit
  <2> QED
    BY <2>1, <2>2
       DEF Next, Step, Returned, vars, counters, InitializeSolve, LeaveLoop, Recover,
           GiveUp, Accept, CheckOptimal, CheckCertificates, CheckLimits, Decide,
           FinishSolve, ExtractResult, ClockExpires
<1> QED
  BY <1>1, <1>2, SolveTypeCorrect, PTL DEF Spec

\* A step that runs no block moves to a location of a lower rank.
LEMMA OnwardStep ==
    ASSUME TypeOK, Step, ~RunBlock
    PROVE  UNCHANGED <<run, total, expired>> /\ Rank[pc'] + 1 <= Rank[pc]
<1>1. UNCHANGED <<run, total, expired>>
  BY DEF Step, counters, InitializeSolve, LeaveLoop, Recover, GiveUp, Accept,
         CheckOptimal, CheckCertificates, CheckLimits, Decide, FinishSolve, ExtractResult
<1>2. \/ pc = "init" /\ pc' = "loop"
      \/ pc = "loop" /\ pc' = "finish"
      \/ pc = "evaluated" /\ pc' \in {"check", "finish"}
      \/ pc = "check" /\ pc' \in {"limits", "finish"}
      \/ pc = "limits" /\ pc' \in {"decide", "loop", "finish"}
      \/ pc = "decide" /\ pc' = "loop"
      \/ pc = "finish" /\ pc' = "extract"
      \/ pc = "extract" /\ pc' = "done"
  <2>1. CASE InitializeSolve \/ LeaveLoop \/ Recover \/ GiveUp \/ Accept
    BY <2>1 DEF InitializeSolve, LeaveLoop, Recover, GiveUp, Accept
  <2>2. CASE CheckOptimal \/ CheckCertificates
    BY <2>2 DEF CheckOptimal, CheckCertificates, Stop
  <2>3. CASE CheckLimits
    <3>1. pc = "limits"
      BY <2>3 DEF CheckLimits
    <3>2. pc' \in {"decide", "loop", "finish"}
      <4>1. total \in Nat /\ IterLimit \in Nat
        BY InstanceFacts DEF TypeOK
      <4> QED
        BY <2>3, <4>1 DEF CheckLimits, Stop
    <3> QED
      BY <3>1, <3>2
  <2>4. CASE Decide \/ FinishSolve \/ ExtractResult
    BY <2>4 DEF Decide, FinishSolve, ExtractResult
  <2> QED
    BY <2>1, <2>2, <2>3, <2>4 DEF Step
<1> QED
  BY <1>1, <1>2 DEF Rank

(***************************************************************************)
(* Nothing makes a solve run on: whatever its points, restarts, recoveries *)
(* (which reset the controller, never total_count) and early evaluations,  *)
(* each step leaves fewer to come, at most five times iteration_limit and  *)
(* nine in all.  With that, Termination can only fail where a location has *)
(* no step, which is what its run looks for.                               *)
(***************************************************************************)
THEOREM SolveStepsBounded ==
    Spec => /\ [](StepsLeft \in 0 .. 5 * IterLimit + 9)
            /\ [][StepsLeft' < StepsLeft]_vars
<1>1. ASSUME TypeOK PROVE total \in Nat /\ IterLimit \in Nat /\ Rank[pc] \in 0 .. 8
  BY <1>1, InstanceFacts DEF TypeOK, Locations, Rank
<1>2. TypeOK /\ WithinLimit => StepsLeft \in 0 .. 5 * IterLimit + 9
  BY <1>1 DEF StepsLeft, WithinLimit
<1>3. ASSUME TypeOK, TypeOK', Next, ~UNCHANGED vars PROVE StepsLeft' < StepsLeft
  <2>1. CASE RunBlock
    <3>1. /\ run' = run /\ expired' = expired /\ total' = total + BlockIterations
          /\ total < IterLimit /\ pc = "loop" /\ pc' = "evaluated"
      BY <2>1 DEF RunBlock
    <3>2. Rank[pc] = 3 /\ Rank[pc'] = 7 /\ IterLimit' = IterLimit
      BY <3>1 DEF Rank, IterLimit
    <3> QED
      BY <1>1, <1>3, <3>1, <3>2, BlockPositive DEF StepsLeft
  <2>2. CASE Step /\ ~RunBlock
    <3>1. UNCHANGED <<run, total, expired>> /\ Rank[pc'] + 1 <= Rank[pc]
      BY <1>3, <2>2, OnwardStep
    <3>2. Rank[pc'] \in 0 .. 8 /\ IterLimit' = IterLimit
      BY <1>3, <3>1 DEF TypeOK, Locations, Rank, IterLimit
    <3> QED
      BY <1>1, <1>3, <3>1, <3>2 DEF StepsLeft
  <2>3. CASE ClockExpires
    <3>1. UNCHANGED <<run, pc, total>> /\ ~expired /\ expired'
      BY <2>3 DEF ClockExpires, counters
    <3> QED
      BY <1>1, <1>3, <3>1 DEF StepsLeft, IterLimit
  <2> QED
    BY <1>3, <2>1, <2>2, <2>3 DEF Next, Returned
<1>4. TypeOK /\ TypeOK' /\ [Next]_vars => [StepsLeft' < StepsLeft]_vars
  BY <1>3
<1> QED
  BY <1>2, <1>4, SolveTypeCorrect, WithinLimitAlways, PTL DEF Spec
==============================================================================
