-------------------------- MODULE FeasPolishProofs ---------------------------
(***************************************************************************)
(* What feasibility polishing keeps, for every problem, reading, budget    *)
(* and parameter setting.                                                  *)
(***************************************************************************)
EXTENDS FeasPolish, TLAPS

PrimalPhase == pc \in {"primalLoop", "primalBlend"}
DualPhase == pc \in {"dualLoop", "dualBlend"}

Entries == [merit : Component, inc : Point \cup {NoPoint}, total : Nat,
            inner : Nat, status : Statuses]

\* The locals of a running phase, and the history once there is one.
PhaseLocals ==
    /\ PrimalPhase \/ DualPhase => base.at \in Point
    /\ PrimalPhase => polished \in Primals
    /\ DualPhase => polished \in Duals
    /\ pc # "finish" => entry \in Entries

LEMMA ReadingTypes ==
    ASSUME NEW p \in Point
    PROVE  DeviceReading(p) \in Parts /\ AuditReading(p) \in Parts
BY FeasPolishAssumption DEF DeviceReading, AuditReading, Point

LEMMA MeritType ==
    ASSUME NEW m \in Parts
    PROVE  CodeMerit(m) \in Component
BY DEF CodeMerit, StdMax, Parts

\* A merit below one that is not below e is not above e either.
LEMMA BelowChain ==
    ASSUME NEW e \in Component, NEW b \in Component, NEW n \in Component,
           ~Below(e, b), Below(n, b)
    PROVE  ~Below(e, n)
BY FeasPolishAssumption DEF Below, Component

LEMMA WholeIsMetric ==
    ASSUME NEW m \in Parts, Whole(m)
    PROVE  m \in Metric
BY DEF Parts, Component, Whole, Metric

\* Products of tolerances and errors are ordered like the errors.
LEMMA MeritNat ==
    ASSUME NEW m \in Metric
    PROVE  Merit(m) \in Nat /\ Feas(m) \in Nat
<1>1. Feas(m) \in Nat /\ m.gap \in Nat
  BY DEF Feas, Larger, Metric
<1>2. Feas(m) * OptTol \in Nat /\ m.gap * FeasTol \in Nat
  BY <1>1, MetricsAssumption
<1> QED
  BY <1>1, <1>2 DEF Merit, Larger

LEMMA BetterAuditIsStrict ==
    ASSUME NEW m \in Metric, NEW b \in Metric, BetterAudit(m, b)
    PROVE  ~BetterAudit(b, m)
<1>1. /\ Merit(m) \in Nat /\ Merit(b) \in Nat /\ Feas(m) \in Nat /\ Feas(b) \in Nat
      /\ m.gap \in Nat /\ b.gap \in Nat
  BY MeritNat DEF Metric
<1>2. Apart(m.gap, b.gap) = Apart(b.gap, m.gap)
  BY <1>1 DEF Apart
<1> QED
  BY <1>1, <1>2 DEF BetterAudit

LEMMA BetterAuditIrreflexive ==
    ASSUME NEW m \in Metric
    PROVE  ~BetterAudit(m, m)
BY BetterAuditIsStrict

LEMMA FeedbackType ==
    ASSUME inc \in Point \cup {NoPoint}, NEW p \in Point, Feedback(p)
    PROVE  /\ point' \in Point /\ inc' \in Point \cup {NoPoint}
           /\ shown' = IF cfg.feedback THEN AuditReading(point') ELSE DeviceReading(point')
           /\ shown' \in Parts
<1>1. Preferred(p) \in Point
  BY DEF Preferred
<1>2. point' \in Point /\ inc' \in Point \cup {NoPoint}
  BY <1>1 DEF Feedback
<1>3. shown' = IF cfg.feedback THEN AuditReading(point') ELSE DeviceReading(point')
  BY DEF Feedback
<1> QED
  BY <1>2, <1>3, ReadingTypes

LEMMA SequenceElements ==
    ASSUME NEW S, NEW path \in Seq(S), Len(path) > 0
    PROVE  DOMAIN path # {} /\ \A i \in DOMAIN path : path[i] \in S
<1>1. DOMAIN path = 1 .. Len(path) /\ Len(path) \in Nat
  OBVIOUS
<1>2. 1 \in DOMAIN path
  BY <1>1
<1> QED
  BY <1>1, <1>2

\* The trials of both searches are points that keep the other half.
LEMMA PrimalTrialsType ==
    ASSUME base.at \in Point, polished \in Primals
    PROVE  /\ DOMAIN PrimalTrials # {}
           /\ \A i \in DOMAIN PrimalTrials :
                PrimalTrials[i] \in Point /\ PrimalTrials[i].d = base.at.d
<1> DEFINE path == XPath[base.at.x][polished]
<1>1. path \in Seq(Primals) /\ Len(path) > 0
  BY FeasPolishAssumption DEF Point
<1>2. DOMAIN path # {} /\ \A i \in DOMAIN path : path[i] \in Primals
  BY <1>1, SequenceElements
<1>3. \A i \in DOMAIN path : [base.at EXCEPT !.x = path[i]] \in Point
  BY <1>2 DEF Point
<1>4. \A i \in DOMAIN path : [base.at EXCEPT !.x = path[i]].d = base.at.d
  BY DEF Point
<1>5. PrimalTrials = [i \in DOMAIN path |-> [base.at EXCEPT !.x = path[i]]]
  BY DEF PrimalTrials
<1> HIDE DEF path
<1> QED
  BY <1>2, <1>3, <1>4, <1>5

LEMMA DualTrialsType ==
    ASSUME base.at \in Point, polished \in Duals
    PROVE  /\ DOMAIN DualTrials # {}
           /\ \A i \in DOMAIN DualTrials :
                DualTrials[i] \in Point /\ DualTrials[i].x = base.at.x
<1> DEFINE path == DPath[base.at.d][polished]
<1>1. path \in Seq(Duals) /\ Len(path) > 0
  BY FeasPolishAssumption DEF Point
<1>2. DOMAIN path # {} /\ \A i \in DOMAIN path : path[i] \in Duals
  BY <1>1, SequenceElements
<1>3. \A i \in DOMAIN path : [base.at EXCEPT !.d = path[i]] \in Point
  BY <1>2 DEF Point
<1>4. \A i \in DOMAIN path : [base.at EXCEPT !.d = path[i]].x = base.at.x
  BY DEF Point
<1>5. DualTrials = [i \in DOMAIN path |-> [base.at EXCEPT !.d = path[i]]]
  BY DEF DualTrials
<1> HIDE DEF path
<1> QED
  BY <1>2, <1>3, <1>4, <1>5

\* What a search ends on: the baseline, or a trial whose merit is below it.
LEMMA BestTrialFacts ==
    ASSUME NEW trials, base.at \in Point,
           \A i \in DOMAIN trials : trials[i] \in Point
    PROVE  /\ BestTrial(trials) \in Point
           /\ IF Improving(trials) = {} THEN BestTrial(trials) = base.at
              ELSE /\ \E i \in DOMAIN trials : BestTrial(trials) = trials[i]
                   /\ Below(CodeMerit(DeviceReading(BestTrial(trials))), base.merit)
<1>1. CASE Improving(trials) = {}
  BY <1>1 DEF BestTrial
<1>2. CASE Improving(trials) # {}
  <2> DEFINE best == CHOOSE i \in Improving(trials) : TRUE
  <2>1. best \in Improving(trials)
    BY <1>2
  <2>2. best \in DOMAIN trials
           /\ Below(CodeMerit(DeviceReading(trials[best])), base.merit)
    BY <2>1 DEF Improving
  <2>3. BestTrial(trials) = trials[best]
    BY <1>2 DEF BestTrial
  <2> QED
    BY <1>2, <2>2, <2>3
<1> QED
  BY <1>1, <1>2

LEMMA ConcludeType ==
    ASSUME FpTypeOK, base.at \in Point, NEW trials,
           \A i \in DOMAIN trials : trials[i] \in Point, Conclude(trials)
    PROVE  /\ point' \in Point /\ shown' \in Parts /\ saved' \in Point \cup {NoPoint}
           /\ status' \in Statuses /\ problem' = "whole" /\ controller' = "main"
           /\ total' \in Nat /\ inner' \in Nat /\ iters' \in Nat
           /\ base' = Idle /\ polished' = NoPoint /\ bestRes' = NaN /\ doRestart' = FALSE
<1>1. point' = BestTrial(trials) /\ point' \in Point
  BY BestTrialFacts DEF Conclude
<1>2. shown' = DeviceReading(point') /\ shown' \in Parts
  BY <1>1, ReadingTypes DEF Conclude
<1>3. saved' \in {point', saved}
  BY DEF Conclude
<1>4. status' \in {"OPTIMAL", base.status}
  BY DEF Conclude
<1>5. base.status \in Statuses /\ base.total \in Nat /\ base.inner \in Nat
  BY DEF FpTypeOK
<1> QED
  BY <1>1, <1>2, <1>3, <1>4, <1>5 DEF Conclude, RestoreProblem, FpTypeOK, Statuses

LEMMA IdleType ==
    Idle \in [at : Point \cup {NoPoint}, merit : Component, total : Nat,
              inner : Nat, status : Statuses]
BY DEF Idle, Component, Statuses

LEMMA AfterBlockType ==
    ASSUME FpTypeOK, NEW v, NEW r \in Component, AfterBlock(v, r)
    PROVE  /\ total' = total + Freq /\ total' \in Nat /\ inner' \in Nat
           /\ bestRes' \in Component /\ polished' \in {v, polished}
           /\ doRestart' \in BOOLEAN
<1>1. Freq \in Nat
  BY FeasPolishAssumption
<1>2. total \in Nat /\ inner \in Nat /\ bestRes \in Component
  BY DEF FpTypeOK
<1>3. bestRes' \in {r, bestRes} /\ polished' \in {v, polished} /\ total' = total + Freq
  BY DEF AfterBlock
<1>4. inner' \in {0, inner + Freq} /\ doRestart' \in BOOLEAN
  BY DEF AfterBlock
<1> QED
  BY <1>1, <1>2, <1>3, <1>4

(***************************************************************************)
(* The state of finish_solve is well typed: each phase's locals hold       *)
(* vectors of its own kind while it runs.                                  *)
(***************************************************************************)
THEOREM FeasTypeCorrect == Spec => [](FpTypeOK /\ PhaseLocals)
<1> USE FeasPolishAssumption
<1>1. Init => FpTypeOK /\ PhaseLocals
  <2> SUFFICES ASSUME Init PROVE FpTypeOK /\ PhaseLocals
    OBVIOUS
  <2>1. shown \in Parts /\ point \in Point
    BY ReadingTypes DEF Init
  <2>2. base \in [at : Point \cup {NoPoint}, merit : Component, total : Nat,
                  inner : Nat, status : Statuses]
    BY IdleType DEF Init
  <2> QED
    BY <2>1, <2>2 DEF Init, FpTypeOK, PhaseLocals, PrimalPhase, DualPhase, Component
<1>2. FpTypeOK /\ PhaseLocals /\ [Next]_vars => FpTypeOK' /\ PhaseLocals'
  <2> SUFFICES ASSUME FpTypeOK, PhaseLocals, [Next]_vars
               PROVE  FpTypeOK' /\ PhaseLocals'
    OBVIOUS
  <2>1. CASE Finish
    <3>1. (IF status = "LIMIT" /\ saved # NoPoint THEN saved ELSE point) \in Point
      BY DEF FpTypeOK
    <3>2. point' \in Point /\ inc' \in Point \cup {NoPoint} /\ shown' \in Parts
      BY <2>1, <3>1, FeedbackType DEF Finish, FpTypeOK
    <3>3. CodeMerit(shown') \in Component
      BY <3>2, MeritType
    <3>4. entry' \in Entries /\ pc' = "primal"
      BY <2>1, <3>2, <3>3 DEF Finish, Entries, FpTypeOK
    <3> QED
      BY <2>1, <3>2, <3>4
         DEF Finish, FpTypeOK, PhaseLocals, PrimalPhase, DualPhase, phase, counters, Entries
  <2>2. CASE SkipPrimal \/ SkipDual \/ LeavePrimal \/ LeaveDual \/ Expire
    BY <2>2 DEF SkipPrimal, SkipDual, LeavePrimal, LeaveDual, Expire,
                FpTypeOK, PhaseLocals, PrimalPhase, DualPhase, phase, counters, iterate
  <2>3. CASE StartPrimal
    <3>1. shown \in Parts /\ point \in Point
      BY DEF FpTypeOK
    <3>2. CodeMerit(shown) \in Component /\ shown.primal \in Component
      BY <3>1, MeritType DEF Parts
    <3>3. base' \in [at : Point \cup {NoPoint}, merit : Component, total : Nat,
                     inner : Nat, status : Statuses] /\ base'.at \in Point
      BY <2>3, <3>1, <3>2 DEF StartPrimal, Start, FpTypeOK
    <3>4. point' \in Point /\ polished' \in Primals /\ bestRes' \in Component
      BY <2>3, <3>1, <3>2 DEF StartPrimal, Start, Point
    <3> QED
      BY <2>3, <3>3, <3>4 DEF StartPrimal, Start, FpTypeOK, PhaseLocals, PrimalPhase, DualPhase
  <2>4. CASE StartDual
    <3>1. shown \in Parts /\ point \in Point
      BY DEF FpTypeOK
    <3>2. CodeMerit(shown) \in Component /\ shown.dual \in Component
      BY <3>1, MeritType DEF Parts
    <3>3. base' \in [at : Point \cup {NoPoint}, merit : Component, total : Nat,
                     inner : Nat, status : Statuses] /\ base'.at \in Point
      BY <2>4, <3>1, <3>2 DEF StartDual, Start, FpTypeOK
    <3>4. point' \in Point /\ polished' \in Duals /\ bestRes' \in Component
      BY <2>4, <3>1, <3>2 DEF StartDual, Start, Point
    <3> QED
      BY <2>4, <3>3, <3>4 DEF StartDual, Start, FpTypeOK, PhaseLocals, PrimalPhase, DualPhase
  <2>5. CASE PrimalBlock
    <3>1. point' \in Point /\ base.at \in Point
      BY <2>5 DEF PrimalBlock, PhaseLocals, PrimalPhase, DualPhase
    <3>2. Device[point'.x][base.at.d].primal \in Component
      BY <3>1 DEF Point, Parts
    <3>3. shown' = [shown EXCEPT !.primal = Device[point'.x][base.at.d].primal]
      BY <2>5 DEF PrimalBlock
    <3>4. shown' \in Parts /\ shown'.primal \in Component
      BY <3>2, <3>3 DEF FpTypeOK, Parts
    <3>5. AfterBlock(point'.x, shown'.primal)
      BY <2>5 DEF PrimalBlock
    <3>6. /\ total' \in Nat /\ inner' \in Nat /\ bestRes' \in Component
          /\ polished' \in {point'.x, polished} /\ doRestart' \in BOOLEAN
      BY <3>4, <3>5, AfterBlockType
    <3>7. polished' \in Primals
      BY <2>5, <3>1, <3>6 DEF PrimalBlock, PhaseLocals, PrimalPhase, DualPhase, Point
    <3> QED
      BY <2>5, <3>1, <3>4, <3>6, <3>7
         DEF PrimalBlock, FpTypeOK, PhaseLocals, PrimalPhase, DualPhase
  <2>6. CASE DualBlock
    <3>1. point' \in Point /\ base.at \in Point
      BY <2>6 DEF DualBlock, PhaseLocals, PrimalPhase, DualPhase
    <3>2. Device[base.at.x][point'.d].dual \in Component
      BY <3>1 DEF Point, Parts
    <3>3. shown' = [shown EXCEPT !.dual = Device[base.at.x][point'.d].dual]
      BY <2>6 DEF DualBlock
    <3>4. shown' \in Parts /\ shown'.dual \in Component
      BY <3>2, <3>3 DEF FpTypeOK, Parts
    <3>5. AfterBlock(point'.d, shown'.dual)
      BY <2>6 DEF DualBlock
    <3>6. /\ total' \in Nat /\ inner' \in Nat /\ bestRes' \in Component
          /\ polished' \in {point'.d, polished} /\ doRestart' \in BOOLEAN
      BY <3>4, <3>5, AfterBlockType
    <3>7. polished' \in Duals
      BY <2>6, <3>1, <3>6 DEF DualBlock, PhaseLocals, PrimalPhase, DualPhase, Point
    <3> QED
      BY <2>6, <3>1, <3>4, <3>6, <3>7
         DEF DualBlock, FpTypeOK, PhaseLocals, PrimalPhase, DualPhase
  <2>7. CASE BlendPrimal
    <3>1. base.at \in Point /\ polished \in Primals
      BY <2>7 DEF BlendPrimal, PhaseLocals, PrimalPhase, DualPhase
    <3>2. \A i \in DOMAIN PrimalTrials : PrimalTrials[i] \in Point
      BY <3>1, PrimalTrialsType
    <3>3. Conclude(PrimalTrials)
      BY <2>7 DEF BlendPrimal
    <3> HIDE DEF PrimalTrials
    <3>4. /\ point' \in Point /\ shown' \in Parts /\ saved' \in Point \cup {NoPoint}
          /\ status' \in Statuses /\ problem' = "whole" /\ controller' = "main"
          /\ total' \in Nat /\ inner' \in Nat /\ iters' \in Nat
          /\ base' = Idle /\ polished' = NoPoint /\ bestRes' = NaN /\ doRestart' = FALSE
      BY <3>1, <3>2, <3>3, ConcludeType
    <3> QED
      BY <2>7, <3>4, IdleType
         DEF BlendPrimal, FpTypeOK, PhaseLocals, PrimalPhase, DualPhase, Component
  <2>8. CASE BlendDual
    <3>1. base.at \in Point /\ polished \in Duals
      BY <2>8 DEF BlendDual, PhaseLocals, PrimalPhase, DualPhase
    <3>2. \A i \in DOMAIN DualTrials : DualTrials[i] \in Point
      BY <3>1, DualTrialsType
    <3>3. Conclude(DualTrials)
      BY <2>8 DEF BlendDual
    <3> HIDE DEF DualTrials
    <3>4. /\ point' \in Point /\ shown' \in Parts /\ saved' \in Point \cup {NoPoint}
          /\ status' \in Statuses /\ problem' = "whole" /\ controller' = "main"
          /\ total' \in Nat /\ inner' \in Nat /\ iters' \in Nat
          /\ base' = Idle /\ polished' = NoPoint /\ bestRes' = NaN /\ doRestart' = FALSE
      BY <3>1, <3>2, <3>3, ConcludeType
    <3> QED
      BY <2>8, <3>4, IdleType
         DEF BlendDual, FpTypeOK, PhaseLocals, PrimalPhase, DualPhase, Component
  <2>9. CASE FinalFeedback
    <3>1. CASE cfg.feedback
      <4>1. Feedback(point) /\ point \in Point
        BY <2>9, <3>1 DEF FinalFeedback, FpTypeOK
      <4>2. point' \in Point /\ inc' \in Point \cup {NoPoint} /\ shown' \in Parts
        BY <4>1, FeedbackType DEF FpTypeOK
      <4> QED
        BY <2>9, <4>2
           DEF FinalFeedback, FpTypeOK, PhaseLocals, PrimalPhase, DualPhase, phase, counters
    <3>2. CASE ~cfg.feedback
      BY <2>9, <3>2
         DEF FinalFeedback, FpTypeOK, PhaseLocals, PrimalPhase, DualPhase, phase, counters
    <3> QED
      BY <3>1, <3>2
  <2>10. CASE UNCHANGED vars
    BY <2>10 DEF vars, FpTypeOK, PhaseLocals, PrimalPhase, DualPhase, phase, counters, iterate
  <2> QED
    BY <2>1, <2>2, <2>3, <2>4, <2>5, <2>6, <2>7, <2>8, <2>9, <2>10 DEF Next, Step, Done
<1> QED
  BY <1>1, <1>2, PTL DEF Spec

\* What a phase has put aside.
PutAside ==
    /\ pc = "finish" => problem = "whole" /\ controller = "main"
    /\ PrimalPhase \/ DualPhase =>
         base.total = entry.total /\ base.inner = entry.inner

(***************************************************************************)
(* Between the phases and after them the problem, the controller and the   *)
(* counters are the solve's again, and the readings those of the point.    *)
(***************************************************************************)
THEOREM PolishRestores == Spec => []RestoredAtRest
<1> DEFINE Inv == RestoredAtRest /\ PutAside
<1>1. Init => Inv
  BY DEF Init, RestoredAtRest, Resting, PutAside, PrimalPhase, DualPhase
<1>2. FpTypeOK /\ PhaseLocals /\ Inv /\ [Next]_vars => Inv'
  <2> SUFFICES ASSUME FpTypeOK, PhaseLocals, RestoredAtRest, PutAside, [Next]_vars
               PROVE  RestoredAtRest' /\ PutAside'
    OBVIOUS
  <2>1. CASE Finish
    <3>1. (IF status = "LIMIT" /\ saved # NoPoint THEN saved ELSE point) \in Point
      BY DEF FpTypeOK
    <3>2. shown' = IF cfg.feedback THEN AuditReading(point') ELSE DeviceReading(point')
      BY <2>1, <3>1, FeedbackType DEF Finish, FpTypeOK
    <3>3. shown' \in {DeviceReading(point)'}
                       \cup (IF cfg.feedback THEN {AuditReading(point)'} ELSE {})
      BY <3>2 DEF DeviceReading, AuditReading
    <3>4. problem = "whole" /\ controller = "main"
      BY <2>1 DEF Finish, PutAside
    <3> QED
      BY <2>1, <3>3, <3>4
         DEF Finish, RestoredAtRest, Resting, PutAside, PrimalPhase, DualPhase, counters
  <2>2. CASE SkipPrimal \/ SkipDual \/ LeavePrimal \/ LeaveDual \/ Expire
    BY <2>2 DEF SkipPrimal, SkipDual, LeavePrimal, LeaveDual, Expire, RestoredAtRest,
                Resting, PutAside, PrimalPhase, DualPhase, counters, iterate, phase,
                DeviceReading, AuditReading
  <2>3. CASE StartPrimal \/ StartDual
    BY <2>3 DEF StartPrimal, StartDual, Start, RestoredAtRest, Resting, PutAside,
                PrimalPhase, DualPhase
  <2>4. CASE PrimalBlock \/ DualBlock
    BY <2>4 DEF PrimalBlock, DualBlock, RestoredAtRest, Resting, PutAside,
                PrimalPhase, DualPhase
  <2>5. CASE BlendPrimal
    <3>1. Conclude(PrimalTrials) /\ pc' = "dual" /\ UNCHANGED entry
      BY <2>5 DEF BlendPrimal
    <3>2. total' = entry'.total /\ inner' = entry'.inner
      BY <2>5, <3>1 DEF BlendPrimal, Conclude, PutAside, PrimalPhase, DualPhase
    <3>3. shown' = DeviceReading(point)' /\ problem' = "whole" /\ controller' = "main"
      BY <3>1 DEF Conclude, RestoreProblem, DeviceReading
    <3> QED
      BY <3>1, <3>2, <3>3 DEF RestoredAtRest, Resting, PutAside, PrimalPhase, DualPhase
  <2>6. CASE BlendDual
    <3>1. Conclude(DualTrials) /\ pc' = "audit" /\ UNCHANGED entry
      BY <2>6 DEF BlendDual
    <3>2. total' = entry'.total /\ inner' = entry'.inner
      BY <2>6, <3>1 DEF BlendDual, Conclude, PutAside, PrimalPhase, DualPhase
    <3>3. shown' = DeviceReading(point)' /\ problem' = "whole" /\ controller' = "main"
      BY <3>1 DEF Conclude, RestoreProblem, DeviceReading
    <3> QED
      BY <3>1, <3>2, <3>3 DEF RestoredAtRest, Resting, PutAside, PrimalPhase, DualPhase
  <2>7. CASE FinalFeedback
    <3>1. CASE cfg.feedback
      <4>1. shown' = AuditReading(point')
        BY <2>7, <3>1, FeedbackType DEF FinalFeedback, FpTypeOK
      <4>2. shown' \in {AuditReading(point)'}
        BY <4>1 DEF AuditReading
      <4> QED
        BY <2>7, <3>1, <4>2 DEF FinalFeedback, RestoredAtRest, Resting, PutAside,
           PrimalPhase, DualPhase, counters
    <3>2. CASE ~cfg.feedback
      BY <2>7, <3>2 DEF FinalFeedback, RestoredAtRest, Resting, PutAside,
         PrimalPhase, DualPhase, counters, DeviceReading
    <3> QED
      BY <3>1, <3>2
  <2>8. CASE UNCHANGED vars
    BY <2>8 DEF vars, RestoredAtRest, Resting, PutAside, PrimalPhase, DualPhase,
                counters, iterate, phase, DeviceReading, AuditReading
  <2> QED
    BY <2>1, <2>2, <2>3, <2>4, <2>5, <2>6, <2>7, <2>8 DEF Next, Step, Done
<1> QED
  BY <1>1, <1>2, FeasTypeCorrect, PTL DEF Spec

Bound == IterLimit + Freq

LEMMA BoundFacts ==
    /\ Bound \in Nat /\ Bound > 0 /\ Freq \in Nat /\ IterLimit \in Nat
    /\ \A n \in Nat : n < IterLimit => n + Freq < Bound
    /\ \A n \in Nat : n < Bound => n < Bound + Bound
    /\ \A n, k \in Nat : n < Bound /\ k < Bound => n + k < Bound + Bound
    /\ 2 * (IterLimit + Freq) = Bound + Bound
BY FeasPolishAssumption DEF Bound

\* What each phase has added once it is over.
CountedSoFar ==
    /\ iters \in Nat /\ total \in Nat
    /\ pc \in {"finish", "primal", "primalLoop", "primalBlend"} => iters = 0
    /\ pc \in {"dual", "dualLoop", "dualBlend"} => iters < Bound
    /\ pc \in {"audit", "done"} => iters < Bound + Bound
    /\ pc \in {"primalLoop", "primalBlend", "dualLoop", "dualBlend"} => total < Bound

(***************************************************************************)
(* Neither phase takes more than one block over the iteration limit, for   *)
(* every limit and evaluation frequency.                                   *)
(***************************************************************************)
THEOREM PolishWithinLimits == Spec => []PhaseBudget
<1>1. Init => CountedSoFar
  BY BoundFacts DEF Init, CountedSoFar
<1>2. FpTypeOK /\ FpTypeOK' /\ CountedSoFar /\ [Next]_vars => CountedSoFar'
  <2> SUFFICES ASSUME FpTypeOK', CountedSoFar, [Next]_vars
               PROVE  CountedSoFar'
    OBVIOUS
  <2>1. iters' \in Nat /\ total' \in Nat
    BY DEF FpTypeOK
  <2>2. CASE Finish
    BY <2>1, <2>2 DEF Finish, CountedSoFar, counters
  <2>3. CASE SkipPrimal \/ SkipDual
    BY <2>1, <2>3, BoundFacts DEF SkipPrimal, SkipDual, CountedSoFar, counters
  <2>4. CASE LeavePrimal \/ LeaveDual \/ Expire
    BY <2>1, <2>4 DEF LeavePrimal, LeaveDual, Expire, CountedSoFar, counters
  <2>5. CASE StartPrimal \/ StartDual
    BY <2>1, <2>5, BoundFacts DEF StartPrimal, StartDual, Start, CountedSoFar
  <2>6. CASE PrimalBlock \/ DualBlock
    <3>1. total' = total + Freq /\ total < IterLimit /\ UNCHANGED iters
      BY <2>6 DEF PrimalBlock, DualBlock, AfterBlock, BlockDue
    <3>2. \/ pc = "primalLoop" /\ pc' \in {"primalLoop", "primalBlend"}
          \/ pc = "dualLoop" /\ pc' \in {"dualLoop", "dualBlend"}
      BY <2>6 DEF PrimalBlock, DualBlock
    <3>3. total' < Bound
      BY <3>1, BoundFacts DEF CountedSoFar
    <3> QED
      BY <2>1, <3>1, <3>2, <3>3 DEF CountedSoFar
  <2>7. CASE BlendPrimal \/ BlendDual
    <3>1. iters' = iters + total
      BY <2>7 DEF BlendPrimal, BlendDual, Conclude
    <3>2. \/ pc = "primalBlend" /\ pc' = "dual"
          \/ pc = "dualBlend" /\ pc' = "audit"
      BY <2>7 DEF BlendPrimal, BlendDual
    <3>3. pc = "primalBlend" => iters' = total
      BY <3>1 DEF CountedSoFar
    <3>4. pc = "dualBlend" => iters' < Bound + Bound
      BY <3>1, BoundFacts DEF CountedSoFar
    <3> QED
      BY <2>1, <3>2, <3>3, <3>4 DEF CountedSoFar
  <2>8. CASE FinalFeedback \/ UNCHANGED vars
    BY <2>1, <2>8 DEF FinalFeedback, vars, CountedSoFar, counters
  <2> QED
    BY <2>2, <2>3, <2>4, <2>5, <2>6, <2>7, <2>8 DEF Next, Step, Done
<1>3. FpTypeOK /\ CountedSoFar => PhaseBudget
  <2> SUFFICES ASSUME FpTypeOK, CountedSoFar PROVE PhaseBudget
    OBVIOUS
  <2> DEFINE spent == IF Resting \/ pc = "finish" THEN 0 ELSE total
  <2>1. Resting \/ pc = "finish" => iters + 0 < Bound + Bound
    BY BoundFacts DEF CountedSoFar, Resting
  <2>2. ~(Resting \/ pc = "finish") => iters + total < Bound + Bound
    <3>1. ~(Resting \/ pc = "finish") => total < Bound /\ iters < Bound
      BY BoundFacts DEF CountedSoFar, Resting, FpTypeOK
    <3> QED
      BY <3>1, BoundFacts DEF CountedSoFar
  <2>3. iters + spent < 2 * (IterLimit + Freq)
    BY <2>1, <2>2, BoundFacts
  <2>4. pc \in {"primalLoop", "primalBlend", "dualLoop", "dualBlend"} =>
          total < IterLimit + Freq
    BY DEF CountedSoFar, Bound
  <2> QED
    BY <2>3, <2>4 DEF PhaseBudget
<1> QED
  BY <1>1, <1>2, <1>3, FeasTypeCorrect, PTL DEF Spec

\* The merit of a phase's baseline, and what the audits retain.
MeritKept ==
    /\ Resting /\ ~cfg.feedback => ~Below(entry.merit, CodeMerit(shown))
    /\ (PrimalPhase \/ DualPhase) /\ ~cfg.feedback =>
         /\ base.merit = CodeMerit(DeviceReading(base.at))
         /\ ~Below(entry.merit, base.merit)

AuditKept ==
    /\ inc # NoPoint => Whole(AuditReading(inc))
    /\ pc \notin {"finish", "done"} => inc = entry.inc

LEMMA ConcludeKeepsMerit ==
    ASSUME base.at \in Point, base.merit = CodeMerit(DeviceReading(base.at)),
           NEW e \in Component, ~Below(e, base.merit),
           NEW trials, \A i \in DOMAIN trials : trials[i] \in Point,
           Conclude(trials)
    PROVE  ~Below(e, CodeMerit(shown)')
<1>1. shown' = DeviceReading(BestTrial(trials))
  BY DEF Conclude, DeviceReading
<1>2. BestTrial(trials) \in Point
  BY BestTrialFacts
<1>3. CodeMerit(shown)' = CodeMerit(DeviceReading(BestTrial(trials)))
  BY <1>1 DEF CodeMerit
<1>4. CodeMerit(DeviceReading(BestTrial(trials))) \in Component /\ base.merit \in Component
  BY <1>2, ReadingTypes, MeritType
<1>5. CASE Improving(trials) = {}
  BY <1>3, <1>5, BestTrialFacts
<1>6. CASE Improving(trials) # {}
  BY <1>3, <1>4, <1>6, BestTrialFacts, BelowChain
<1> QED
  BY <1>5, <1>6

(***************************************************************************)
(* Polishing never raises the merit; with feedback no returned point is    *)
(* worse in its audit than the incumbent polishing began with.             *)
(***************************************************************************)
THEOREM PolishNeverWorsens == Spec => []NeverWorse
<1> DEFINE Inv == NeverWorse /\ MeritKept /\ AuditKept
<1>1. Init => Inv
  BY DEF Init, NeverWorse, MeritKept, AuditKept, Resting, PrimalPhase, DualPhase
<1>2. FpTypeOK /\ PhaseLocals /\ RestoredAtRest /\ Inv /\ [Next]_vars => Inv'
  <2> SUFFICES ASSUME FpTypeOK, PhaseLocals, RestoredAtRest, NeverWorse, MeritKept,
                      AuditKept, [Next]_vars
               PROVE  NeverWorse' /\ MeritKept' /\ AuditKept'
    OBVIOUS
  <2>1. CASE Finish
    <3> DEFINE p == IF status = "LIMIT" /\ saved # NoPoint THEN saved ELSE point
    <3>1. p \in Point /\ Feedback(p)
      BY <2>1 DEF Finish, FpTypeOK
    <3>2. inc' # NoPoint => Whole(AuditReading(inc))'
      BY <3>1 DEF Feedback, ImprovesAudit, AuditKept, AuditReading
    <3>3. pc' = "primal" /\ entry'.inc = inc' /\ entry'.merit = CodeMerit(shown)'
      BY <2>1 DEF Finish, CodeMerit
    <3>4. ~Below(entry'.merit, CodeMerit(shown)')
      <4>1. shown' \in Parts
        BY <3>1, FeedbackType DEF FpTypeOK
      <4>2. CodeMerit(shown)' \in Component
        BY <4>1, MeritType DEF CodeMerit
      <4> QED
        BY <3>3, <4>2, FeasPolishAssumption DEF Below, Component
    <3> QED
      BY <3>2, <3>3, <3>4
         DEF NeverWorse, MeritKept, AuditKept, Resting, PrimalPhase, DualPhase, Below
  <2>2. CASE SkipPrimal \/ SkipDual \/ LeavePrimal \/ LeaveDual \/ Expire
    BY <2>2 DEF SkipPrimal, SkipDual, LeavePrimal, LeaveDual, Expire, NeverWorse,
       MeritKept, AuditKept, Resting, PrimalPhase, DualPhase, counters, iterate, phase,
       CodeMerit, DeviceReading, AuditReading
  <2>3. CASE StartPrimal \/ StartDual
    <3>1. Resting /\ UNCHANGED <<cfg, entry, inc>>
      BY <2>3 DEF StartPrimal, StartDual, Resting
    <3>2. ~cfg.feedback => shown = DeviceReading(point)
      BY <3>1 DEF RestoredAtRest
    <3>3. base'.at = point /\ base'.merit = CodeMerit(shown)
      BY <2>3 DEF StartPrimal, StartDual, Start
    <3>4. ~cfg.feedback => /\ base'.merit = CodeMerit(DeviceReading(base.at))'
                           /\ ~Below(entry.merit, base'.merit)
      BY <3>1, <3>2, <3>3 DEF MeritKept, CodeMerit, DeviceReading
    <3>5. pc' \in {"primalLoop", "dualLoop"} /\ pc \in {"primal", "dual"}
      BY <2>3 DEF StartPrimal, StartDual
    <3> QED
      BY <3>1, <3>4, <3>5 DEF NeverWorse, MeritKept, AuditKept, Resting,
         PrimalPhase, DualPhase, AuditReading, Below
  <2>4. CASE PrimalBlock \/ DualBlock
    BY <2>4 DEF PrimalBlock, DualBlock, NeverWorse, MeritKept, AuditKept, Resting,
       PrimalPhase, DualPhase, CodeMerit, DeviceReading, AuditReading
  <2>5. CASE BlendPrimal
    <3>1. base.at \in Point /\ polished \in Primals
      BY <2>5 DEF BlendPrimal, PhaseLocals, PrimalPhase, DualPhase
    <3>2. \A i \in DOMAIN PrimalTrials : PrimalTrials[i] \in Point
      BY <3>1, PrimalTrialsType
    <3>3. Conclude(PrimalTrials) /\ UNCHANGED <<cfg, inc, entry>>
      BY <2>5 DEF BlendPrimal
    <3>4. entry.merit \in Component
      BY <2>5 DEF BlendPrimal, PhaseLocals, Entries
    <3> HIDE DEF PrimalTrials
    <3>5. ~cfg.feedback => ~Below(entry.merit, CodeMerit(shown)')
      <4>1. ~cfg.feedback => /\ base.merit = CodeMerit(DeviceReading(base.at))
                             /\ ~Below(entry.merit, base.merit)
        BY <2>5 DEF BlendPrimal, MeritKept, PrimalPhase, DualPhase
      <4> QED
        BY <3>1, <3>2, <3>3, <3>4, <4>1, ConcludeKeepsMerit
    <3>6. pc = "primalBlend" /\ pc' = "dual"
      BY <2>5 DEF BlendPrimal
    <3> QED
      BY <3>3, <3>5, <3>6 DEF NeverWorse, MeritKept, AuditKept, Resting,
         PrimalPhase, DualPhase, AuditReading, Below
  <2>6. CASE BlendDual
    <3>1. base.at \in Point /\ polished \in Duals
      BY <2>6 DEF BlendDual, PhaseLocals, PrimalPhase, DualPhase
    <3>2. \A i \in DOMAIN DualTrials : DualTrials[i] \in Point
      BY <3>1, DualTrialsType
    <3>3. Conclude(DualTrials) /\ UNCHANGED <<cfg, inc, entry>>
      BY <2>6 DEF BlendDual
    <3>4. entry.merit \in Component
      BY <2>6 DEF BlendDual, PhaseLocals, Entries
    <3> HIDE DEF DualTrials
    <3>5. ~cfg.feedback => ~Below(entry.merit, CodeMerit(shown)')
      <4>1. ~cfg.feedback => /\ base.merit = CodeMerit(DeviceReading(base.at))
                             /\ ~Below(entry.merit, base.merit)
        BY <2>6 DEF BlendDual, MeritKept, PrimalPhase, DualPhase
      <4> QED
        BY <3>1, <3>2, <3>3, <3>4, <4>1, ConcludeKeepsMerit
    <3>6. pc = "dualBlend" /\ pc' = "audit"
      BY <2>6 DEF BlendDual
    <3> QED
      BY <3>3, <3>5, <3>6 DEF NeverWorse, MeritKept, AuditKept, Resting,
         PrimalPhase, DualPhase, AuditReading, Below
  <2>7. CASE FinalFeedback
    <3>1. pc = "audit" /\ pc' = "done" /\ UNCHANGED <<cfg, entry>>
      BY <2>7 DEF FinalFeedback
    <3>2. CASE ~cfg.feedback
      BY <2>7, <3>1, <3>2 DEF FinalFeedback, NeverWorse, MeritKept, AuditKept, Resting,
         PrimalPhase, DualPhase, CodeMerit, AuditReading
    <3>3. CASE cfg.feedback
      <4>1. Feedback(point) /\ point \in Point /\ inc \in Point \cup {NoPoint}
        BY <2>7, <3>3 DEF FinalFeedback, FpTypeOK
      <4>2. inc = entry.inc
        BY <3>1 DEF AuditKept
      <4>3. inc' # NoPoint => Whole(AuditReading(inc))'
        BY <4>1 DEF Feedback, ImprovesAudit, AuditKept, AuditReading
      <4>4. ASSUME inc # NoPoint
            PROVE  /\ Whole(AuditReading(point)')
                   /\ ~BetterAudit(AuditReading(inc), AuditReading(point)')
        <5>1. inc \in Point /\ Whole(AuditReading(inc)) /\ AuditReading(inc) \in Metric
          BY <4>1, <4>4, ReadingTypes, WholeIsMetric DEF AuditKept
        <5>2. CASE ImprovesAudit(point)
          <6>1. /\ point' = point /\ Whole(AuditReading(point))
                /\ BetterAudit(AuditReading(point), AuditReading(inc))
            BY <3>3, <4>1, <4>4, <5>2 DEF Feedback, Preferred, ImprovesAudit
          <6>2. AuditReading(point) \in Metric
            BY <4>1, <6>1, ReadingTypes, WholeIsMetric
          <6>3. AuditReading(point)' = AuditReading(point)
            BY <6>1 DEF AuditReading
          <6> QED
            BY <5>1, <6>1, <6>2, <6>3, BetterAuditIsStrict
        <5>3. CASE ~ImprovesAudit(point)
          <6>1. point' = inc
            BY <3>3, <4>1, <4>4, <5>3 DEF Feedback, Preferred
          <6>2. AuditReading(point)' = AuditReading(inc)
            BY <6>1 DEF AuditReading
          <6> QED
            BY <5>1, <6>2, BetterAuditIrreflexive
        <5> QED
          BY <5>2, <5>3
      <4>5. AuditReading(entry.inc)' = AuditReading(inc)
        BY <3>1, <4>2 DEF AuditReading
      <4> QED
        BY <3>1, <3>3, <4>2, <4>3, <4>4, <4>5 DEF NeverWorse, MeritKept, AuditKept,
           Resting, PrimalPhase, DualPhase, Whole
    <3> QED
      BY <3>2, <3>3
  <2>8. CASE UNCHANGED vars
    BY <2>8 DEF vars, NeverWorse, MeritKept, AuditKept, Resting, PrimalPhase, DualPhase,
       counters, iterate, phase, CodeMerit, DeviceReading, AuditReading
  <2> QED
    BY <2>1, <2>2, <2>3, <2>4, <2>5, <2>6, <2>7, <2>8 DEF Next, Step, Done
<1> QED
  BY <1>1, <1>2, FeasTypeCorrect, PolishRestores, PTL DEF Spec

------------------------------------------------------------------------------
(* --------------------------------- an OPTIMAL the loop has declared *)
\* One tolerance for residuals and gap, below where gaps carry no order.
OneTolerance == FeasTol = OptTol /\ OptTol <= SatFloor

\* Where OPTIMAL rests on: a reading that passes at the point in place, the
\* baseline of the phase or the audited incumbent; and no residual that is
\* not a number is taken for a phase's best.
OptimalKept ==
    /\ inc # NoPoint => Whole(AuditReading(inc))
    /\ pc = "finish" =>
         /\ status = "OPTIMAL" /\ cfg.feedback => ~ImprovesAudit(point)
         /\ status = "OPTIMAL" => Passes(IF cfg.feedback THEN AuditReading(point)
                                         ELSE DeviceReading(point))
    /\ pc # "finish" /\ cfg.feedback /\ entry.status = "OPTIMAL" =>
         inc # NoPoint /\ Passes(AuditReading(inc))
    /\ pc = "done" /\ cfg.feedback /\ entry.status = "OPTIMAL" => Passes(shown)
    /\ Resting /\ ~cfg.feedback /\ status = "OPTIMAL" => Passes(shown)
    /\ (PrimalPhase \/ DualPhase) /\ ~cfg.feedback /\ base.status = "OPTIMAL" =>
         /\ base.merit = CodeMerit(DeviceReading(base.at))
         /\ Passes(DeviceReading(base.at))
         /\ PrimalPhase => Device[polished][base.at.d].primal # NaN
         /\ DualPhase => Device[base.at.x][polished].dual # NaN

\* With one tolerance the merit decides: below one that passes, all pass.
LEMMA LowerMeritPasses ==
    ASSUME OneTolerance, NEW m \in Parts, NEW b \in Parts, Whole(m), Passes(b),
           Below(CodeMerit(m), CodeMerit(b))
    PROVE  Passes(m)
<1>1. m \in Metric /\ b \in Metric /\ Whole(b)
  BY WholeIsMetric DEF Passes
<1>2. /\ m.primal \in Nat /\ m.dual \in Nat /\ m.gap \in Nat
      /\ b.primal \in Nat /\ b.dual \in Nat /\ b.gap \in Nat
  BY <1>1 DEF Metric
<1>3. FeasTol \in Nat /\ FeasTol = OptTol /\ NaN \notin Nat /\ m # NonFinite
  BY <1>1, MetricsAssumption, FeasPolishAssumption DEF OneTolerance
<1>4. b.primal < FeasTol /\ b.dual < FeasTol /\ b.gap < FeasTol
  BY <1>2, <1>3 DEF Passes, PassesTolerances, Feas, Larger
<1>5. CodeMerit(b) \in Nat /\ CodeMerit(b) < FeasTol
  BY <1>2, <1>3, <1>4 DEF CodeMerit, StdMax, Below
<1>6. /\ CodeMerit(m) \in Nat
      /\ m.primal <= CodeMerit(m) /\ m.dual <= CodeMerit(m) /\ m.gap <= CodeMerit(m)
  BY <1>2, <1>3 DEF CodeMerit, StdMax, Below
<1>7. m.primal < FeasTol /\ m.dual < FeasTol /\ m.gap < FeasTol
  BY <1>2, <1>3, <1>5, <1>6 DEF Below
<1> QED
  BY <1>2, <1>3, <1>7 DEF Passes, PassesTolerances, Feas, Larger, IsFinite

LEMMA ProductOrder ==
    ASSUME NEW a \in Nat, NEW b \in Nat, NEW t \in Nat, a < b, 0 < t
    PROVE  a * t < b * t
  OBVIOUS

\* The audits too: what does not lose to a reading that passes, passes.
LEMMA UnbeatenAuditPasses ==
    ASSUME OneTolerance, NEW m \in Parts, NEW b \in Parts, Whole(m), Passes(b),
           ~BetterAudit(b, m)
    PROVE  Passes(m)
<1>1. m \in Metric /\ b \in Metric /\ Whole(b) /\ m # NonFinite
  BY WholeIsMetric, MetricsAssumption DEF Passes
<1>2. /\ Feas(m) \in Nat /\ m.gap \in Nat /\ Feas(b) \in Nat /\ b.gap \in Nat
      /\ Merit(m) \in Nat /\ Merit(b) \in Nat
  BY <1>1, MeritNat DEF Metric
<1>3. PICK t \in Nat : t = FeasTol /\ t = OptTol /\ t <= SatFloor
  BY MetricsAssumption DEF OneTolerance
<1>4. Feas(b) < t /\ b.gap < t /\ 0 < t
  BY <1>2, <1>3 DEF Passes, PassesTolerances
<1>5. Merit(m) <= Merit(b)
  <2>1. ~(b.gap >= SatFloor)
    BY <1>2, <1>3, <1>4, MetricsAssumption
  <2> QED
    BY <1>2, <2>1 DEF BetterAudit
<1>6. /\ Merit(m) = Larger(Feas(m) * t, m.gap * t)
      /\ Merit(b) = Larger(Feas(b) * t, b.gap * t)
  BY <1>3 DEF Merit
<1>7. Merit(b) < t * t
  <2>1. Feas(b) * t < t * t /\ b.gap * t < t * t
    BY <1>2, <1>4, ProductOrder
  <2> QED
    BY <1>6, <2>1 DEF Larger
<1>8. ASSUME NEW v \in Nat, v * t <= Merit(m), t <= v
      PROVE  FALSE
  <2>1. v * t >= t * t
    <3>1. CASE t = v
      BY <3>1
    <3>2. CASE t < v
      BY <1>4, <3>2, ProductOrder
    <3> QED
      BY <1>8, <3>1, <3>2
  <2>2. v * t \in Nat /\ t * t \in Nat
    OBVIOUS
  <2> QED
    BY <1>2, <1>5, <1>7, <1>8, <2>1, <2>2
<1>9. Feas(m) * t <= Merit(m) /\ m.gap * t <= Merit(m)
  <2>1. Feas(m) * t \in Nat /\ m.gap * t \in Nat
    BY <1>2
  <2> QED
    BY <1>6, <2>1 DEF Larger
<1>10. Feas(m) < t /\ m.gap < t
  <2>1. Feas(m) < t
    BY <1>2, <1>8, <1>9
  <2>2. m.gap < t
    BY <1>2, <1>8, <1>9
  <2> QED
    BY <2>1, <2>2
<1> QED
  BY <1>1, <1>3, <1>10 DEF Passes, PassesTolerances, IsFinite

\* A phase over a baseline that passes ends on a reading that passes.
LEMMA ConcludeKeepsOptimal ==
    ASSUME OneTolerance, base.at \in Point, base.merit = CodeMerit(DeviceReading(base.at)),
           Passes(DeviceReading(base.at)), NEW trials,
           \A i \in DOMAIN trials : trials[i] \in Point /\ Whole(DeviceReading(trials[i])),
           Conclude(trials)
    PROVE  Passes(DeviceReading(BestTrial(trials)))
<1>1. CASE Improving(trials) = {}
  BY <1>1, BestTrialFacts
<1>2. CASE Improving(trials) # {}
  <2>1. PICK i \in DOMAIN trials : BestTrial(trials) = trials[i]
    BY <1>2, BestTrialFacts
  <2>2. Below(CodeMerit(DeviceReading(trials[i])), CodeMerit(DeviceReading(base.at)))
    BY <1>2, <2>1, BestTrialFacts
  <2>3. DeviceReading(trials[i]) \in Parts /\ DeviceReading(base.at) \in Parts
    BY ReadingTypes
  <2> QED
    BY <2>1, <2>2, <2>3, LowerMeritPasses
<1> QED
  BY <1>1, <1>2

LEMMA PrimalTrialsWhole ==
    ASSUME SegmentsWhole, base.at \in Point, polished \in Primals,
           Passes(DeviceReading(base.at)), Device[polished][base.at.d].primal # NaN
    PROVE  \A i \in DOMAIN PrimalTrials : Whole(DeviceReading(PrimalTrials[i]))
<1> DEFINE path == XPath[base.at.x][polished]
<1>1. base.at.x \in Primals /\ base.at.d \in Duals /\ Whole(Device[base.at.x][base.at.d])
  BY DEF Point, Passes, DeviceReading
<1>2. \A i \in DOMAIN path : Whole(Device[path[i]][base.at.d])
  BY <1>1 DEF SegmentsWhole
<1>3. \A i \in DOMAIN path : LET p == [base.at EXCEPT !.x = path[i]]
                             IN  p.x = path[i] /\ p.d = base.at.d
  BY DEF Point
<1>4. PrimalTrials = [i \in DOMAIN path |-> [base.at EXCEPT !.x = path[i]]]
  BY DEF PrimalTrials
<1> HIDE DEF path
<1> QED
  BY <1>2, <1>3, <1>4 DEF DeviceReading

LEMMA DualTrialsWhole ==
    ASSUME SegmentsWhole, base.at \in Point, polished \in Duals,
           Passes(DeviceReading(base.at)), Device[base.at.x][polished].dual # NaN
    PROVE  \A i \in DOMAIN DualTrials : Whole(DeviceReading(DualTrials[i]))
<1> DEFINE path == DPath[base.at.d][polished]
<1>1. base.at.x \in Primals /\ base.at.d \in Duals /\ Whole(Device[base.at.x][base.at.d])
  BY DEF Point, Passes, DeviceReading
<1>2. \A i \in DOMAIN path : Whole(Device[base.at.x][path[i]])
  BY <1>1 DEF SegmentsWhole
<1>3. \A i \in DOMAIN path : LET p == [base.at EXCEPT !.d = path[i]]
                             IN  p.d = path[i] /\ p.x = base.at.x
  BY DEF Point
<1>4. DualTrials = [i \in DOMAIN path |-> [base.at EXCEPT !.d = path[i]]]
  BY DEF DualTrials
<1> HIDE DEF path
<1> QED
  BY <1>2, <1>3, <1>4 DEF DeviceReading

\* With the feedback on, an incumbent that passes is followed by one that does.
LEMMA FeedbackKeepsOptimal ==
    ASSUME OneTolerance, inc \in Point, Passes(AuditReading(inc)), NEW p \in Point,
           Feedback(p), cfg.feedback
    PROVE  /\ inc' \in Point /\ Passes(AuditReading(inc))' /\ Passes(shown)'
<1>0. inc # NoPoint
  BY FeasPolishAssumption
<1>1. CASE ImprovesAudit(p)
  <2>1. point' = p /\ inc' = p /\ shown' = AuditReading(point')
    BY <1>1 DEF Feedback, Preferred
  <2>2. Whole(AuditReading(p)) /\ BetterAudit(AuditReading(p), AuditReading(inc))
    BY <1>0, <1>1 DEF ImprovesAudit
  <2>3. AuditReading(p) \in Metric /\ AuditReading(inc) \in Metric
        /\ AuditReading(p) \in Parts /\ AuditReading(inc) \in Parts
    BY <2>2, ReadingTypes, WholeIsMetric DEF Passes
  <2>4. ~BetterAudit(AuditReading(inc), AuditReading(p))
    BY <2>2, <2>3, BetterAuditIsStrict
  <2>5. Passes(AuditReading(p))
    BY <2>2, <2>3, <2>4, UnbeatenAuditPasses
  <2>6. shown' = AuditReading(p) /\ AuditReading(inc)' = AuditReading(p)
    BY <2>1 DEF AuditReading
  <2> QED
    BY <2>1, <2>5, <2>6 DEF Passes, PassesTolerances, Whole, Feas, IsFinite
<1>2. CASE ~ImprovesAudit(p)
  <2>1. point' = inc /\ inc' = inc /\ shown' = AuditReading(point')
    BY <1>0, <1>2 DEF Feedback, Preferred
  <2>2. shown' = AuditReading(inc) /\ AuditReading(inc)' = AuditReading(inc)
    BY <2>1 DEF AuditReading
  <2> QED
    BY <2>1, <2>2 DEF Passes, PassesTolerances, Whole, Feas, IsFinite
<1> QED
  BY <1>1, <1>2

LEMMA FinishOptimal ==
    ASSUME OneTolerance, FpTypeOK, OptimalKept, Finish
    PROVE  OptimalKept'
<1> DEFINE p == IF status = "LIMIT" /\ saved # NoPoint THEN saved ELSE point
<1>1. /\ pc = "finish" /\ pc' = "primal" /\ UNCHANGED <<cfg, status>>
      /\ p \in Point /\ Feedback(p) /\ entry'.status = status
  BY DEF Finish, FpTypeOK
<1>2. inc' # NoPoint => Whole(AuditReading(inc))'
  BY <1>1 DEF Feedback, ImprovesAudit, OptimalKept, AuditReading
<1>3. ASSUME status = "OPTIMAL", cfg.feedback
      PROVE  inc' # NoPoint /\ Passes(AuditReading(inc))'
  <2>1. p = point /\ ~ImprovesAudit(point) /\ Passes(AuditReading(point)) /\ point \in Point
    BY <1>1, <1>3 DEF OptimalKept, FpTypeOK
  <2>2. inc \in Point
    BY <2>1 DEF ImprovesAudit, Passes, FpTypeOK
  <2>3. ~BetterAudit(AuditReading(point), AuditReading(inc)) /\ Whole(AuditReading(inc))
    BY <2>1, <2>2, FeasPolishAssumption DEF ImprovesAudit, Passes, OptimalKept
  <2>4. Passes(AuditReading(inc))
    BY <2>1, <2>2, <2>3, ReadingTypes, UnbeatenAuditPasses
  <2>5. inc' = inc
    BY <1>1, <2>1 DEF Feedback
  <2>6. AuditReading(inc)' = AuditReading(inc)
    BY <2>5 DEF AuditReading
  <2> QED
    BY <2>2, <2>4, <2>5, <2>6, FeasPolishAssumption
       DEF Passes, PassesTolerances, Whole, Feas, IsFinite
<1>4. ASSUME status = "OPTIMAL", ~cfg.feedback
      PROVE  Passes(shown)'
  <2>1. p = point /\ Passes(DeviceReading(point))
    BY <1>1, <1>4 DEF OptimalKept
  <2>2. shown' = DeviceReading(point)
    BY <1>1, <1>4, <2>1 DEF Feedback
  <2> QED
    BY <2>1, <2>2 DEF Passes, PassesTolerances, Whole, Feas, IsFinite
<1> HIDE DEF p
<1> QED
  BY <1>1, <1>2, <1>3, <1>4 DEF OptimalKept, Resting, PrimalPhase, DualPhase

LEMMA StartOptimal ==
    ASSUME RestoredAtRest, OptimalKept, StartPrimal \/ StartDual
    PROVE  OptimalKept'
<1>1. /\ pc \in {"primal", "dual"} /\ pc' \in {"primalLoop", "dualLoop"}
      /\ UNCHANGED <<cfg, inc, entry>>
      /\ base'.at = point /\ base'.merit = CodeMerit(shown) /\ base'.status = status
  BY DEF StartPrimal, StartDual, Start
<1>2. inc' # NoPoint => Whole(AuditReading(inc))'
  BY <1>1 DEF OptimalKept, AuditReading
<1>3. cfg.feedback /\ entry.status = "OPTIMAL" => inc # NoPoint /\ Passes(AuditReading(inc))'
  BY <1>1 DEF OptimalKept, AuditReading, Passes, PassesTolerances, Whole, Feas, IsFinite
<1>4. ASSUME ~cfg.feedback, status = "OPTIMAL"
      PROVE  /\ base'.merit = CodeMerit(DeviceReading(base.at))'
             /\ Passes(DeviceReading(base.at))'
             /\ pc' = "primalLoop" => Device[polished'][base'.at.d].primal # NaN
             /\ pc' = "dualLoop" => Device[base'.at.x][polished'].dual # NaN
  <2>1. shown = DeviceReading(point) /\ Passes(shown)
    BY <1>1, <1>4 DEF RestoredAtRest, OptimalKept, Resting
  <2>2. DeviceReading(base.at)' = shown
    BY <1>1, <2>1 DEF DeviceReading
  <2>3. Passes(DeviceReading(base.at))'
    BY <2>1, <2>2 DEF Passes, PassesTolerances, Whole, Feas, IsFinite
  <2>4. base'.merit = CodeMerit(DeviceReading(base.at))'
    BY <1>1, <2>2 DEF CodeMerit
  <2>5. shown.primal # NaN /\ shown.dual # NaN
    BY <2>1 DEF Passes, Whole
  <2>6. pc' = "primalLoop" => polished' = point.x
    BY DEF StartPrimal, StartDual, Start
  <2>7. pc' = "dualLoop" => polished' = point.d
    BY DEF StartPrimal, StartDual, Start
  <2> QED
    BY <1>1, <2>1, <2>3, <2>4, <2>5, <2>6, <2>7 DEF DeviceReading
<1> QED
  BY <1>1, <1>2, <1>3, <1>4 DEF OptimalKept, Resting, PrimalPhase, DualPhase

\* A block takes a vector for its best only when its residual is a number.
LEMMA BlockOptimal ==
    ASSUME FpTypeOK, PhaseLocals, OptimalKept, PrimalBlock \/ DualBlock
    PROVE  OptimalKept'
<1>1. /\ pc \in {"primalLoop", "dualLoop"} /\ UNCHANGED <<cfg, inc, entry, base>>
      /\ pc = "primalLoop" => pc' \in {"primalLoop", "primalBlend"}
      /\ pc = "dualLoop" => pc' \in {"dualLoop", "dualBlend"}
      /\ point' \in Point /\ base.at \in Point /\ shown \in Parts
  BY DEF PrimalBlock, DualBlock, FpTypeOK, PhaseLocals, PrimalPhase, DualPhase
<1>2. inc' # NoPoint => Whole(AuditReading(inc))'
  BY <1>1 DEF OptimalKept, AuditReading
<1>3. cfg.feedback /\ entry.status = "OPTIMAL" => inc # NoPoint /\ Passes(AuditReading(inc))'
  BY <1>1 DEF OptimalKept, AuditReading, Passes, PassesTolerances, Whole, Feas, IsFinite
<1>4. ASSUME ~cfg.feedback, base.status = "OPTIMAL"
      PROVE  /\ base'.merit = CodeMerit(DeviceReading(base.at))'
             /\ Passes(DeviceReading(base.at))'
  <2>1. DeviceReading(base.at)' = DeviceReading(base.at)
    BY <1>1 DEF DeviceReading
  <2> QED
    BY <1>1, <1>4, <2>1 DEF OptimalKept, PrimalPhase, DualPhase, CodeMerit,
       Passes, PassesTolerances, Whole, Feas, IsFinite
<1>5. ASSUME PrimalBlock, Device[polished][base.at.d].primal # NaN
      PROVE  Device[polished'][base'.at.d].primal # NaN
  <2> DEFINE r == Device[point'.x][base.at.d].primal
  <2>1. shown'.primal = r
    BY <1>1, <1>5 DEF PrimalBlock, Parts
  <2>2. polished' = IF Below(r, bestRes) THEN point'.x ELSE polished
    BY <1>5, <2>1 DEF PrimalBlock, AfterBlock
  <2> QED
    BY <1>1, <1>5, <2>2 DEF Below
<1>6. ASSUME DualBlock, Device[base.at.x][polished].dual # NaN
      PROVE  Device[base'.at.x][polished'].dual # NaN
  <2> DEFINE r == Device[base.at.x][point'.d].dual
  <2>1. shown'.dual = r
    BY <1>1, <1>6 DEF DualBlock, Parts
  <2>2. polished' = IF Below(r, bestRes) THEN point'.d ELSE polished
    BY <1>6, <2>1 DEF DualBlock, AfterBlock
  <2> QED
    BY <1>1, <1>6, <2>2 DEF Below
<1>7. /\ PrimalBlock => pc = "primalLoop"
      /\ DualBlock => pc = "dualLoop"
  BY DEF PrimalBlock, DualBlock
<1> QED
  BY <1>1, <1>2, <1>3, <1>4, <1>5, <1>6, <1>7 DEF OptimalKept, Resting, PrimalPhase, DualPhase

\* A phase that ends OPTIMAL ends on a reading that passes, whether it says
\* so itself or found it said.
LEMMA ConcludeOptimal ==
    ASSUME OneTolerance, base.at \in Point, NEW trials,
           \A i \in DOMAIN trials : trials[i] \in Point, Conclude(trials),
           base.status = "OPTIMAL" =>
              /\ base.merit = CodeMerit(DeviceReading(base.at))
              /\ Passes(DeviceReading(base.at))
              /\ \A i \in DOMAIN trials : Whole(DeviceReading(trials[i])),
           status' = "OPTIMAL"
    PROVE  Passes(shown)'
<1>1. shown' = DeviceReading(BestTrial(trials))
  BY DEF Conclude, DeviceReading
<1>2. CASE base.status = "OPTIMAL"
  <2>1. Passes(DeviceReading(BestTrial(trials)))
    BY <1>2, ConcludeKeepsOptimal
  <2> QED
    BY <1>1, <2>1 DEF Passes, PassesTolerances, Whole, Feas, IsFinite
<1>3. CASE base.status # "OPTIMAL"
  <2>1. Passes(shown')
    BY <1>3 DEF Conclude
  <2> QED
    BY <2>1 DEF Passes, PassesTolerances, Whole, Feas, IsFinite
<1> QED
  BY <1>2, <1>3

LEMMA BlendOptimal ==
    ASSUME OneTolerance, SegmentsWhole, FpTypeOK, PhaseLocals, OptimalKept,
           BlendPrimal \/ BlendDual
    PROVE  OptimalKept'
<1>1. /\ \/ pc = "primalBlend" /\ pc' = "dual"
         \/ pc = "dualBlend" /\ pc' = "audit"
      /\ UNCHANGED <<cfg, inc, entry>>
  BY DEF BlendPrimal, BlendDual
<1>2. inc' # NoPoint => Whole(AuditReading(inc))'
  BY <1>1 DEF OptimalKept, AuditReading
<1>3. cfg.feedback /\ entry.status = "OPTIMAL" => inc # NoPoint /\ Passes(AuditReading(inc))'
  BY <1>1 DEF OptimalKept, AuditReading, Passes, PassesTolerances, Whole, Feas, IsFinite
<1>4. ASSUME ~cfg.feedback, base.status = "OPTIMAL"
      PROVE  base.merit = CodeMerit(DeviceReading(base.at)) /\ Passes(DeviceReading(base.at))
  BY <1>1, <1>4 DEF OptimalKept, PrimalPhase, DualPhase
<1>5. ASSUME BlendPrimal, ~cfg.feedback, status' = "OPTIMAL"
      PROVE  Passes(shown)'
  <2>1. pc = "primalBlend" /\ Conclude(PrimalTrials)
    BY <1>5 DEF BlendPrimal
  <2>2. base.at \in Point /\ polished \in Primals
    BY <2>1 DEF PhaseLocals, PrimalPhase, DualPhase
  <2>3. \A i \in DOMAIN PrimalTrials : PrimalTrials[i] \in Point
    BY <2>2, PrimalTrialsType
  <2>4. base.status = "OPTIMAL" => \A i \in DOMAIN PrimalTrials : Whole(DeviceReading(PrimalTrials[i]))
    <3>1. base.status = "OPTIMAL" => Device[polished][base.at.d].primal # NaN
      BY <1>5, <2>1 DEF OptimalKept, PrimalPhase, DualPhase
    <3> QED
      BY <1>4, <1>5, <2>2, <3>1, PrimalTrialsWhole
  <2> HIDE DEF PrimalTrials
  <2> QED
    BY <1>4, <1>5, <2>1, <2>2, <2>3, <2>4, ConcludeOptimal
<1>6. ASSUME BlendDual, ~cfg.feedback, status' = "OPTIMAL"
      PROVE  Passes(shown)'
  <2>1. pc = "dualBlend" /\ Conclude(DualTrials)
    BY <1>6 DEF BlendDual
  <2>2. base.at \in Point /\ polished \in Duals
    BY <2>1 DEF PhaseLocals, PrimalPhase, DualPhase
  <2>3. \A i \in DOMAIN DualTrials : DualTrials[i] \in Point
    BY <2>2, DualTrialsType
  <2>4. base.status = "OPTIMAL" => \A i \in DOMAIN DualTrials : Whole(DeviceReading(DualTrials[i]))
    <3>1. base.status = "OPTIMAL" => Device[base.at.x][polished].dual # NaN
      BY <1>6, <2>1 DEF OptimalKept, PrimalPhase, DualPhase
    <3> QED
      BY <1>4, <1>6, <2>2, <3>1, DualTrialsWhole
  <2> HIDE DEF DualTrials
  <2> QED
    BY <1>4, <1>6, <2>1, <2>2, <2>3, <2>4, ConcludeOptimal
<1> QED
  BY <1>1, <1>2, <1>3, <1>5, <1>6 DEF OptimalKept, Resting, PrimalPhase, DualPhase

(***************************************************************************)
(* With one tolerance, an OPTIMAL the loop has declared -- and without the *)
(* feedback a phase, too -- describes the point that is returned, for any  *)
(* readings whose segments have no NaN between two ends without one.       *)
(***************************************************************************)
THEOREM PolishKeepsOptimal ==
    ASSUME OneTolerance, SegmentsWhole
    PROVE  Spec => []OptimalMeetsTolerances
<1>1. Init => OptimalKept
  <2> SUFFICES ASSUME Init PROVE OptimalKept
    OBVIOUS
  <2>1. pc = "finish" /\ (inc # NoPoint => Whole(AuditReading(inc)))
    BY DEF Init
  <2>2. status = "OPTIMAL" => Passes(shown) /\ (cfg.feedback => shown = AuditReading(point))
    BY DEF Init
  <2>3. status = "OPTIMAL" /\ cfg.feedback => ~ImprovesAudit(point)
    BY DEF Init
  <2>4. ~cfg.feedback => shown = DeviceReading(point)
    BY DEF Init
  <2> QED
    BY <2>1, <2>2, <2>3, <2>4 DEF OptimalKept, Resting, PrimalPhase, DualPhase
<1>2. FpTypeOK /\ PhaseLocals /\ RestoredAtRest /\ OptimalKept /\ [Next]_vars => OptimalKept'
  <2> SUFFICES ASSUME FpTypeOK, PhaseLocals, RestoredAtRest, OptimalKept, [Next]_vars
               PROVE  OptimalKept'
    OBVIOUS
  <2>1. CASE Finish
    BY <2>1, FinishOptimal
  <2>2. CASE StartPrimal \/ StartDual
    BY <2>2, StartOptimal
  <2>3. CASE PrimalBlock \/ DualBlock
    BY <2>3, BlockOptimal
  <2>4. CASE BlendPrimal \/ BlendDual
    BY <2>4, BlendOptimal
  <2>5. CASE SkipPrimal \/ SkipDual \/ LeavePrimal \/ LeaveDual \/ Expire
    <3>1. CASE SkipPrimal
      BY <3>1 DEF SkipPrimal, OptimalKept, Resting,
         PrimalPhase, DualPhase, counters, iterate, phase, CodeMerit, DeviceReading, AuditReading,
         ImprovesAudit, Passes, PassesTolerances, Whole, Feas, IsFinite
    <3>2. CASE SkipDual
      BY <3>2 DEF SkipDual, OptimalKept, Resting,
         PrimalPhase, DualPhase, counters, iterate, phase, CodeMerit, DeviceReading, AuditReading,
         ImprovesAudit, Passes, PassesTolerances, Whole, Feas, IsFinite
    <3>3. CASE LeavePrimal
      BY <3>3 DEF LeavePrimal, OptimalKept, Resting,
         PrimalPhase, DualPhase, counters, iterate, phase, CodeMerit, DeviceReading, AuditReading,
         ImprovesAudit, Passes, PassesTolerances, Whole, Feas, IsFinite
    <3>4. CASE LeaveDual
      BY <3>4 DEF LeaveDual, OptimalKept, Resting,
         PrimalPhase, DualPhase, counters, iterate, phase, CodeMerit, DeviceReading, AuditReading,
         ImprovesAudit, Passes, PassesTolerances, Whole, Feas, IsFinite
    <3>5. CASE Expire
      BY <3>5 DEF Expire, OptimalKept, Resting,
         PrimalPhase, DualPhase, counters, iterate, phase, CodeMerit, DeviceReading, AuditReading,
         ImprovesAudit, Passes, PassesTolerances, Whole, Feas, IsFinite
    <3> QED
      BY <2>5, <3>1, <3>2, <3>3, <3>4, <3>5
  <2>6. CASE FinalFeedback
    <3>1. pc = "audit" /\ pc' = "done" /\ UNCHANGED <<cfg, status, entry>>
      BY <2>6 DEF FinalFeedback
    <3>2. CASE ~cfg.feedback
      BY <2>6, <3>1, <3>2 DEF FinalFeedback, OptimalKept, Resting, PrimalPhase, DualPhase,
         AuditReading, Passes, PassesTolerances, Whole, Feas, IsFinite
    <3>3. CASE cfg.feedback
      <4>1. Feedback(point) /\ point \in Point /\ inc \in Point \cup {NoPoint}
        BY <2>6, <3>3 DEF FinalFeedback, FpTypeOK
      <4>2. inc' # NoPoint => Whole(AuditReading(inc))'
        BY <4>1 DEF Feedback, ImprovesAudit, OptimalKept, AuditReading
      <4>3. ASSUME entry.status = "OPTIMAL"
            PROVE  inc' # NoPoint /\ Passes(AuditReading(inc))' /\ Passes(shown)'
        <5>1. inc \in Point /\ Passes(AuditReading(inc))
          BY <3>1, <3>3, <4>1, <4>3 DEF OptimalKept
        <5>2. inc' \in Point /\ Passes(AuditReading(inc))' /\ Passes(shown)'
          BY <3>3, <4>1, <5>1, FeedbackKeepsOptimal
        <5> QED
          BY <5>2, FeasPolishAssumption
      <4> QED
        BY <3>1, <3>3, <4>2, <4>3 DEF OptimalKept, Resting, PrimalPhase, DualPhase
    <3> QED
      BY <3>2, <3>3
  <2>7. CASE UNCHANGED vars
    BY <2>7 DEF vars, OptimalKept, Resting, PrimalPhase, DualPhase, counters, iterate,
       phase, CodeMerit, DeviceReading, AuditReading, ImprovesAudit, Passes,
       PassesTolerances, Whole, Feas, IsFinite
  <2> QED
    BY <2>1, <2>2, <2>3, <2>4, <2>5, <2>6, <2>7 DEF Next, Step, Done
<1>3. OptimalKept => OptimalMeetsTolerances
  BY DEF OptimalKept, OptimalMeetsTolerances, Resting
<1> QED
  BY <1>1, <1>2, <1>3, FeasTypeCorrect, PolishRestores, PTL DEF Spec
==============================================================================
