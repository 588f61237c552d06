-------------------------- MODULE SharedLanesProofs ---------------------------
(***************************************************************************)
(* A shared group of any number of lanes, configurations, block and batch  *)
(* lengths: each lane is judged, restarted and stopped as it would be      *)
(* alone, and gets one result.                                             *)
(***************************************************************************)
EXTENDS SharedLanes, FiniteSetTheorems, TLAPS

Judging == {"judge", "test", "restart", "close"}

\* Lanes whose part of the block is still to be counted, the lane in hand,
\* and those done with the block (or between blocks).
Waiting(j) ==
    \/ pc \in {"iterate", "gather"}
    \/ pc = "count" /\ j >= lane
    \/ pc \in Judging /\ j > lane
Judged(j) == pc \in Judging /\ j = lane
Settled(j) == ~Waiting(j) /\ ~Judged(j)

\* Where the block is, and how far it may still take each lane.
BlockInv ==
    /\ pc = "iterate" => k < distance
    /\ pc \in {"gather", "count"} \cup Judging => k > 0 /\ k <= distance
    /\ pc \in Judging => lane \in active
    /\ pc = "plan" => active # {}
    /\ \A j \in active : Waiting(j) =>
          due[j] = Due(total[j], conditional[j]) /\ distance <= due[j]
    /\ \A j \in Lanes : total[j] <= run.limit

\* Lanes leave with a reason, and the loop only leaves lanes behind at limit 0.
LimitInv ==
    /\ OwnLimits
    /\ \A j \in Lanes \ active : status[j] # "UNSPECIFIED"
    /\ \A j \in active : Settled(j) => total[j] < run.limit \/ run.limit = 0
    /\ pc = "leave" => \A j \in active : total[j] >= run.limit

\* The lane's next check alone, as long as it is not being judged.
SoloInv ==
    /\ \A j \in active : ~Judged(j) =>
          hist.next[j] = total[j] + SoloDue(total[j], conditional[j])
    /\ pc \in Judging =>
          /\ total[lane] = hist.next[lane] \/ expired[lane]
          /\ total[lane] <= hist.next[lane]

\* A baseline is missing while a restart waits for it, or before the first.
BaselineInv ==
    /\ \A j \in active : Settled(j) \/ (pc = "iterate" /\ k = 0) =>
          hist.baseline[j] \/ fresh[j] \/ total[j] < run.freq
    /\ \A j \in active : Waiting(j) /\ k > 0 => hist.baseline[j] \/ total[j] < run.freq
    /\ pc \in {"judge", "test", "restart"} => hist.baseline[lane] \/ total[lane] <= run.freq
    /\ pc = "close" => \/ hist.baseline[lane] \/ fresh[lane] \/ total[lane] < run.freq
                       \/ status[lane] # "UNSPECIFIED"

\* Late iterations belong to lanes that are expired, to this block, and to
\* the batch of iterations in progress.
LateInv ==
    /\ LateWithinBatch
    /\ \A j \in Lanes : hist.late[j] > 0 => expired[j]
    /\ \A j \in active : Settled(j) => hist.late[j] = 0
    /\ pc = "iterate" => \A j \in active : hist.late[j] <= k % run.batch

LanesInv == TypeOK /\ BlockInv /\ LimitInv /\ SoloInv /\ BaselineInv /\ LateInv

------------------------------------------------------------------------------
(* Typing.                                                                 *)

LEMMA ConfigFacts ==
    ASSUME TypeOK
    PROVE  /\ run.freq \in Nat \ {0} /\ run.limit \in Nat /\ run.batch \in Nat \ {0}
           /\ run.maxReductions \in Nat /\ run.handoff \in BOOLEAN
           /\ run.feedback \in BOOLEAN /\ run.conditional \in BOOLEAN
           /\ run.native \in BOOLEAN
           /\ NumLanes \in Nat \ {0} /\ Native \in Nat \ {0}
           /\ None \notin Reasons
           /\ \A n \in 0 .. run.limit :
                 LaneStride(n) \in Nat \ {0} /\ ConditionalEvaluationInterval(n) \in Nat \ {0}
<1>1. run \in Configs /\ IsConfig(run)
  BY LanesAssumption DEF TypeOK
<1>2. None \notin Reasons
  BY LanesAssumption
<1>3. \A n \in 0 .. run.limit :
         LaneStride(n) \in Nat \ {0} /\ ConditionalEvaluationInterval(n) \in Nat \ {0}
  BY <1>1, StridesAssumption
<1> QED
  BY <1>1, <1>2, <1>3, LanesAssumption DEF IsConfig

\* The distance to a lane's next evaluation, for any positive stride.
LEMMA WithinFacts ==
    ASSUME TypeOK, NEW n \in 0 .. run.limit, NEW e \in BOOLEAN, NEW st \in Nat \ {0}
    PROVE  /\ Within(n, e, st) \in Nat
           /\ Within(n, e, st) <= run.limit - n
           /\ Within(n, e, st) <= run.freq - (n % run.freq)
           /\ e => Within(n, e, st) <= st - (n % st)
           /\ n < run.limit => Within(n, e, st) > 0
<1>1. run.freq \in Nat \ {0} /\ run.limit \in Nat
  BY ConfigFacts
<1>2. n % run.freq \in 0 .. run.freq - 1 /\ n % st \in 0 .. st - 1
  BY <1>1
<1> QED
  BY <1>1, <1>2 DEF Within, Least

LEMMA DueFacts ==
    ASSUME TypeOK, NEW n \in 0 .. run.limit, NEW e \in BOOLEAN
    PROVE  /\ Due(n, e) \in Nat /\ SoloDue(n, e) \in Nat
           /\ Due(n, e) <= run.limit - n
           /\ Due(n, e) <= run.freq - (n % run.freq)
           /\ n < run.limit => Due(n, e) > 0
BY ConfigFacts, WithinFacts DEF Due, SoloDue

\* Finishing gives results to lanes that have none, and only definite ones.
LEMMA FinishFacts ==
    ASSUME TypeOK, NEW F \in SUBSET Lanes, NEW reason,
           \A j \in F : reason[j] \in Reasons,
           FinishMembers(F, reason)
    PROVE  /\ results' \in [Lanes -> Reasons \cup {None}]
           /\ \A j \in Lanes : results[j] # None => results'[j] = results[j]
           /\ \A j \in F : results'[j] # None
<1>1. PICK r \in [F -> Reasons \cup {"UNSPECIFIED"}] :
        /\ \A j \in F : r[j] \in Outcomes(reason[j])
        /\ results' = [j \in Lanes |-> IF j \in F /\ results[j] = None THEN r[j]
                                       ELSE results[j]]
  BY DEF FinishMembers
<1>2. \A j \in F : r[j] \in Reasons
  BY <1>1 DEF Outcomes, Reasons
<1>3. None \notin Reasons
  BY ConfigFacts
<1> QED
  BY <1>1, <1>2, <1>3 DEF TypeOK

LEMMA InitType == Init => TypeOK
<1> SUFFICES ASSUME Init PROVE TypeOK
  OBVIOUS
<1>1. run \in Configs /\ IsConfig(run) /\ NumLanes \in Nat \ {0}
  BY LanesAssumption DEF Init
<1>2. 0 \in 0 .. run.limit /\ ConditionalEvaluationInterval(0) \in Nat \ {0} /\ run.freq \in Nat \ {0}
  BY <1>1, StridesAssumption DEF IsConfig
<1>3. SoloDue(0, FALSE) \in Int
  BY <1>1, <1>2 DEF SoloDue, Within, Least, IsConfig
<1>4. 1 \in Lanes
  BY <1>1 DEF Lanes
<1>5. hist \in [next : [Lanes -> Int], baseline : [Lanes -> BOOLEAN], late : [Lanes -> Nat]]
  BY <1>3 DEF Init
<1>6. PICK finite \in [Lanes -> BOOLEAN] :
        /\ shown = [j \in Lanes |-> [at |-> 0, finite |-> finite[j], offered |-> TRUE]]
        /\ best = [j \in Lanes |-> IF finite[j] THEN [point |-> 0, of |-> 0] ELSE None]
  BY DEF Init
<1>7. shown \in [Lanes -> Readings] /\ best \in [Lanes -> [point : Nat, of : Nat] \cup {None}]
  BY <1>6 DEF Readings
<1>8. /\ fresh \in [Lanes -> BOOLEAN] /\ conditional \in [Lanes -> BOOLEAN]
      /\ invalid \in [Lanes -> BOOLEAN] /\ expired \in [Lanes -> BOOLEAN]
  BY DEF Init
<1>9. status \in [Lanes -> Reasons \cup {"UNSPECIFIED"}] /\ results \in [Lanes -> Reasons \cup {None}]
  BY DEF Init
<1>10. /\ due \in [Lanes -> Int] /\ total \in [Lanes -> Nat] /\ pdhg \in [Lanes -> Nat]
       /\ reductions \in [Lanes -> Nat]
       /\ k = 0 /\ distance = 0 /\ major = 0 /\ pc = "top" /\ active = Lanes /\ lane \in Lanes
  BY <1>4 DEF Init
<1> QED
  BY <1>1, <1>5, <1>7, <1>8, <1>9, <1>10 DEF TypeOK

LEMMA NextLaneType ==
    ASSUME TypeOK, NextLane
    PROVE  /\ lane' \in Lanes /\ k' \in Nat /\ distance' \in Int /\ major' \in Nat
           /\ due' \in [Lanes -> Int] /\ pc' \in {"count", "top"}
<1>1. /\ lane \in Lanes /\ k \in Nat /\ distance \in Int /\ major \in Nat /\ due \in [Lanes -> Int]
      /\ NumLanes \in Nat \ {0}
  BY ConfigFacts DEF TypeOK
<1>2. CASE lane < NumLanes
  <2>1. lane' = lane + 1 /\ pc' = "count" /\ UNCHANGED <<k, distance, major, due>>
    BY <1>2 DEF NextLane, block
  <2> QED
    BY <1>1, <1>2, <2>1 DEF Lanes
<1>3. CASE ~(lane < NumLanes)
  <2>1. /\ lane' = 1 /\ pc' = "top" /\ k' = 0 /\ distance' = 0 /\ major' = 0
        /\ due' = [j \in Lanes |-> 0]
    BY <1>3 DEF NextLane
  <2> QED
    BY <1>1, <2>1 DEF Lanes
<1> QED
  BY <1>2, <1>3

LEMMA DropExpiredType == TypeOK /\ DropExpired => TypeOK'
<1> SUFFICES ASSUME TypeOK, DropExpired PROVE TypeOK'
  OBVIOUS
<1> DEFINE late == {j \in active : expired[j]}
<1>1. /\ active' = active \ late /\ FinishMembers(late, status')
      /\ status' = [j \in Lanes |-> IF j \in late THEN "TIME_LIMIT" ELSE status[j]]
      /\ pc' \in {"leave", "plan"}
  BY DEF DropExpired
<1>2. late \in SUBSET Lanes /\ active' \subseteq Lanes
  BY <1>1 DEF TypeOK
<1>3. /\ status' \in [Lanes -> Reasons \cup {"UNSPECIFIED"}]
      /\ \A j \in late : status'[j] \in Reasons
  BY <1>1, <1>2 DEF TypeOK, Reasons
<1>4. results' \in [Lanes -> Reasons \cup {None}]
  <2> HIDE DEF late
  <2> QED BY <1>1, <1>2, <1>3, FinishFacts
<1> QED
  BY <1>1, <1>2, <1>3, <1>4 DEF DropExpired, TypeOK, block, evaluation

LEMMA PlanBlockType == TypeOK /\ BlockInv /\ PlanBlock => TypeOK'
<1> SUFFICES ASSUME TypeOK, BlockInv, PlanBlock PROVE TypeOK'
  OBVIOUS
<1>1. \A j \in Lanes : total[j] \in 0 .. run.limit /\ conditional[j] \in BOOLEAN
  BY ConfigFacts DEF TypeOK, BlockInv
<1>2. \A j \in Lanes : Due(total[j], conditional[j]) \in Int
  BY <1>1, DueFacts
<1>3. due' \in [Lanes -> Int] /\ distance' \in Int
  BY <1>2 DEF PlanBlock, TypeOK
<1> QED
  BY <1>3 DEF PlanBlock, TypeOK, outcome, evaluation

\* A dispatch runs at least one iteration, and stays within the block.
LEMMA NativeCountFacts ==
    ASSUME TypeOK, k + 1 < distance
    PROVE  /\ NativeCount \in Nat \ {0} /\ NativeCount <= distance - (k + 1)
           /\ NativeCount <= run.batch - (k % run.batch)
<1>1. run.batch \in Nat \ {0} /\ Native \in Nat \ {0} /\ k \in Nat /\ distance \in Int
  BY ConfigFacts DEF TypeOK
<1>2. k % run.batch \in 0 .. run.batch - 1
  BY <1>1
<1> QED
  BY <1>1, <1>2 DEF NativeCount, Least

LEMMA MeasureType == TypeOK /\ MeasureBaselines => TypeOK'
<1> SUFFICES ASSUME TypeOK, MeasureBaselines PROVE TypeOK'
  OBVIOUS
<1> DEFINE measured == {j \in active : fresh[j]}
<1>1. PICK bad \in SUBSET measured : invalid' = [j \in Lanes |-> invalid[j] \/ j \in bad]
  BY DEF MeasureBaselines
<1>2. /\ fresh' = [j \in Lanes |-> fresh[j] /\ j \notin measured]
      /\ hist' = [hist EXCEPT !.late = Late(1),
                     !.baseline = [j \in Lanes |-> @[j] \/ j \in measured]]
  BY DEF MeasureBaselines
<1>3. invalid' \in [Lanes -> BOOLEAN] /\ fresh' \in [Lanes -> BOOLEAN]
  BY <1>1, <1>2 DEF TypeOK
<1>4. Late(1) \in [Lanes -> Nat]
  BY DEF Late, TypeOK
<1>5. hist' \in [next : [Lanes -> Int], baseline : [Lanes -> BOOLEAN], late : [Lanes -> Nat]]
  BY <1>2, <1>4 DEF TypeOK
<1>6. k' \in Nat /\ major' \in Nat /\ pc' \in {"gather", "iterate"}
  BY DEF MeasureBaselines, Iterate, TypeOK
<1> QED
  BY <1>3, <1>5, <1>6 DEF MeasureBaselines, TypeOK, outcome

LEMMA IterationsType == TypeOK /\ (MinorIterations \/ LastIteration) => TypeOK'
<1> SUFFICES ASSUME TypeOK, MinorIterations \/ LastIteration PROVE TypeOK'
  OBVIOUS
<1>1. /\ k' \in Nat /\ k' - k \in Nat /\ major' \in Nat /\ pc' \in {"gather", "iterate"}
      /\ hist' = [hist EXCEPT !.late = Late(k' - k)]
  <2>1. CASE MinorIterations
    <3> DEFINE c == IF run.native /\ run.batch > 1 THEN NativeCount ELSE 1
    <3>1. Iterate(c, FALSE) /\ hist' = [hist EXCEPT !.late = Late(k' - k)]
      BY <2>1 DEF MinorIterations
    <3>2. c \in Nat \ {0}
      BY <2>1, NativeCountFacts DEF MinorIterations
    <3> HIDE DEF c
    <3>3. k' = k + c /\ major' = major /\ pc' \in {"gather", "iterate"}
      BY <3>1 DEF Iterate
    <3>4. k' \in Nat /\ k' - k = c
      BY <3>2, <3>3 DEF TypeOK
    <3> QED
      BY <3>1, <3>2, <3>3, <3>4 DEF TypeOK
  <2>2. CASE LastIteration
    <3>1. /\ k' = k + 1 /\ major' = k + 1 /\ pc' \in {"gather", "iterate"}
          /\ hist' = [hist EXCEPT !.late = Late(1)]
      BY <2>2 DEF LastIteration, Iterate
    <3>2. k' - k = 1
      BY <3>1 DEF TypeOK
    <3> QED
      BY <3>1, <3>2 DEF TypeOK
  <2> QED
    BY <2>1, <2>2
<1>2. Late(k' - k) \in [Lanes -> Nat]
  BY <1>1 DEF Late, TypeOK
<1>3. hist' \in [next : [Lanes -> Int], baseline : [Lanes -> BOOLEAN], late : [Lanes -> Nat]]
  BY <1>1, <1>2 DEF TypeOK
<1> QED
  BY <1>1, <1>3 DEF MinorIterations, LastIteration, TypeOK, outcome, evaluation

LEMMA GatherType == TypeOK /\ Gather => TypeOK'
<1> SUFFICES ASSUME TypeOK, Gather PROVE TypeOK'
  OBVIOUS
<1>1. pdhg' \in [Lanes -> Nat]
  BY DEF Gather, TypeOK
<1>2. lane' \in Lanes
  BY ConfigFacts DEF Gather, Lanes
<1>3. /\ UNCHANGED <<run, active, status, results, k, due, distance, major, total, fresh>>
      /\ UNCHANGED <<conditional, shown, best, invalid, reductions, expired, hist>>
      /\ pc' = "count"
  BY DEF Gather, outcome, block
<1> QED
  BY <1>1, <1>2, <1>3 DEF TypeOK

LEMMA CountType == TypeOK /\ CountLane => TypeOK'
<1> SUFFICES ASSUME TypeOK, CountLane PROVE TypeOK'
  OBVIOUS
<1>1. total' \in [Lanes -> Nat]
  BY DEF CountLane, TypeOK
<1>2. shown' \in [Lanes -> Readings] /\ invalid' \in [Lanes -> BOOLEAN]
  <2>1. CASE UNCHANGED <<shown, invalid>>
    BY <2>1 DEF TypeOK
  <2>2. CASE \E finite, bad \in BOOLEAN :
               /\ shown' = [shown EXCEPT ![lane] =
                    [at |-> pdhg[lane], finite |-> finite, offered |-> FALSE]]
               /\ invalid' = [invalid EXCEPT ![lane] = @ \/ bad]
    <3>1. PICK finite \in BOOLEAN, bad \in BOOLEAN :
               /\ shown' = [shown EXCEPT ![lane] =
                    [at |-> pdhg[lane], finite |-> finite, offered |-> FALSE]]
               /\ invalid' = [invalid EXCEPT ![lane] = @ \/ bad]
      BY <2>2
    <3>2. shown' \in [Lanes -> Readings]
      BY <3>1 DEF TypeOK, Readings
    <3>3. invalid' \in [Lanes -> BOOLEAN]
      BY <3>1, ZenonT(30) DEF TypeOK
    <3> QED
      BY <3>2, <3>3
  <2> QED
    BY <2>1, <2>2 DEF CountLane
<1>3. /\ lane' \in Lanes /\ k' \in Nat /\ distance' \in Int /\ major' \in Nat
      /\ due' \in [Lanes -> Int] /\ pc' \in {"count", "top", "judge"}
  <2>1. CASE NextLane
    BY <2>1, NextLaneType
  <2>2. CASE pc' = "judge" /\ UNCHANGED <<lane, block>>
    BY <2>2 DEF TypeOK, block
  <2> QED
    BY <2>1, <2>2 DEF CountLane
<1>4. /\ UNCHANGED <<run, active, status, results, fresh, conditional>>
      /\ UNCHANGED <<pdhg, best, reductions, expired, hist>>
  BY DEF CountLane, outcome
<1> QED
  BY <1>1, <1>2, <1>3, <1>4 DEF TypeOK

LEMMA RecoverType == TypeOK /\ Recover => TypeOK'
<1> SUFFICES ASSUME TypeOK, Recover PROVE TypeOK'
  OBVIOUS
<1>1. PICK finite \in BOOLEAN :
        shown' = [shown EXCEPT ![lane] =
                    [at |-> best[lane].point, finite |-> finite, offered |-> FALSE]]
  BY DEF Recover
<1>2. best[lane].point \in Nat
  BY DEF Recover, CanRecover, TypeOK
<1>3. shown' \in [Lanes -> Readings]
  BY <1>1, <1>2 DEF TypeOK, Readings
<1>4. reductions' \in [Lanes -> Nat] /\ pdhg' \in [Lanes -> Nat]
  BY <1>2 DEF Recover, TypeOK
<1>5. invalid' \in [Lanes -> BOOLEAN] /\ fresh' \in [Lanes -> BOOLEAN]
  BY DEF Recover, TypeOK
<1>6. hist' \in [next : [Lanes -> Int], baseline : [Lanes -> BOOLEAN], late : [Lanes -> Nat]]
  BY DEF Recover, TypeOK
<1>7. /\ UNCHANGED <<run, active, status, results, k, due, distance, major, lane, total>>
      /\ UNCHANGED <<conditional, best, expired>> /\ pc' = "close"
  BY DEF Recover, outcome, block
<1> QED
  BY <1>3, <1>4, <1>5, <1>6, <1>7 DEF TypeOK

LEMMA GiveUpType == TypeOK /\ GiveUp => TypeOK'
<1> SUFFICES ASSUME TypeOK, GiveUp PROVE TypeOK'
  OBVIOUS
<1>1. status' \in [Lanes -> Reasons \cup {"UNSPECIFIED"}]
  BY DEF GiveUp, TypeOK, Reasons
<1>2. /\ UNCHANGED <<run, active, results, k, due, distance, major, lane, total, fresh>>
      /\ UNCHANGED <<conditional, pdhg, shown, best, invalid, reductions, expired, hist>>
      /\ pc' = "close"
  BY DEF GiveUp, block, evaluation
<1> QED
  BY <1>1, <1>2 DEF TypeOK

LEMMA AcceptType == TypeOK /\ Accept => TypeOK'
<1> SUFFICES ASSUME TypeOK, Accept PROVE TypeOK'
  OBVIOUS
<1>1. PICK audited \in {run.feedback, FALSE}, finite \in BOOLEAN, improves \in BOOLEAN :
        LET s == IF audited THEN [at |-> pdhg[lane], finite |-> finite, offered |-> FALSE]
                 ELSE shown[lane]
        IN  /\ shown' = [shown EXCEPT ![lane] = [s EXCEPT !.offered = TRUE]]
            /\ best' = [best EXCEPT ![lane] =
                          IF improves THEN [point |-> pdhg[lane], of |-> s.at] ELSE @]
  BY DEF Accept
<1> DEFINE s == IF audited THEN [at |-> pdhg[lane], finite |-> finite, offered |-> FALSE]
                ELSE shown[lane]
<1>2. s \in Readings /\ pdhg[lane] \in Nat
  BY DEF TypeOK, Readings
<1>3. /\ shown' = [shown EXCEPT ![lane] = [s EXCEPT !.offered = TRUE]]
      /\ best' = [best EXCEPT ![lane] =
                    IF improves THEN [point |-> pdhg[lane], of |-> s.at] ELSE @]
  BY <1>1
<1> HIDE DEF s
<1>4. shown' \in [Lanes -> Readings]
  BY <1>2, <1>3 DEF TypeOK, Readings
<1>5. best' \in [Lanes -> [point : Nat, of : Nat] \cup {None}]
  BY <1>2, <1>3 DEF TypeOK, Readings
<1>6. /\ UNCHANGED <<run, active, status, results, k, due, distance, major, lane, total>>
      /\ UNCHANGED <<fresh, conditional, pdhg, invalid, reductions, expired, hist>>
      /\ pc' = "test"
  BY DEF Accept, outcome, block
<1> QED
  BY <1>4, <1>5, <1>6 DEF TypeOK

\* A test reports a definite reason or none.
LEMMA StopsFacts == \A j : Stops(j) \cup {"OPTIMAL"} \subseteq Reasons \cup {"UNSPECIFIED"}
BY DEF Stops, Reasons

LEMMA TestType == TypeOK /\ Test => TypeOK'
<1> SUFFICES ASSUME TypeOK, Test PROVE TypeOK'
  OBVIOUS
<1>1. PICK reason \in Stops(lane) \cup {"OPTIMAL"}, passes \in BOOLEAN :
        /\ status' = [status EXCEPT ![lane] =
             IF ~passes /\ reason \in {"OPTIMAL", "INFEASIBLE"}
             THEN "UNSPECIFIED" ELSE reason]
        /\ IF reason = "OPTIMAL" /\ ~passes /\ run.feedback
           THEN \E finite \in BOOLEAN : shown' = [shown EXCEPT ![lane] =
                  [at |-> pdhg[lane], finite |-> finite, offered |-> FALSE]]
           ELSE UNCHANGED shown
  BY DEF Test
<1>2. status' \in [Lanes -> Reasons \cup {"UNSPECIFIED"}]
  BY <1>1, StopsFacts DEF TypeOK
<1>3. shown' \in [Lanes -> Readings]
  <2>1. CASE UNCHANGED shown
    BY <2>1 DEF TypeOK
  <2>2. CASE \E finite \in BOOLEAN : shown' = [shown EXCEPT ![lane] =
                  [at |-> pdhg[lane], finite |-> finite, offered |-> FALSE]]
    BY <2>2 DEF TypeOK, Readings
  <2> QED
    BY <1>1, <2>1, <2>2
<1>4. /\ UNCHANGED <<run, active, results, k, due, distance, major, lane, total, fresh>>
      /\ UNCHANGED <<conditional, pdhg, best, invalid, reductions, expired, hist>>
      /\ pc' = "restart"
  BY DEF Test, block
<1> QED
  BY <1>2, <1>3, <1>4 DEF TypeOK

LEMMA RestartTestType == TypeOK /\ RestartTest => TypeOK'
<1> SUFFICES ASSUME TypeOK, RestartTest PROVE TypeOK'
  OBVIOUS
<1>1. /\ conditional' \in [Lanes -> BOOLEAN] /\ fresh' \in [Lanes -> BOOLEAN]
      /\ hist' \in [next : [Lanes -> Int], baseline : [Lanes -> BOOLEAN], late : [Lanes -> Nat]]
  <2>1. CASE UNCHANGED <<conditional, fresh, hist>>
    BY <2>1 DEF TypeOK
  <2>2. CASE \E early \in {run.conditional, FALSE}, restart \in BOOLEAN :
               /\ conditional' = [conditional EXCEPT ![lane] = early]
               /\ fresh' = [fresh EXCEPT ![lane] = @ \/ restart]
               /\ hist' = [hist EXCEPT !.baseline[lane] = @ /\ ~restart]
    <3>1. PICK early \in {run.conditional, FALSE}, restart \in BOOLEAN :
               /\ conditional' = [conditional EXCEPT ![lane] = early]
               /\ fresh' = [fresh EXCEPT ![lane] = @ \/ restart]
               /\ hist' = [hist EXCEPT !.baseline[lane] = @ /\ ~restart]
      BY <2>2
    <3>2. early \in BOOLEAN
      BY <3>1, ConfigFacts
    <3>3. conditional' \in [Lanes -> BOOLEAN]
      BY <3>1, <3>2 DEF TypeOK
    <3>4. fresh' \in [Lanes -> BOOLEAN]
      BY <3>1, ZenonT(30) DEF TypeOK
    <3>5. hist' \in [next : [Lanes -> Int], baseline : [Lanes -> BOOLEAN], late : [Lanes -> Nat]]
      BY <3>1 DEF TypeOK
    <3> QED
      BY <3>3, <3>4, <3>5
  <2> QED
    BY <2>1, <2>2 DEF RestartTest
<1>2. /\ UNCHANGED <<run, active, status, results, k, due, distance, major, lane, total>>
      /\ UNCHANGED <<pdhg, shown, best, invalid, reductions, expired>> /\ pc' = "close"
  BY DEF RestartTest, outcome, block, evaluation
<1> QED
  BY <1>1, <1>2 DEF TypeOK

\* A lane that is closed without a reason goes on.
LEMMA CloseFacts ==
    ASSUME TypeOK, CloseLane
    PROVE  /\ status' = [status EXCEPT ![lane] = FinalReason(lane)]
           /\ FinalReason(lane) \in Reasons \cup {"UNSPECIFIED"}
           /\ \/ /\ FinalReason(lane) \in Reasons
                 /\ active' = active \ {lane} /\ fresh' = [fresh EXCEPT ![lane] = FALSE]
                 /\ FinishMembers({lane}, status') /\ hist' = hist
              \/ /\ FinalReason(lane) = "UNSPECIFIED"
                 /\ hist' = [hist EXCEPT !.next[lane] =
                                total[lane] + SoloDue(total[lane], conditional[lane])]
                 /\ UNCHANGED <<active, fresh, results>>
<1>1. FinalReason(lane) \in Reasons \cup {"UNSPECIFIED"}
  BY DEF FinalReason, TypeOK, Reasons
<1>2. status' = [status EXCEPT ![lane] = FinalReason(lane)]
  BY DEF CloseLane
<1>3. status'[lane] = FinalReason(lane)
  BY <1>2 DEF TypeOK
<1> HIDE DEF FinalReason
<1> QED
  BY <1>1, <1>2, <1>3 DEF CloseLane

LEMMA CloseType == TypeOK /\ BlockInv /\ CloseLane => TypeOK'
<1> SUFFICES ASSUME TypeOK, BlockInv, CloseLane PROVE TypeOK'
  OBVIOUS
<1>1. status' \in [Lanes -> Reasons \cup {"UNSPECIFIED"}]
  BY CloseFacts DEF TypeOK
<1>2. /\ active' \subseteq Lanes /\ fresh' \in [Lanes -> BOOLEAN]
      /\ results' \in [Lanes -> Reasons \cup {None}]
      /\ hist' \in [next : [Lanes -> Int], baseline : [Lanes -> BOOLEAN], late : [Lanes -> Nat]]
  <2>1. CASE /\ FinalReason(lane) \in Reasons
             /\ active' = active \ {lane} /\ fresh' = [fresh EXCEPT ![lane] = FALSE]
             /\ FinishMembers({lane}, status') /\ hist' = hist
    <3>1. {lane} \in SUBSET Lanes /\ \A j \in {lane} : status'[j] \in Reasons
      BY <2>1, CloseFacts DEF TypeOK
    <3>2. results' \in [Lanes -> Reasons \cup {None}]
      BY <2>1, <3>1, FinishFacts
    <3> QED
      BY <2>1, <3>2 DEF TypeOK
  <2>2. CASE /\ hist' = [hist EXCEPT !.next[lane] =
                            total[lane] + SoloDue(total[lane], conditional[lane])]
             /\ UNCHANGED <<active, fresh, results>>
    <3>1. total[lane] \in 0 .. run.limit /\ conditional[lane] \in BOOLEAN
      BY ConfigFacts DEF TypeOK, BlockInv
    <3>2. total[lane] + SoloDue(total[lane], conditional[lane]) \in Int
      BY <3>1, DueFacts
    <3> QED
      BY <2>2, <3>2 DEF TypeOK
  <2> QED
    BY <2>1, <2>2, CloseFacts
<1>3. /\ lane' \in Lanes /\ k' \in Nat /\ distance' \in Int /\ major' \in Nat
      /\ due' \in [Lanes -> Int] /\ pc' \in {"count", "top"}
  BY NextLaneType DEF CloseLane
<1>4. /\ UNCHANGED <<run, total, conditional>>
      /\ UNCHANGED <<pdhg, shown, best, invalid, reductions, expired>>
  BY DEF CloseLane, evaluation
<1> QED
  BY <1>1, <1>2, <1>3, <1>4 DEF TypeOK

LEMMA LeaveFacts ==
    ASSUME TypeOK, LeaveLoop
    PROVE  /\ status' \in [Lanes -> Reasons] /\ pc' = "done"
           /\ \A j \in Lanes : status'[j] = IF status[j] = "UNSPECIFIED" THEN "ITERATION_LIMIT"
                                            ELSE status[j]
           /\ results' \in [Lanes -> Reasons \cup {None}]
           /\ \A j \in Lanes : results[j] # None => results'[j] = results[j]
           /\ \A j \in Lanes : results'[j] # None
<1>1. status' = [j \in Lanes |-> IF status[j] = "UNSPECIFIED" THEN "ITERATION_LIMIT"
                                 ELSE status[j]]
  BY DEF LeaveLoop
<1>2. status' \in [Lanes -> Reasons]
  BY <1>1 DEF TypeOK, Reasons
<1>3. Lanes \in SUBSET Lanes /\ \A j \in Lanes : status'[j] \in Reasons
  BY <1>2
<1>4. FinishMembers(Lanes, status') /\ pc' = "done"
  BY DEF LeaveLoop
<1> QED
  BY <1>1, <1>2, <1>3, <1>4, FinishFacts

LEMMA LeaveType == TypeOK /\ LeaveLoop => TypeOK'
<1> SUFFICES ASSUME TypeOK, LeaveLoop PROVE TypeOK'
  OBVIOUS
<1>1. UNCHANGED <<run, active, block, lane, total, fresh, conditional, evaluation, expired, hist>>
  BY DEF LeaveLoop
<1> QED
  BY <1>1, LeaveFacts DEF TypeOK, block, evaluation

LEMMA ClockType == TypeOK /\ (ClockExpires \/ UNCHANGED vars) => TypeOK'
<1> SUFFICES ASSUME TypeOK, ClockExpires \/ UNCHANGED vars PROVE TypeOK'
  OBVIOUS
<1>1. CASE ClockExpires
  <2>1. expired' \in [Lanes -> BOOLEAN]
    BY <1>1 DEF ClockExpires, TypeOK
  <2> QED
    BY <1>1, <2>1 DEF ClockExpires, TypeOK, outcome, block, evaluation
<1>2. CASE UNCHANGED vars
  BY <1>2 DEF vars, TypeOK
<1> QED
  BY <1>1, <1>2

LEMMA TypeStep == TypeOK /\ BlockInv /\ [Next]_vars => TypeOK'
BY DropExpiredType, PlanBlockType, MeasureType, IterationsType, GatherType, CountType,
   RecoverType, GiveUpType, AcceptType, TestType, RestartTestType, CloseType, LeaveType,
   ClockType, Zenon DEF Next, Step, Returned

------------------------------------------------------------------------------
(* What the steps do to the lanes.                                         *)

LEMMA Multiple == ASSUME NEW q \in Nat, NEW b \in Nat \ {0} PROVE (q * b) % b = 0
OBVIOUS

\* Part of a period leaves a remainder that much larger, or completes it.
LEMMA PartOfPeriod ==
    ASSUME NEW a \in Nat, NEW b \in Nat \ {0}, NEW c \in Nat
    PROVE  /\ (a % b) + c < b => (a + c) % b = (a % b) + c
           /\ (a % b) + c = b => (a + c) % b = 0
           /\ a < b => a % b = a
<1> DEFINE q == a \div b
           r == a % b
<1>1. a = b * q + r /\ q \in Nat /\ r \in 0 .. b - 1
  OBVIOUS
<1>2. ASSUME r + c < b PROVE (a + c) % b = r + c
  <2>1. a + c = b * q + (r + c) /\ r + c \in 0 .. b - 1
    BY <1>1, <1>2
  <2> HIDE DEF q, r
  <2> QED
    BY <1>1, <2>1
<1>3. ASSUME r + c = b PROVE (a + c) % b = 0
  <2> DEFINE p == q + 1
  <2> HIDE DEF q, r
  <2>1. a + c = p * b /\ p \in Nat
    BY <1>1, <1>3
  <2> HIDE DEF p
  <2>2. (p * b) % b = 0
    BY <2>1, Multiple
  <2> QED
    BY <2>1, <2>2
<1> QED
  BY <1>2, <1>3

LEMMA SamePeriod ==
    ASSUME NEW a \in Nat, NEW b \in Nat \ {0}, NEW c \in Nat, (a % b) + c < b
    PROVE  (a + c) % b = (a % b) + c
BY PartOfPeriod

LEMMA DispatchFacts ==
    ASSUME TypeOK, BlockInv, MeasureBaselines \/ MinorIterations \/ LastIteration
    PROVE  /\ pc = "iterate" /\ k' \in Nat /\ k' > k /\ k' <= distance
           /\ k' - k <= run.batch - (k % run.batch)
           /\ pc' = IF k' = distance \/ (k' % run.batch = 0 /\ \E j \in active : expired[j])
                    THEN "gather" ELSE "iterate"
           /\ hist'.late = Late(k' - k) /\ hist'.next = hist.next
           /\ UNCHANGED <<run, active, status, results, due, distance, lane, total>>
           /\ UNCHANGED <<conditional, expired>>
<1>0. /\ pc = "iterate" /\ k \in Nat /\ distance \in Int /\ k < distance
      /\ run.batch \in Nat \ {0}
      /\ hist \in [next : [Lanes -> Int], baseline : [Lanes -> BOOLEAN], late : [Lanes -> Nat]]
  BY ConfigFacts DEF MeasureBaselines, MinorIterations, LastIteration, TypeOK, BlockInv
<1>1. k % run.batch \in 0 .. run.batch - 1
  BY <1>0
<1>2. UNCHANGED <<run, active, status, results, due, distance, lane, total, conditional, expired>>
  BY DEF MeasureBaselines, MinorIterations, LastIteration, outcome
<1>3. CASE MeasureBaselines
  <2>1. Iterate(1, TRUE)
    BY <1>3 DEF MeasureBaselines
  <2>2. k' = k + 1 /\ k' - k = 1
    BY <1>0, <2>1 DEF Iterate
  <2>3. hist'.late = Late(1) /\ hist'.next = hist.next
    BY <1>0, <1>3 DEF MeasureBaselines
  <2> QED
    BY <1>0, <1>1, <1>2, <2>1, <2>2, <2>3 DEF Iterate
<1>4. CASE MinorIterations
  <2> DEFINE c == IF run.native /\ run.batch > 1 THEN NativeCount ELSE 1
  <2>1. Iterate(c, FALSE) /\ hist' = [hist EXCEPT !.late = Late(k' - k)]
    BY <1>4 DEF MinorIterations
  <2>2. c \in Nat \ {0} /\ c <= distance - (k + 1) /\ c <= run.batch - (k % run.batch)
    BY <1>0, <1>1, <1>4, NativeCountFacts DEF MinorIterations
  <2> HIDE DEF c
  <2>3. k' = k + c /\ k' - k = c
    BY <1>0, <2>1, <2>2 DEF Iterate
  <2>4. hist'.late = Late(k' - k) /\ hist'.next = hist.next
    BY <1>0, <2>1
  <2> QED
    BY <1>0, <1>2, <2>1, <2>2, <2>3, <2>4 DEF Iterate
<1>5. CASE LastIteration
  <2>1. Iterate(1, TRUE)
    BY <1>5 DEF LastIteration
  <2>2. k' = k + 1 /\ k' - k = 1
    BY <1>0, <2>1 DEF Iterate
  <2>3. hist'.late = Late(1) /\ hist'.next = hist.next
    BY <1>0, <1>5 DEF LastIteration
  <2> QED
    BY <1>0, <1>1, <1>2, <2>1, <2>2, <2>3 DEF Iterate
<1> QED
  BY <1>3, <1>4, <1>5

\* The lanes still waiting are those behind the one just done.
LEMMA NextLaneFacts ==
    ASSUME TypeOK, NextLane, pc \in {"count", "close"}
    PROVE  /\ pc' \in {"count", "top"}
           /\ pc' = "count" => UNCHANGED block
           /\ \A j \in Lanes : Waiting(j)' => Waiting(j) /\ j # lane /\ pc' = "count"
           /\ \A j \in Lanes : ~Judged(j)'
           /\ \A j \in Lanes : Settled(j)' /\ j # lane => Settled(j)
<1>1. lane \in Nat /\ lane <= NumLanes /\ NumLanes \in Nat \ {0} /\ Lanes = 1 .. NumLanes
  BY ConfigFacts DEF TypeOK, Lanes
<1>2. CASE lane < NumLanes
  <2>1. lane' = lane + 1 /\ pc' = "count" /\ UNCHANGED block
    BY <1>2 DEF NextLane
  <2> QED
    BY <1>1, <2>1 DEF Waiting, Judged, Settled, Judging
<1>3. CASE ~(lane < NumLanes)
  <2>1. lane' = 1 /\ pc' = "top"
    BY <1>3 DEF NextLane
  <2> QED
    BY <1>1, <1>3, <2>1 DEF Waiting, Judged, Settled, Judging
<1> QED
  BY <1>2, <1>3

\* Judging a lane leaves the other lanes alone.
LEMMA JudgeFacts ==
    ASSUME TypeOK, Recover \/ GiveUp \/ Accept \/ Test \/ RestartTest
    PROVE  /\ pc \in {"judge", "test", "restart"} /\ pc' \in {"test", "restart", "close"}
           /\ UNCHANGED <<run, active, results, k, due, distance, lane, total, expired>>
           /\ \A j \in Lanes \ {lane} :
                 /\ conditional'[j] = conditional[j] /\ fresh'[j] = fresh[j]
                 /\ status'[j] = status[j] /\ hist'.baseline[j] = hist.baseline[j]
           /\ hist'.next = hist.next /\ hist'.late = hist.late
<1>0. /\ hist \in [next : [Lanes -> Int], baseline : [Lanes -> BOOLEAN], late : [Lanes -> Nat]]
      /\ lane \in Lanes /\ fresh \in [Lanes -> BOOLEAN] /\ conditional \in [Lanes -> BOOLEAN]
      /\ status \in [Lanes -> Reasons \cup {"UNSPECIFIED"}]
  BY DEF TypeOK
<1>1. CASE Recover
  BY <1>0, <1>1 DEF Recover, outcome, block
<1>2. CASE GiveUp
  BY <1>0, <1>2 DEF GiveUp, evaluation, block
<1>3. CASE Accept
  <2>1. /\ pc = "judge" /\ pc' = "test" /\ UNCHANGED <<hist, fresh, conditional, expired>>
        /\ UNCHANGED <<run, outcome, block, lane, total>>
    BY <1>3 DEF Accept
  <2> QED
    BY <2>1 DEF outcome, block
<1>4. CASE Test
  <2>1. /\ pc = "test" /\ pc' = "restart" /\ UNCHANGED <<hist, fresh, conditional, expired>>
        /\ UNCHANGED <<run, active, results, block, lane, total>>
    BY <1>4 DEF Test
  <2>2. \E v : status' = [status EXCEPT ![lane] = v]
    BY <1>4 DEF Test
  <2> QED
    BY <1>0, <2>1, <2>2 DEF block
<1>5. CASE RestartTest
  <2>1. /\ pc = "restart" /\ pc' = "close" /\ UNCHANGED <<run, outcome, block, lane, total, expired>>
        /\ \/ UNCHANGED <<conditional, fresh, hist>>
           \/ \E early, restart \in BOOLEAN :
              /\ conditional' = [conditional EXCEPT ![lane] = early]
              /\ fresh' = [fresh EXCEPT ![lane] = @ \/ restart]
              /\ hist' = [hist EXCEPT !.baseline[lane] = @ /\ ~restart]
    BY <1>5, ConfigFacts DEF RestartTest
  <2>2. CASE UNCHANGED <<conditional, fresh, hist>>
    BY <2>1, <2>2 DEF outcome, block
  <2>3. ASSUME NEW early \in BOOLEAN, NEW restart \in BOOLEAN,
               conditional' = [conditional EXCEPT ![lane] = early],
               fresh' = [fresh EXCEPT ![lane] = @ \/ restart],
               hist' = [hist EXCEPT !.baseline[lane] = @ /\ ~restart]
        PROVE  /\ \A j \in Lanes \ {lane} :
                    /\ conditional'[j] = conditional[j] /\ fresh'[j] = fresh[j]
                    /\ hist'.baseline[j] = hist.baseline[j]
               /\ hist'.next = hist.next /\ hist'.late = hist.late
    BY <1>0, <2>3
  <2> QED
    BY <2>1, <2>2, <2>3 DEF outcome, block
<1> QED
  BY <1>1, <1>2, <1>3, <1>4, <1>5

\* A lane in the block is counted to where it is due at the latest; it is
\* passed over, or judged.
LEMMA CountFacts ==
    ASSUME TypeOK, BlockInv, CountLane
    PROVE  /\ pc = "count" /\ k > 0
           /\ UNCHANGED <<run, active, status, results, fresh, conditional, expired, hist>>
           /\ \A j \in Lanes \ {lane} : total'[j] = total[j]
           /\ \/ lane \notin active /\ NextLane /\ total' = total
              \/ /\ lane \in active /\ total'[lane] = total[lane] + k
                 /\ total[lane] + k <= run.limit
                 /\ k <= Due(total[lane], conditional[lane])
                 /\ due[lane] = Due(total[lane], conditional[lane])
                 /\ \/ PassedOver(lane, total[lane] + k) /\ NextLane
                    \/ /\ ~PassedOver(lane, total[lane] + k)
                       /\ pc' = "judge" /\ UNCHANGED <<lane, k, due, distance, major>>
<1>0. /\ lane \in Lanes /\ total \in [Lanes -> Nat] /\ k \in Nat /\ run.limit \in Nat
      /\ distance \in Int /\ due \in [Lanes -> Int]
  BY ConfigFacts DEF TypeOK
<1>1. /\ pc = "count" /\ k > 0 /\ k <= distance
      /\ UNCHANGED <<run, active, status, results, fresh, conditional, expired, hist>>
  BY DEF CountLane, BlockInv, outcome
<1>2. CASE lane \notin active
  BY <1>1, <1>2 DEF CountLane
<1>3. CASE lane \in active
  <2>1. total' = [total EXCEPT ![lane] = @ + k]
    BY <1>3 DEF CountLane
  <2>2. total'[lane] = total[lane] + k
    BY <1>0, <2>1
  <2>3. Waiting(lane)
    BY <1>0, <1>1 DEF Waiting, Lanes
  <2>4. due[lane] = Due(total[lane], conditional[lane]) /\ distance <= due[lane]
    BY <1>3, <2>3 DEF BlockInv
  <2>5. total[lane] \in 0 .. run.limit /\ conditional[lane] \in BOOLEAN
    BY <1>0 DEF BlockInv, TypeOK
  <2>6. Due(total[lane], conditional[lane]) <= run.limit - total[lane]
    BY <2>5, DueFacts
  <2>7. total[lane] + k <= run.limit /\ k <= Due(total[lane], conditional[lane])
    BY <1>0, <1>1, <2>4, <2>5, <2>6
  <2>8. \/ PassedOver(lane, total[lane] + k) /\ NextLane
        \/ /\ ~PassedOver(lane, total[lane] + k)
           /\ pc' = "judge" /\ UNCHANGED <<lane, k, due, distance, major>>
    BY <1>3, <2>2 DEF CountLane, block
  <2> QED
    BY <1>0, <1>1, <1>3, <2>1, <2>2, <2>4, <2>7, <2>8
<1> QED
  BY <1>2, <1>3

------------------------------------------------------------------------------
(* The block and its lanes.                                                *)

LEMMA BlockStep == TypeOK /\ BlockInv /\ [Next]_vars => BlockInv'
<1> SUFFICES ASSUME TypeOK, BlockInv, [Next]_vars PROVE BlockInv'
  OBVIOUS
<1>0. /\ lane \in Lanes /\ total \in [Lanes -> Nat] /\ k \in Nat /\ run.limit \in Nat
      /\ distance \in Int /\ due \in [Lanes -> Int] /\ active \subseteq Lanes
  BY ConfigFacts DEF TypeOK
<1>1. CASE DropExpired
  <2>1. /\ pc' = IF active' = {} THEN "leave" ELSE "plan"
        /\ UNCHANGED <<run, total>>
    BY <1>1 DEF DropExpired
  <2> QED
    BY <2>1 DEF BlockInv, Waiting, Judging
<1>2. CASE PlanBlock
  <2>1. /\ due' = [j \in Lanes |-> IF j \in active THEN Due(total[j], conditional[j]) ELSE 0]
        /\ \A j \in active : distance' <= due'[j]
        /\ k' = 0 /\ pc' = IF distance' <= 0 THEN "leave" ELSE "iterate"
        /\ UNCHANGED <<run, active, total, conditional>>
    BY <1>2 DEF PlanBlock, outcome
  <2>2. distance' \in Int
    BY <1>2, PlanBlockType DEF TypeOK
  <2>3. \A j \in active : due'[j] = Due(total[j], conditional[j])
    BY <1>0, <2>1
  <2>4. \A j : Due(total[j], conditional[j])' = Due(total[j], conditional[j])
    BY <2>1 DEF Due, Within
  <2>5. \A j \in active' : due'[j] = Due(total[j], conditional[j])' /\ distance' <= due'[j]
    BY <2>1, <2>3, <2>4
  <2> QED
    BY <2>1, <2>2, <2>5 DEF BlockInv, Judging
<1>3. CASE MeasureBaselines \/ MinorIterations \/ LastIteration
  <2>1. /\ pc = "iterate" /\ k' > k /\ k' <= distance /\ k' \in Nat
        /\ pc' \in {"iterate", "gather"} /\ (pc' = "iterate" => k' # distance)
        /\ UNCHANGED <<run, active, due, distance, total, conditional>>
    BY <1>3, DispatchFacts
  <2>2. \A j : Due(total[j], conditional[j])' = Due(total[j], conditional[j])
    BY <2>1 DEF Due, Within
  <2>3. \A j \in active' : due'[j] = Due(total[j], conditional[j])' /\ distance' <= due'[j]
    BY <2>1, <2>2 DEF BlockInv, Waiting
  <2>4. /\ pc' = "iterate" => k' < distance'
        /\ k' > 0 /\ k' <= distance' /\ \A j \in Lanes : total'[j] <= run'.limit
    BY <1>0, <2>1 DEF BlockInv
  <2> QED
    BY <2>1, <2>3, <2>4 DEF BlockInv, Judging
<1>4. CASE Gather
  <2>1. /\ pc = "gather" /\ pc' = "count"
        /\ UNCHANGED <<run, active, k, due, distance, total, conditional>>
    BY <1>4 DEF Gather, outcome, block
  <2>2. \A j : Due(total[j], conditional[j])' = Due(total[j], conditional[j])
    BY <2>1 DEF Due, Within
  <2> QED
    BY <2>1, <2>2 DEF BlockInv, Waiting, Judging
<1>5. CASE CountLane
  <2>1. /\ pc = "count" /\ k > 0 /\ k <= distance
        /\ UNCHANGED <<run, active, conditional>>
        /\ \A j \in Lanes \ {lane} : total'[j] = total[j]
    BY <1>5, CountFacts DEF BlockInv
  <2>2. \A j \in Lanes : total'[j] <= run'.limit
    BY <1>0, <1>5, <2>1, CountFacts DEF BlockInv
  <2>3. \A j \in Lanes \ {lane} :
           Due(total[j], conditional[j])' = Due(total[j], conditional[j])
    BY <2>1 DEF Due, Within
  <2>4. CASE NextLane
    <3>1. /\ pc' \in {"count", "top"} /\ (pc' = "count" => UNCHANGED <<k, due, distance>>)
          /\ \A j \in Lanes : Waiting(j)' => Waiting(j) /\ j # lane /\ pc' = "count"
      BY <2>1, <2>4, NextLaneFacts DEF block
    <3>2. \A j \in active' : Waiting(j)' =>
             due'[j] = Due(total[j], conditional[j])' /\ distance' <= due'[j]
      BY <1>0, <2>1, <2>3, <3>1 DEF BlockInv
    <3> QED
      BY <2>1, <2>2, <3>1, <3>2 DEF BlockInv, Judging
  <2>5. CASE /\ lane \in active /\ pc' = "judge" /\ UNCHANGED <<lane, k, due, distance>>
    <3>1. \A j \in Lanes : Waiting(j)' => Waiting(j) /\ j # lane
      BY <1>0, <2>1, <2>5 DEF Waiting, Judging, Lanes
    <3>2. \A j \in active' : Waiting(j)' =>
             due'[j] = Due(total[j], conditional[j])' /\ distance' <= due'[j]
      BY <1>0, <2>1, <2>3, <2>5, <3>1 DEF BlockInv
    <3> QED
      BY <2>1, <2>2, <2>5, <3>2 DEF BlockInv, Judging
  <2> QED
    BY <1>5, <2>4, <2>5, CountFacts
<1>6. CASE Recover \/ GiveUp \/ Accept \/ Test \/ RestartTest
  <2>1. /\ pc \in {"judge", "test", "restart"} /\ pc' \in {"test", "restart", "close"}
        /\ UNCHANGED <<run, active, k, due, distance, lane, total>>
        /\ \A j \in Lanes \ {lane} : conditional'[j] = conditional[j]
    BY <1>6, JudgeFacts
  <2>2. \A j \in Lanes : Waiting(j)' => Waiting(j) /\ j # lane
    BY <1>0, <2>1 DEF Waiting, Judging, Lanes
  <2>3. \A j \in Lanes \ {lane} :
           Due(total[j], conditional[j])' = Due(total[j], conditional[j])
    BY <2>1 DEF Due, Within
  <2>4. \A j \in active' : Waiting(j)' =>
           due'[j] = Due(total[j], conditional[j])' /\ distance' <= due'[j]
    BY <1>0, <2>1, <2>2, <2>3 DEF BlockInv
  <2> QED
    BY <2>1, <2>4 DEF BlockInv, Judging
<1>7. CASE CloseLane
  <2>1. NextLane /\ pc = "close" /\ UNCHANGED <<run, total, conditional>>
    BY <1>7 DEF CloseLane
  <2>2. active' \subseteq active
    BY <1>7, CloseFacts
  <2>3. /\ pc' \in {"count", "top"} /\ (pc' = "count" => UNCHANGED <<k, due, distance>>)
        /\ \A j \in Lanes : Waiting(j)' => Waiting(j) /\ j # lane /\ pc' = "count"
    BY <2>1, NextLaneFacts DEF block
  <2>4. \A j : Due(total[j], conditional[j])' = Due(total[j], conditional[j])
    BY <2>1 DEF Due, Within
  <2>5. \A j \in active' : Waiting(j)' =>
           due'[j] = Due(total[j], conditional[j])' /\ distance' <= due'[j]
    BY <1>0, <2>2, <2>3, <2>4 DEF BlockInv
  <2> QED
    BY <2>1, <2>3, <2>5 DEF BlockInv, Judging
<1>8. CASE LeaveLoop
  BY <1>8 DEF LeaveLoop, BlockInv, Waiting, Judging
<1>9. CASE ClockExpires \/ UNCHANGED vars
  <2>1. UNCHANGED <<run, pc, active, k, due, distance, lane, total, conditional>>
    BY <1>9 DEF ClockExpires, vars, outcome, block
  <2>2. \A j : Due(total[j], conditional[j])' = Due(total[j], conditional[j])
    BY <2>1 DEF Due, Within
  <2> QED
    BY <2>1, <2>2 DEF BlockInv, Waiting
<1> QED
  BY <1>1, <1>2, <1>3, <1>4, <1>5, <1>6, <1>7, <1>8, <1>9, Zenon DEF Next, Step, Returned

------------------------------------------------------------------------------
(* Limits and deadlines of the lanes.                                      *)

LEMMA LimitStep == TypeOK /\ BlockInv /\ LimitInv /\ [Next]_vars => LimitInv'
<1> SUFFICES ASSUME TypeOK, BlockInv, LimitInv, [Next]_vars PROVE LimitInv'
  OBVIOUS
<1>0. /\ lane \in Lanes /\ total \in [Lanes -> Nat] /\ k \in Nat /\ run.limit \in Nat
      /\ status \in [Lanes -> Reasons \cup {"UNSPECIFIED"}]
      /\ expired \in [Lanes -> BOOLEAN] /\ active \subseteq Lanes
  BY ConfigFacts DEF TypeOK
<1>1. CASE DropExpired
  <2> DEFINE late == {j \in active : expired[j]}
  <2>1. /\ pc = "top" /\ pc' = IF active' = {} THEN "leave" ELSE "plan"
        /\ active' = active \ late
        /\ status' = [j \in Lanes |-> IF j \in late THEN "TIME_LIMIT" ELSE status[j]]
        /\ UNCHANGED <<run, total, expired>>
    BY <1>1 DEF DropExpired
  <2>2. OwnLimits' /\ \A j \in Lanes \ active' : status'[j] # "UNSPECIFIED"
    BY <1>0, <2>1 DEF LimitInv, OwnLimits
  <2>3. \A j \in active' : total'[j] < run'.limit \/ run'.limit = 0
    BY <2>1 DEF LimitInv, Settled, Waiting, Judged, Judging
  <2> QED
    BY <2>1, <2>2, <2>3 DEF LimitInv
<1>2. CASE PlanBlock
  <2>1. /\ due' = [j \in Lanes |-> IF j \in active THEN Due(total[j], conditional[j]) ELSE 0]
        /\ distance' \in {due'[j] : j \in active}
        /\ pc = "plan" /\ pc' = IF distance' <= 0 THEN "leave" ELSE "iterate"
        /\ UNCHANGED <<run, active, status, total, expired>>
    BY <1>2 DEF PlanBlock, outcome
  <2>2. \A j \in active : total[j] < run.limit \/ run.limit = 0
    BY <2>1 DEF LimitInv, Settled, Waiting, Judged, Judging
  <2>3. ASSUME pc' = "leave" PROVE \A j \in active : total[j] >= run.limit
    <3>1. PICK j \in active : distance' = due'[j]
      BY <2>1
    <3>2. distance' = Due(total[j], conditional[j]) /\ total[j] \in 0 .. run.limit
          /\ conditional[j] \in BOOLEAN
      BY <1>0, <2>1, <3>1 DEF BlockInv, TypeOK
    <3>3. Due(total[j], conditional[j]) \in Nat
          /\ (total[j] < run.limit => Due(total[j], conditional[j]) > 0)
      BY <3>2, DueFacts
    <3>4. ~(total[j] < run.limit)
      BY <2>1, <2>3, <3>2, <3>3
    <3> QED
      BY <1>0, <2>2, <3>1, <3>4
  <2> QED
    BY <2>1, <2>2, <2>3 DEF LimitInv, OwnLimits
<1>3. CASE MeasureBaselines \/ MinorIterations \/ LastIteration
  <2>1. /\ pc' \in {"iterate", "gather"} /\ UNCHANGED <<run, active, status, total, expired>>
    BY <1>3, DispatchFacts
  <2> QED
    BY <2>1 DEF LimitInv, OwnLimits, Settled, Waiting
<1>4. CASE Gather
  <2>1. /\ pc' = "count" /\ lane' = 1 /\ UNCHANGED <<run, active, status, total, expired>>
    BY <1>4 DEF Gather, outcome
  <2>2. \A j \in Lanes : Waiting(j)'
    BY <2>1 DEF Waiting, Lanes
  <2> QED
    BY <1>0, <2>1, <2>2 DEF LimitInv, OwnLimits, Settled
<1>5. CASE CountLane
  <2>1. /\ pc = "count" /\ k > 0
        /\ UNCHANGED <<run, active, status, expired>>
        /\ \A j \in Lanes \ {lane} : total'[j] = total[j]
    BY <1>5, CountFacts
  <2>2. \A j \in Lanes : total'[j] >= total[j]
    BY <1>0, <1>5, <2>1, CountFacts
  <2>3. \A j \in Lanes : total'[j] \in Nat
    BY <1>5, CountType DEF TypeOK
  <2>4. OwnLimits' /\ \A j \in Lanes \ active' : status'[j] # "UNSPECIFIED"
    BY <1>0, <2>1, <2>2, <2>3 DEF LimitInv, OwnLimits
  <2>5. CASE NextLane
    <3>1. /\ pc' \in {"count", "top"}
          /\ \A j \in Lanes : Settled(j)' /\ j # lane => Settled(j)
      BY <2>1, <2>5, NextLaneFacts
    <3>2. lane \in active => total'[lane] < run.limit
      <4>1. ASSUME pc' = "judge" PROVE FALSE
        BY <3>1, <4>1
      <4> QED
        BY <1>5, <4>1, CountFacts DEF PassedOver
    <3>3. \A j \in active' : Settled(j)' => total'[j] < run'.limit \/ run'.limit = 0
      BY <1>0, <2>1, <3>1, <3>2 DEF LimitInv
    <3> QED
      BY <2>4, <3>1, <3>3 DEF LimitInv
  <2>6. CASE pc' = "judge" /\ lane' = lane
    <3>1. \A j \in Lanes : Settled(j)' => Settled(j) /\ j # lane
      BY <1>0, <2>1, <2>6 DEF Settled, Waiting, Judged, Judging, Lanes
    <3>2. \A j \in active' : Settled(j)' => total'[j] < run'.limit \/ run'.limit = 0
      BY <1>0, <2>1, <3>1 DEF LimitInv
    <3> QED
      BY <2>4, <2>6, <3>2 DEF LimitInv
  <2> QED
    BY <1>5, <2>5, <2>6, CountFacts
<1>6. CASE Recover \/ GiveUp \/ Accept \/ Test \/ RestartTest
  <2>1. /\ pc \in {"judge", "test", "restart"} /\ pc' \in {"test", "restart", "close"}
        /\ UNCHANGED <<run, active, lane, total, expired>>
        /\ \A j \in Lanes \ {lane} : status'[j] = status[j]
    BY <1>6, JudgeFacts
  <2>2. \/ status'[lane] = status[lane]
        \/ /\ status'[lane] = "TIME_LIMIT" => expired[lane]
           /\ status'[lane] = "ITERATION_LIMIT" => total[lane] >= run.limit
    <3>1. CASE Recover \/ Accept \/ RestartTest
      BY <3>1 DEF Recover, Accept, RestartTest, outcome
    <3>2. CASE GiveUp
      BY <1>0, <3>2 DEF GiveUp
    <3>3. CASE Test
      <4>1. PICK reason \in Stops(lane) \cup {"OPTIMAL"}, passes \in BOOLEAN :
              status' = [status EXCEPT ![lane] =
                 IF ~passes /\ reason \in {"OPTIMAL", "INFEASIBLE"}
                 THEN "UNSPECIFIED" ELSE reason]
        BY <3>3 DEF Test
      <4>2. \/ status'[lane] = "UNSPECIFIED"
            \/ status'[lane] \in Stops(lane) \cup {"OPTIMAL"}
        BY <1>0, <4>1
      <4> QED
        BY <4>2 DEF Stops, AtLimit
    <3> QED
      BY <1>6, <3>1, <3>2, <3>3
  <2>3. OwnLimits'
    BY <1>0, <2>1, <2>2 DEF LimitInv, OwnLimits
  <2>4. lane \in active
    BY <2>1 DEF BlockInv, Judging
  <2>5. \A j \in Lanes : Settled(j)' => Settled(j)
    BY <1>0, <2>1 DEF Settled, Waiting, Judged, Judging, Lanes
  <2> QED
    BY <1>0, <2>1, <2>3, <2>4, <2>5 DEF LimitInv
<1>7. CASE CloseLane
  <2>1. NextLane /\ pc = "close" /\ UNCHANGED <<run, total, expired>>
    BY <1>7 DEF CloseLane
  <2>2. /\ pc' \in {"count", "top"}
        /\ \A j \in Lanes : Settled(j)' /\ j # lane => Settled(j)
    BY <2>1, NextLaneFacts
  <2>3. status' = [status EXCEPT ![lane] = FinalReason(lane)]
    BY <1>7, CloseFacts
  <2>4. OwnLimits'
    BY <1>0, <2>1, <2>3 DEF LimitInv, OwnLimits, FinalReason, AtLimit
  <2>5. active' \subseteq active /\ (active \ {lane}) \subseteq active'
        /\ (lane \notin active' => FinalReason(lane) # "UNSPECIFIED")
        /\ (lane \in active' => FinalReason(lane) = "UNSPECIFIED")
    <3>1. "UNSPECIFIED" \notin Reasons /\ lane \in active
      BY <2>1 DEF Reasons, BlockInv, Judging
    <3> QED
      BY <1>7, <3>1, CloseFacts
  <2>6. \A j \in Lanes \ active' : status'[j] # "UNSPECIFIED"
    BY <1>0, <2>3, <2>5 DEF LimitInv
  <2>7. lane \in active' => total[lane] < run.limit
    BY <1>0, <2>5 DEF FinalReason, AtLimit
  <2>8. \A j \in active' : Settled(j)' => total'[j] < run'.limit \/ run'.limit = 0
    BY <1>0, <2>1, <2>2, <2>5, <2>7 DEF LimitInv
  <2> QED
    BY <2>2, <2>4, <2>6, <2>8 DEF LimitInv
<1>8. CASE LeaveLoop
  <2>1. /\ pc = "leave" /\ pc' = "done" /\ UNCHANGED <<run, active, total, expired>>
        /\ \A j \in Lanes : status'[j] = IF status[j] = "UNSPECIFIED" THEN "ITERATION_LIMIT"
                                         ELSE status[j]
    BY <1>8, LeaveFacts DEF LeaveLoop
  <2>2. OwnLimits'
    BY <2>1 DEF LimitInv, OwnLimits
  <2>3. \A j \in active : total[j] < run.limit \/ run.limit = 0
    BY <2>1 DEF LimitInv, Settled, Waiting, Judged, Judging
  <2> QED
    BY <2>1, <2>2, <2>3 DEF LimitInv
<1>9. CASE ClockExpires \/ UNCHANGED vars
  <2>1. UNCHANGED <<run, pc, active, status, lane, total>>
    BY <1>9 DEF ClockExpires, vars, outcome, block
  <2>2. \A j \in Lanes : expired[j] => expired'[j]
    BY <1>0, <1>9 DEF ClockExpires, vars
  <2> QED
    BY <2>1, <2>2 DEF LimitInv, OwnLimits, Settled, Waiting, Judged
<1> QED
  BY <1>1, <1>2, <1>3, <1>4, <1>5, <1>6, <1>7, <1>8, <1>9, Zenon DEF Next, Step, Returned

------------------------------------------------------------------------------
(* Iterations after a lane's deadline.                                     *)

LEMMA LateStep == TypeOK /\ BlockInv /\ LateInv /\ [Next]_vars => LateInv'
<1> SUFFICES ASSUME TypeOK, BlockInv, LateInv, [Next]_vars PROVE LateInv'
  OBVIOUS
<1>0. /\ lane \in Lanes /\ k \in Nat /\ run.batch \in Nat \ {0} /\ distance \in Int
      /\ expired \in [Lanes -> BOOLEAN] /\ active \subseteq Lanes
      /\ hist.late \in [Lanes -> Nat]
      /\ hist \in [next : [Lanes -> Int], baseline : [Lanes -> BOOLEAN], late : [Lanes -> Nat]]
  BY ConfigFacts DEF TypeOK
<1>1. CASE DropExpired \/ PlanBlock
  <2>1. /\ pc \in {"top", "plan"} /\ active' \subseteq active
        /\ pc' \in {"leave", "plan", "iterate"} /\ (pc' = "iterate" => k' = 0)
        /\ UNCHANGED <<run, expired, hist>>
    BY <1>1 DEF DropExpired, PlanBlock, outcome
  <2>2. \A j \in active : hist.late[j] = 0
    BY <2>1 DEF LateInv, Settled, Waiting, Judged, Judging
  <2>3. 0 % run.batch = 0
    BY <1>0
  <2> QED
    BY <2>1, <2>2, <2>3 DEF LateInv, LateWithinBatch
<1>2. CASE MeasureBaselines \/ MinorIterations \/ LastIteration
  <2> DEFINE c == k' - k
  <2>1. /\ pc = "iterate" /\ k' = k + c /\ c \in Nat \ {0} /\ c <= run.batch - (k % run.batch)
        /\ pc' = IF k' = distance \/ (k' % run.batch = 0 /\ \E j \in active : expired[j])
                 THEN "gather" ELSE "iterate"
        /\ hist'.late = Late(c) /\ UNCHANGED <<run, active, expired>>
    BY <1>0, <1>2, DispatchFacts
  <2> HIDE DEF c
  <2>2. \A j \in Lanes : hist'.late[j] = hist.late[j] + IF expired[j] /\ j \in active THEN c ELSE 0
    BY <2>1 DEF Late
  <2>3. k % run.batch \in 0 .. run.batch - 1 /\ k' % run.batch \in 0 .. run.batch - 1
    BY <1>0, <2>1
  <2>4. \A j \in active : hist.late[j] <= k % run.batch
    BY <2>1 DEF LateInv
  <2>5. LateWithinBatch'
    BY <1>0, <2>1, <2>2, <2>3, <2>4 DEF LateInv, LateWithinBatch
  <2>6. \A j \in Lanes : hist'.late[j] > 0 => expired'[j]
    BY <1>0, <2>1, <2>2 DEF LateInv
  <2>7. ASSUME pc' = "iterate", NEW j \in active PROVE hist'.late[j] <= k' % run.batch
    <3>1. CASE expired[j]
      <4>1. k' % run.batch # 0
        BY <2>1, <2>7, <3>1
      <4>2. (k % run.batch) + c # run.batch
        BY <1>0, <2>1, <4>1, PartOfPeriod
      <4>3. (k % run.batch) + c < run.batch
        BY <1>0, <2>1, <2>3, <4>2
      <4>4. k' % run.batch = (k % run.batch) + c
        BY <1>0, <2>1, <4>3, SamePeriod
      <4> QED
        BY <1>0, <2>1, <2>2, <2>3, <2>4, <4>4
    <3>2. CASE ~expired[j]
      <4>1. hist.late[j] = 0 /\ hist'.late[j] = hist.late[j]
        BY <1>0, <2>2, <3>2 DEF LateInv
      <4> QED
        BY <2>3, <4>1
    <3> QED
      BY <3>1, <3>2
  <2>8. pc' \in {"iterate", "gather"}
    BY <2>1
  <2> QED
    BY <2>1, <2>5, <2>6, <2>7, <2>8 DEF LateInv, Settled, Waiting
<1>3. CASE Gather
  <2>1. /\ pc' = "count" /\ lane' = 1 /\ UNCHANGED <<run, active, expired, hist>>
    BY <1>3 DEF Gather, outcome
  <2>2. \A j \in Lanes : Waiting(j)'
    BY <2>1 DEF Waiting, Lanes
  <2> QED
    BY <1>0, <2>1, <2>2 DEF LateInv, LateWithinBatch, Settled
<1>4. CASE CountLane
  <2>1. pc = "count" /\ UNCHANGED <<run, active, expired, hist>>
    BY <1>4, CountFacts
  <2>2. CASE NextLane
    <3>1. /\ pc' \in {"count", "top"}
          /\ \A j \in Lanes : Settled(j)' /\ j # lane => Settled(j)
      BY <2>1, <2>2, NextLaneFacts
    <3>2. lane \in active => hist.late[lane] = 0
      <4>1. ASSUME pc' = "judge" PROVE FALSE
        BY <3>1, <4>1
      <4>2. lane \in active => ~expired[lane]
        BY <1>4, <4>1, CountFacts DEF PassedOver
      <4> QED
        BY <1>0, <4>2 DEF LateInv
    <3> QED
      BY <1>0, <2>1, <3>1, <3>2 DEF LateInv, LateWithinBatch
  <2>3. CASE pc' = "judge" /\ lane' = lane
    <3>1. \A j \in Lanes : Settled(j)' => Settled(j)
      BY <1>0, <2>1, <2>3 DEF Settled, Waiting, Judged, Judging, Lanes
    <3> QED
      BY <1>0, <2>1, <2>3, <3>1 DEF LateInv, LateWithinBatch
  <2> QED
    BY <1>4, <2>2, <2>3, CountFacts
<1>5. CASE Recover \/ GiveUp \/ Accept \/ Test \/ RestartTest
  <2>1. /\ pc \in {"judge", "test", "restart"} /\ pc' \in {"test", "restart", "close"}
        /\ UNCHANGED <<run, active, lane, expired>> /\ hist'.late = hist.late
    BY <1>5, JudgeFacts
  <2>2. \A j \in Lanes : Settled(j)' => Settled(j)
    BY <1>0, <2>1 DEF Settled, Waiting, Judged, Judging, Lanes
  <2> QED
    BY <1>0, <2>1, <2>2 DEF LateInv, LateWithinBatch
<1>6. CASE CloseLane
  <2>1. NextLane /\ pc = "close" /\ UNCHANGED <<run, expired>>
    BY <1>6 DEF CloseLane
  <2>2. /\ pc' \in {"count", "top"}
        /\ \A j \in Lanes : Settled(j)' /\ j # lane => Settled(j)
    BY <2>1, NextLaneFacts
  <2>3. hist'.late = hist.late
    BY <1>0, <1>6, CloseFacts
  <2>4. active' \subseteq active /\ (lane \in active' => FinalReason(lane) = "UNSPECIFIED")
    BY <1>6, CloseFacts
  <2>5. lane \in active' => hist.late[lane] = 0
    <3>1. lane \in active' => ~expired[lane]
      BY <2>4 DEF FinalReason
    <3> QED
      BY <1>0, <3>1 DEF LateInv
  <2> QED
    BY <1>0, <2>1, <2>2, <2>3, <2>4, <2>5 DEF LateInv, LateWithinBatch
<1>7. CASE LeaveLoop
  <2>1. /\ pc = "leave" /\ pc' = "done" /\ UNCHANGED <<run, active, expired, hist>>
    BY <1>7 DEF LeaveLoop
  <2> QED
    BY <2>1 DEF LateInv, LateWithinBatch, Settled, Waiting, Judged, Judging
<1>8. CASE ClockExpires \/ UNCHANGED vars
  <2>1. UNCHANGED <<run, pc, active, k, lane, hist>>
    BY <1>8 DEF ClockExpires, vars, outcome, block
  <2>2. \A j \in Lanes : expired[j] => expired'[j]
    BY <1>0, <1>8 DEF ClockExpires, vars
  <2> QED
    BY <2>1, <2>2 DEF LateInv, LateWithinBatch, Settled, Waiting, Judged
<1> QED
  BY <1>1, <1>2, <1>3, <1>4, <1>5, <1>6, <1>7, <1>8, Zenon DEF Next, Step, Returned

------------------------------------------------------------------------------
(* The checks of a lane, and those it would have alone.                    *)

\* The distance to an evaluation shrinks by what has been iterated, while the
\* stride stays what it was.
LEMMA WithinShrinks ==
    ASSUME TypeOK, NEW n \in 0 .. run.limit, NEW e \in BOOLEAN, NEW st \in Nat \ {0},
           NEW c \in Nat, c < Within(n, e, st)
    PROVE  Within(n + c, e, st) = Within(n, e, st) - c
<1>1. run.freq \in Nat \ {0} /\ run.limit \in Nat /\ n \in Nat
  BY ConfigFacts
<1>2. /\ n % run.freq \in 0 .. run.freq - 1 /\ n % st \in 0 .. st - 1
      /\ Within(n, e, st) \in Nat /\ Within(n, e, st) <= run.freq - (n % run.freq)
  <2>1. n % run.freq \in 0 .. run.freq - 1 /\ n % st \in 0 .. st - 1
    BY <1>1
  <2>2. Within(n, e, st) \in Nat /\ Within(n, e, st) <= run.freq - (n % run.freq)
    BY WithinFacts
  <2> QED
    BY <2>1, <2>2
<1>3. (n + c) % run.freq = (n % run.freq) + c
  <2>1. (n % run.freq) + c < run.freq
    BY <1>1, <1>2
  <2> QED
    BY ONLY <1>1, <2>1, c \in Nat, SamePeriod
<1>4. ASSUME e PROVE (n + c) % st = (n % st) + c
  <2>1. Within(n, e, st) <= st - (n % st)
    BY <1>4, WithinFacts
  <2>2. (n % st) + c < st
    BY <1>1, <1>2, <2>1
  <2> QED
    BY ONLY <1>1, <2>2, st \in Nat \ {0}, c \in Nat, SamePeriod
<1> DEFINE a == n % run.freq
           s == n % st
<1>5. a \in Nat /\ s \in Nat
  BY <1>2
<1>6. Within(n, e, st) = Least(IF e THEN Least(run.freq - a, st - s) ELSE run.freq - a, run.limit - n)
  BY DEF Within
<1>7. Within(n + c, e, st) =
        Least(IF e THEN Least(run.freq - (a + c), st - (s + c)) ELSE run.freq - (a + c),
              run.limit - (n + c))
  BY <1>3, <1>4 DEF Within
<1> HIDE DEF a, s
<1> QED
  BY <1>1, <1>5, <1>6, <1>7 DEF Least

\* Where the strides match, a lane that is not due yet is as far from its own
\* next check as it is alone.
LEMMA SoloDueShrinks ==
    ASSUME TypeOK, StridesMatch, NEW n \in 0 .. run.limit, NEW e \in BOOLEAN,
           NEW c \in Nat
    PROVE  /\ Due(n, e) = SoloDue(n, e)
           /\ c < Due(n, e) => SoloDue(n + c, e) = SoloDue(n, e) - c
<1> DEFINE st == LaneStride(n)
<1>0. run \in Configs /\ run.limit \in Nat /\ n \in Nat /\ st \in Nat \ {0}
  BY ConfigFacts DEF TypeOK
<1>1. st = ConditionalEvaluationInterval(n)
  BY <1>0 DEF StridesMatch
<1>2. Due(n, e) = Within(n, e, st) /\ SoloDue(n, e) = Within(n, e, st)
  BY <1>1 DEF Due, SoloDue
<1>3. ASSUME c < Due(n, e) PROVE SoloDue(n + c, e) = SoloDue(n, e) - c
  <2>1. /\ c < Within(n, e, st) /\ Within(n, e, st) <= run.limit - n
        /\ (e => Within(n, e, st) <= st - (n % st)) /\ n % st \in 0 .. st - 1
        /\ Within(n, e, st) \in Nat
    BY <1>0, <1>2, <1>3, WithinFacts
  <2>2. n + c \in 0 .. run.limit /\ n + c \in n .. run.limit
    BY <1>0, <2>1
  <2>3. Within(n + c, e, st) = Within(n, e, st) - c
    BY <1>0, <2>1, WithinShrinks
  <2>4. e => ConditionalEvaluationInterval(n + c) = st
    <3>1. ASSUME e PROVE n + c < n + (st - (n % st))
      <4>1. Within(n, e, st) <= st - (n % st)
        BY <2>1, <3>1
      <4> HIDE DEF st
      <4> QED
        BY <1>0, <2>1, <4>1
    <3>2. e => LaneStride(n + c) = st
      BY <1>0, <2>2, <3>1 DEF StridesMatch
    <3> QED
      BY <1>0, <2>2, <3>2 DEF StridesMatch
  <2>5. SoloDue(n + c, e) = Within(n + c, e, st)
    BY <2>4 DEF SoloDue, Within
  <2> QED
    BY <1>2, <2>3, <2>5
<1> QED
  BY <1>2, <1>3

LEMMA SoloStep ==
    TypeOK /\ BlockInv /\ SoloInv /\ StridesMatch /\ [Next]_vars => SoloInv'
<1> SUFFICES ASSUME TypeOK, BlockInv, SoloInv, StridesMatch, [Next]_vars PROVE SoloInv'
  OBVIOUS
<1>0. /\ lane \in Lanes /\ total \in [Lanes -> Nat] /\ k \in Nat /\ run.limit \in Nat
      /\ expired \in [Lanes -> BOOLEAN] /\ active \subseteq Lanes
      /\ conditional \in [Lanes -> BOOLEAN] /\ hist.next \in [Lanes -> Int]
      /\ hist \in [next : [Lanes -> Int], baseline : [Lanes -> BOOLEAN], late : [Lanes -> Nat]]
  BY ConfigFacts DEF TypeOK
<1>1. CASE DropExpired \/ PlanBlock \/ MeasureBaselines \/ MinorIterations \/ LastIteration
           \/ Gather \/ LeaveLoop
  <2>1. /\ pc \notin Judging /\ pc' \notin Judging /\ active' \subseteq active
        /\ UNCHANGED <<run, total, conditional>> /\ hist'.next = hist.next
    <3>1. CASE MeasureBaselines \/ MinorIterations \/ LastIteration
      BY <3>1, DispatchFacts DEF Judging
    <3>2. CASE DropExpired \/ PlanBlock \/ Gather \/ LeaveLoop
      BY <3>2 DEF DropExpired, PlanBlock, Gather, LeaveLoop, outcome, Judging
    <3> QED
      BY <1>1, <3>1, <3>2
  <2>2. \A j : SoloDue(total[j], conditional[j])' = SoloDue(total[j], conditional[j])
    BY <2>1 DEF SoloDue, Within
  <2>3. \A j \in active' : hist'.next[j] = total'[j] + SoloDue(total[j], conditional[j])'
    BY <2>1, <2>2 DEF SoloInv, Judged
  <2> QED
    BY <2>1, <2>3 DEF SoloInv
<1>2. CASE CountLane
  <2>1. /\ pc = "count" /\ k > 0 /\ UNCHANGED <<run, active, conditional, expired, hist>>
        /\ \A j \in Lanes \ {lane} : total'[j] = total[j]
    BY <1>2, CountFacts
  <2>2. \A j \in active : hist.next[j] = total[j] + SoloDue(total[j], conditional[j])
    BY <2>1 DEF SoloInv, Judged, Judging
  <2>3. \A j \in active \ {lane} :
           hist'.next[j] = total'[j] + SoloDue(total[j], conditional[j])'
    <3>1. \A j \in active \ {lane} :
             SoloDue(total[j], conditional[j])' = SoloDue(total[j], conditional[j])
      BY <1>0, <2>1 DEF SoloDue, Within
    <3> QED
      BY <1>0, <2>1, <2>2, <3>1
  <2>4. CASE lane \notin active
    <3>1. pc' \in {"count", "top"}
      BY <1>2, <2>1, <2>4, CountFacts, NextLaneFacts
    <3> QED
      BY <2>1, <2>3, <2>4, <3>1 DEF SoloInv, Judging
  <2>5. CASE lane \in active
    <3> DEFINE n == total[lane]
               e == conditional[lane]
    <3>1. /\ n \in 0 .. run.limit /\ e \in BOOLEAN /\ total'[lane] = n + k
          /\ n + k <= run.limit /\ k <= Due(n, e) /\ due[lane] = Due(n, e)
      BY <1>0, <1>2, <2>5, CountFacts DEF BlockInv
    <3>2. /\ Due(n, e) = SoloDue(n, e) /\ Due(n, e) \in Nat /\ Due(n, e) <= run.limit - n
          /\ k < Due(n, e) => SoloDue(n + k, e) = SoloDue(n, e) - k
      BY <1>0, <3>1, SoloDueShrinks, DueFacts
    <3>3. hist.next[lane] = n + SoloDue(n, e)
      BY <2>2, <2>5
    <3>4. \A j \in Lanes : j = lane =>
             SoloDue(total[j], conditional[j])' = SoloDue(n + k, e)
      BY <2>1, <3>1 DEF SoloDue, Within
    <3> HIDE DEF n, e
    <3>5. CASE PassedOver(lane, n + k) /\ NextLane
      <4>1. pc' \in {"count", "top"}
        BY <2>1, <3>5, NextLaneFacts
      <4>2. k < Due(n, e)
        BY <3>1, <3>5 DEF PassedOver
      <4>3. \A j \in Lanes : j = lane =>
               hist'.next[j] = total'[j] + SoloDue(total[j], conditional[j])'
        BY <1>0, <2>1, <3>1, <3>2, <3>3, <3>4, <4>2
      <4> QED
        BY <1>0, <2>1, <2>3, <4>1, <4>3 DEF SoloInv, Judging
    <3>6. CASE ~PassedOver(lane, n + k) /\ pc' = "judge" /\ lane' = lane
      <4>1. ~expired[lane] => k = Due(n, e)
        BY <1>0, <3>1, <3>2, <3>6 DEF PassedOver
      <4>2. /\ total'[lane'] = hist'.next[lane'] \/ expired'[lane']
            /\ total'[lane'] <= hist'.next[lane']
        BY <1>0, <2>1, <3>1, <3>2, <3>3, <3>6, <4>1
      <4>3. \A j \in active' : ~Judged(j)' => j # lane
        BY <3>6 DEF Judged, Judging
      <4> QED
        BY <2>1, <2>3, <4>2, <4>3 DEF SoloInv
    <3> QED
      BY <1>2, <2>5, <3>5, <3>6, CountFacts DEF n
  <2> QED
    BY <2>4, <2>5
<1>3. CASE Recover \/ GiveUp \/ Accept \/ Test \/ RestartTest
  <2>1. /\ pc \in {"judge", "test", "restart"} /\ pc' \in {"test", "restart", "close"}
        /\ UNCHANGED <<run, active, lane, total, expired>> /\ hist'.next = hist.next
        /\ \A j \in Lanes \ {lane} : conditional'[j] = conditional[j]
    BY <1>3, JudgeFacts
  <2>2. \A j \in active : ~Judged(j)' => j # lane /\ ~Judged(j)
    BY <2>1 DEF Judged, Judging
  <2>3. \A j \in active' : ~Judged(j)' =>
           hist'.next[j] = total'[j] + SoloDue(total[j], conditional[j])'
    <3>1. \A j \in active \ {lane} :
             SoloDue(total[j], conditional[j])' = SoloDue(total[j], conditional[j])
      BY <1>0, <2>1 DEF SoloDue, Within
    <3> QED
      BY <1>0, <2>1, <2>2, <3>1 DEF SoloInv
  <2> QED
    BY <2>1, <2>3 DEF SoloInv, Judging
<1>4. CASE CloseLane
  <2>1. NextLane /\ pc = "close" /\ UNCHANGED <<run, total, conditional>>
    BY <1>4 DEF CloseLane
  <2>2. pc' \in {"count", "top"} /\ active' \subseteq active
    BY <1>4, <2>1, NextLaneFacts, CloseFacts
  <2>3. \A j : SoloDue(total[j], conditional[j])' = SoloDue(total[j], conditional[j])
    BY <2>1 DEF SoloDue, Within
  <2>4. \A j \in active' : hist'.next[j] = total[j] + SoloDue(total[j], conditional[j])
    <3>1. CASE lane \notin active' /\ hist' = hist
      BY <2>1, <2>2, <3>1 DEF SoloInv, Judged
    <3>2. CASE hist' = [hist EXCEPT !.next[lane] =
                           total[lane] + SoloDue(total[lane], conditional[lane])]
      <4>1. hist'.next = [hist.next EXCEPT ![lane] =
                              total[lane] + SoloDue(total[lane], conditional[lane])]
        BY <1>0, <3>2
      <4> QED
        BY <1>0, <2>1, <2>2, <4>1 DEF SoloInv, Judged
    <3> QED
      BY <1>4, <3>1, <3>2, CloseFacts
  <2>5. \A j \in active' : hist'.next[j] = total'[j] + SoloDue(total[j], conditional[j])'
    BY <2>1, <2>3, <2>4
  <2> QED
    BY <2>2, <2>5 DEF SoloInv, Judging
<1>5. CASE ClockExpires \/ UNCHANGED vars
  <2>1. UNCHANGED <<run, pc, active, lane, total, conditional, hist>>
    BY <1>5 DEF ClockExpires, vars, outcome, block
  <2>2. \A j \in Lanes : expired[j] => expired'[j]
    BY <1>0, <1>5 DEF ClockExpires, vars
  <2>3. \A j : SoloDue(total[j], conditional[j])' = SoloDue(total[j], conditional[j])
    BY <2>1 DEF SoloDue, Within
  <2> QED
    BY <1>0, <2>1, <2>2, <2>3 DEF SoloInv, Judged
<1> QED
  BY <1>1, <1>2, <1>3, <1>4, <1>5, Zenon DEF Next, Step, Returned

------------------------------------------------------------------------------
(* The baselines a lane's restart tests compare with.                      *)

\* The first iteration of a block measures what restarts wait for.
LEMMA FirstIteration ==
    ASSUME TypeOK, BlockInv, BaselineInv, MeasureBaselines \/ MinorIterations \/ LastIteration
    PROVE  \A j \in active : hist'.baseline[j] \/ total[j] < run.freq
<1>0. /\ k \in Nat /\ pc = "iterate" /\ active \subseteq Lanes /\ fresh \in [Lanes -> BOOLEAN]
      /\ hist \in [next : [Lanes -> Int], baseline : [Lanes -> BOOLEAN], late : [Lanes -> Nat]]
  BY DispatchFacts DEF TypeOK
<1>1. CASE MeasureBaselines
  <2> DEFINE measured == {j \in active : fresh[j]}
  <2>1. k = 0 /\ hist' = [hist EXCEPT !.late = Late(1),
                             !.baseline = [j \in Lanes |-> @[j] \/ j \in measured]]
    BY <1>1 DEF MeasureBaselines, Baseline
  <2>2. hist'.baseline = [j \in Lanes |-> hist.baseline[j] \/ j \in measured]
    BY <1>0, <2>1
  <2>3. \A j \in active : hist.baseline[j] \/ fresh[j] \/ total[j] < run.freq
    BY <1>0, <2>1 DEF BaselineInv
  <2>4. \A j \in active : (hist.baseline[j] \/ fresh[j]) => hist'.baseline[j]
    BY <1>0, <2>2
  <2> QED
    BY <2>3, <2>4
<1>2. CASE MinorIterations \/ LastIteration
  <2>1. /\ ~Baseline
        /\ hist' = [hist EXCEPT !.late = Late(1)] \/ hist' = [hist EXCEPT !.late = Late(k' - k)]
    BY <1>2 DEF MinorIterations, LastIteration
  <2>2. hist'.baseline = hist.baseline
    BY <1>0, <2>1
  <2>3. CASE k = 0
    <3>1. \A j \in active : ~fresh[j]
      BY <1>0, <2>1, <2>3 DEF Baseline
    <3> QED
      BY <1>0, <2>2, <2>3, <3>1 DEF BaselineInv
  <2>4. CASE k > 0
    BY <1>0, <2>2, <2>4 DEF BaselineInv, Waiting
  <2> QED
    BY <1>0, <2>3, <2>4
<1> QED
  BY <1>1, <1>2

LEMMA BaselineStep == TypeOK /\ BlockInv /\ BaselineInv /\ [Next]_vars => BaselineInv'
<1> SUFFICES ASSUME TypeOK, BlockInv, BaselineInv, [Next]_vars PROVE BaselineInv'
  OBVIOUS
<1>0. /\ lane \in Lanes /\ total \in [Lanes -> Nat] /\ k \in Nat /\ run.freq \in Nat \ {0}
      /\ fresh \in [Lanes -> BOOLEAN] /\ active \subseteq Lanes
      /\ status \in [Lanes -> Reasons \cup {"UNSPECIFIED"}]
      /\ hist \in [next : [Lanes -> Int], baseline : [Lanes -> BOOLEAN], late : [Lanes -> Nat]]
  BY ConfigFacts DEF TypeOK
<1>1. CASE DropExpired \/ PlanBlock \/ LeaveLoop
  <2>1. /\ pc \in {"top", "plan", "leave"} /\ active' \subseteq active
        /\ pc' \in {"leave", "plan", "iterate", "done"} /\ (pc' = "iterate" => k' = 0)
        /\ UNCHANGED <<run, total, fresh, hist>>
    BY <1>1 DEF DropExpired, PlanBlock, LeaveLoop, outcome
  <2>2. \A j \in active : hist.baseline[j] \/ fresh[j] \/ total[j] < run.freq
    BY <2>1 DEF BaselineInv, Settled, Waiting, Judged, Judging
  <2>3. \A j \in Lanes : ~(Waiting(j)' /\ k' > 0)
    BY <2>1 DEF Waiting, Judging
  <2> QED
    BY <1>0, <2>1, <2>2, <2>3 DEF BaselineInv
<1>2. CASE MeasureBaselines \/ MinorIterations \/ LastIteration
  <2>1. /\ k' > k /\ k' \in Nat /\ pc' \in {"iterate", "gather"}
        /\ UNCHANGED <<run, active, total>>
    BY <1>2, DispatchFacts
  <2>2. \A j \in active : hist'.baseline[j] \/ total[j] < run.freq
    BY <1>2, FirstIteration
  <2>3. \A j \in Lanes : ~Settled(j)' /\ k' # 0
    BY <1>0, <2>1 DEF Settled, Waiting
  <2> QED
    BY <2>1, <2>2, <2>3 DEF BaselineInv
<1>3. CASE Gather
  <2>1. /\ pc = "gather" /\ pc' = "count" /\ lane' = 1
        /\ UNCHANGED <<run, active, k, total, fresh, hist>>
    BY <1>3 DEF Gather, outcome, block
  <2>2. \A j \in Lanes : Waiting(j) /\ ~Settled(j)'
    BY <2>1 DEF Settled, Waiting, Lanes
  <2>3. \A j \in active : hist.baseline[j] \/ total[j] < run.freq
    BY <1>0, <2>1, <2>2 DEF BaselineInv, BlockInv
  <2> QED
    BY <1>0, <2>1, <2>2, <2>3 DEF BaselineInv
<1>4. CASE CountLane
  <2>1. /\ pc = "count" /\ k > 0 /\ UNCHANGED <<run, active, fresh, conditional, hist>>
        /\ \A j \in Lanes \ {lane} : total'[j] = total[j]
    BY <1>4, CountFacts
  <2>2. \A j \in active : Waiting(j) => hist.baseline[j] \/ total[j] < run.freq
    BY <2>1 DEF BaselineInv
  <2>3. lane \in active => hist.baseline[lane] \/ total[lane] < run.freq
    BY <1>0, <2>1, <2>2 DEF Waiting, Lanes
  <2>4. ASSUME lane \in active, total[lane] < run.freq
        PROVE  total[lane] + Due(total[lane], conditional[lane]) <= run.freq
    <3>1. total[lane] \in 0 .. run.limit /\ conditional[lane] \in BOOLEAN
      BY <1>0, ConfigFacts DEF BlockInv, TypeOK
    <3>2. /\ Due(total[lane], conditional[lane]) <= run.freq - (total[lane] % run.freq)
          /\ Due(total[lane], conditional[lane]) \in Nat
      BY <3>1, DueFacts
    <3>3. total[lane] % run.freq = total[lane]
      BY <1>0, <2>4, PartOfPeriod
    <3> QED
      BY <1>0, <3>2, <3>3
  <2>5. lane \in active /\ total[lane] < run.freq => Due(total[lane], conditional[lane]) \in Nat
    BY <1>0, ConfigFacts, DueFacts DEF BlockInv, TypeOK
  <2>6. CASE NextLane
    <3>1. /\ pc' \in {"count", "top"}
          /\ \A j \in Lanes : Settled(j)' /\ j # lane => Settled(j)
          /\ \A j \in Lanes : Waiting(j)' => Waiting(j) /\ j # lane
      BY <2>1, <2>6, NextLaneFacts
    <3>2. lane \in active => hist.baseline[lane] \/ total'[lane] < run.freq
      <4>1. ASSUME pc' = "judge" PROVE FALSE
        BY <3>1, <4>1
      <4>2. lane \in active => /\ total'[lane] = total[lane] + k
                               /\ k < Due(total[lane], conditional[lane])
        BY <1>4, <4>1, CountFacts DEF PassedOver
      <4> QED
        BY <1>0, <2>3, <2>4, <2>5, <4>2
    <3>3. \A j \in active : Settled(j)' =>
             hist.baseline[j] \/ fresh[j] \/ total'[j] < run.freq
      BY <1>0, <2>1, <3>1, <3>2 DEF BaselineInv
    <3>4. \A j \in active : Waiting(j)' => hist.baseline[j] \/ total'[j] < run.freq
      BY <1>0, <2>1, <2>2, <3>1
    <3> QED
      BY <2>1, <3>1, <3>3, <3>4 DEF BaselineInv
  <2>7. CASE lane \in active /\ pc' = "judge" /\ lane' = lane
    <3>1. \A j \in Lanes : /\ Settled(j)' => Settled(j) /\ j # lane
                           /\ Waiting(j)' => Waiting(j) /\ j # lane
      BY <1>0, <2>1, <2>7 DEF Settled, Waiting, Judged, Judging, Lanes
    <3>2. hist.baseline[lane] \/ total'[lane] <= run.freq
      <4>1. total'[lane] = total[lane] \/ /\ total'[lane] = total[lane] + k
                                          /\ k <= Due(total[lane], conditional[lane])
        BY <1>4, <2>7, CountFacts
      <4> QED
        BY <1>0, <2>3, <2>4, <2>5, <2>7, <4>1
    <3>3. \A j \in active : Settled(j)' =>
             hist.baseline[j] \/ fresh[j] \/ total'[j] < run.freq
      BY <1>0, <2>1, <3>1 DEF BaselineInv
    <3>4. \A j \in active : Waiting(j)' => hist.baseline[j] \/ total'[j] < run.freq
      BY <1>0, <2>1, <2>2, <3>1
    <3> QED
      BY <2>1, <2>7, <3>2, <3>3, <3>4 DEF BaselineInv
  <2> QED
    BY <1>4, <2>6, <2>7, CountFacts
<1>5. CASE Recover \/ GiveUp \/ Accept \/ Test \/ RestartTest
  <2>1. /\ pc \in {"judge", "test", "restart"} /\ pc' \in {"test", "restart", "close"}
        /\ UNCHANGED <<run, active, lane, k, total>>
        /\ \A j \in Lanes \ {lane} : fresh'[j] = fresh[j] /\ hist'.baseline[j] = hist.baseline[j]
    BY <1>5, JudgeFacts
  <2>2. \A j \in Lanes : /\ Settled(j)' => Settled(j) /\ j # lane
                         /\ Waiting(j)' => Waiting(j) /\ j # lane
    BY <1>0, <2>1 DEF Settled, Waiting, Judged, Judging, Lanes
  <2>3. /\ \A j \in active' : Settled(j)' \/ (pc' = "iterate" /\ k' = 0) =>
              hist'.baseline[j] \/ fresh'[j] \/ total'[j] < run'.freq
        /\ \A j \in active' : Waiting(j)' /\ k' > 0 => hist'.baseline[j] \/ total'[j] < run'.freq
    BY <1>0, <2>1, <2>2 DEF BaselineInv
  <2>4. /\ pc' \in {"judge", "test", "restart"} => hist'.baseline[lane] \/ total[lane] <= run.freq
        /\ pc' = "close" => \/ hist'.baseline[lane] \/ fresh'[lane] \/ total[lane] < run.freq
                            \/ status'[lane] # "UNSPECIFIED"
    <3>1. CASE Recover
      <4>1. pc' = "close" /\ fresh'[lane] = TRUE
        BY <1>0, <3>1 DEF Recover
      <4> QED
        BY <4>1
    <3>2. CASE GiveUp
      <4>1. pc' = "close" /\ status'[lane] = "NUMERICAL_ERROR"
        BY <1>0, <3>2 DEF GiveUp
      <4> QED
        BY <4>1
    <3>3. CASE Accept \/ Test
      <4>1. /\ pc \in {"judge", "test"} /\ pc' \in {"test", "restart"} /\ hist' = hist
        BY <3>3 DEF Accept, Test
      <4> QED
        BY <4>1 DEF BaselineInv
    <3>4. CASE RestartTest
      <4>0. /\ pc = "restart" /\ pc' = "close" /\ status' = status
            /\ hist.baseline[lane] \/ total[lane] <= run.freq
        BY <3>4 DEF RestartTest, outcome, BaselineInv
      <4>1. CASE status[lane] = "UNSPECIFIED" /\ Regular(lane)
        <5>1. PICK restart \in BOOLEAN :
                 /\ total[lane] = run.freq => restart
                 /\ fresh' = [fresh EXCEPT ![lane] = @ \/ restart]
                 /\ hist' = [hist EXCEPT !.baseline[lane] = @ /\ ~restart]
          BY <3>4, <4>1 DEF RestartTest
        <5>2. CASE restart
          <6>1. fresh'[lane]
            BY <1>0, <5>1, <5>2
          <6> QED
            BY <4>0, <6>1
        <5>3. CASE ~restart
          <6>1. hist'.baseline[lane] = hist.baseline[lane]
            BY <1>0, <5>1, <5>3
          <6>2. total[lane] # run.freq
            BY <5>1, <5>3
          <6> QED
            BY <1>0, <4>0, <6>1, <6>2
        <5> QED
          BY <5>2, <5>3
      <4>2. CASE ~(status[lane] = "UNSPECIFIED" /\ Regular(lane))
        <5>1. hist' = hist /\ fresh' = fresh
          BY <3>4, <4>2 DEF RestartTest
        <5>2. total[lane] = run.freq => Regular(lane)
          BY <1>0 DEF Regular
        <5> QED
          BY <1>0, <4>0, <4>2, <5>1, <5>2
      <4> QED
        BY <4>1, <4>2
    <3> QED
      BY <1>5, <3>1, <3>2, <3>3, <3>4
  <2> QED
    BY <2>1, <2>3, <2>4 DEF BaselineInv
<1>6. CASE CloseLane
  <2>1. NextLane /\ pc = "close" /\ UNCHANGED <<run, total>>
    BY <1>6 DEF CloseLane
  <2>2. /\ pc' \in {"count", "top"} /\ (pc' = "count" => UNCHANGED k)
        /\ \A j \in Lanes : Settled(j)' /\ j # lane => Settled(j)
        /\ \A j \in Lanes : Waiting(j)' => Waiting(j) /\ j # lane /\ pc' = "count"
    BY <2>1, NextLaneFacts DEF block
  <2>3. /\ active' \subseteq active /\ hist'.baseline = hist.baseline
        /\ \A j \in active' : fresh'[j] = fresh[j]
        /\ lane \in active' => FinalReason(lane) = "UNSPECIFIED"
    BY <1>0, <1>6, CloseFacts
  <2>4. lane \in active' => hist.baseline[lane] \/ fresh[lane] \/ total[lane] < run.freq
    <3>1. lane \in active' => status[lane] = "UNSPECIFIED"
      BY <2>3 DEF FinalReason
    <3> QED
      BY <2>1, <3>1 DEF BaselineInv
  <2>5. /\ \A j \in active' : Settled(j)' =>
              hist'.baseline[j] \/ fresh'[j] \/ total'[j] < run'.freq
        /\ \A j \in active' : Waiting(j)' /\ k' > 0 => hist'.baseline[j] \/ total'[j] < run'.freq
    BY <1>0, <2>1, <2>2, <2>3, <2>4 DEF BaselineInv
  <2> QED
    BY <2>2, <2>5 DEF BaselineInv
<1>7. CASE ClockExpires \/ UNCHANGED vars
  <2>1. UNCHANGED <<run, pc, active, k, lane, total, fresh, status, hist>>
    BY <1>7 DEF ClockExpires, vars, outcome, block
  <2> QED
    BY <2>1 DEF BaselineInv, Settled, Waiting, Judged
<1> QED
  BY <1>1, <1>2, <1>3, <1>4, <1>5, <1>6, <1>7, Zenon DEF Next, Step, Returned

------------------------------------------------------------------------------
(* What holds of every group.                                              *)

LEMMA InitBlockInv == Init => BlockInv /\ LimitInv /\ BaselineInv /\ LateInv
<1> SUFFICES ASSUME Init PROVE BlockInv /\ LimitInv /\ BaselineInv /\ LateInv
  OBVIOUS
<1>1. TypeOK
  BY InitType
<1>2. /\ pc = "top" /\ active = Lanes
      /\ total = [j \in Lanes |-> 0] /\ status = [j \in Lanes |-> "UNSPECIFIED"]
  BY DEF Init
<1>3. \A j \in Lanes : hist.late[j] = 0
  BY <1>2 DEF Init
<1>4. run.limit \in Nat /\ run.freq \in Nat \ {0} /\ run.batch \in Nat \ {0}
  BY <1>1, ConfigFacts
<1>5. BlockInv
  BY <1>2, <1>4 DEF BlockInv, Waiting, Judging
<1>6. LimitInv
  BY <1>2, <1>4 DEF LimitInv, OwnLimits
<1>7. BaselineInv
  BY <1>2, <1>4 DEF BaselineInv, Waiting, Judging
<1>8. LateInv
  BY <1>2, <1>3, <1>4 DEF LateInv, LateWithinBatch
<1> QED
  BY <1>5, <1>6, <1>7, <1>8

LEMMA InitSoloInv == Init => SoloInv
<1> SUFFICES ASSUME Init PROVE SoloInv
  OBVIOUS
<1>1. /\ pc = "top" /\ active = Lanes /\ total = [j \in Lanes |-> 0]
      /\ conditional = [j \in Lanes |-> FALSE]
      /\ \A j \in Lanes : hist.next[j] = SoloDue(0, FALSE)
  BY DEF Init
<1>2. SoloDue(0, FALSE) \in Nat
  <2>1. TypeOK
    BY InitType
  <2>2. 0 \in 0 .. run.limit
    BY <2>1, ConfigFacts
  <2> QED
    BY <2>1, <2>2, DueFacts
<1>3. \A j \in Lanes : SoloDue(total[j], conditional[j]) = SoloDue(0, FALSE)
  <2>1. \A j \in Lanes : total[j] = 0 /\ conditional[j] = FALSE
    BY <1>1
  <2> QED
    BY <2>1, Zenon
<1>4. \A j \in Lanes : hist.next[j] = total[j] + SoloDue(total[j], conditional[j])
  <2> DEFINE d == SoloDue(0, FALSE)
             solo(j) == SoloDue(total[j], conditional[j])
  <2>1. d \in Nat /\ \A j \in Lanes : total[j] = 0 /\ hist.next[j] = d /\ solo(j) = d
    BY <1>1, <1>2, <1>3
  <2> HIDE DEF d, solo
  <2>2. \A j \in Lanes : hist.next[j] = total[j] + solo(j)
    BY <2>1
  <2> QED
    BY <2>2 DEF solo
<1> QED
  BY <1>1, <1>4 DEF SoloInv, Judging

\* Types: the group's iterations stay within its block, its lanes' counts
\* within the limit, so that their due times are counts again.
THEOREM LanesTypeCorrect == Spec => [](TypeOK /\ BlockInv)
<1>1. Init => TypeOK /\ BlockInv
  BY InitType, InitBlockInv
<1>2. TypeOK /\ BlockInv /\ [Next]_vars => (TypeOK /\ BlockInv)'
  BY TypeStep, BlockStep
<1> QED
  BY <1>1, <1>2, PTL DEF Spec

\* A lane stops only on its own deadline or at the iteration limit, with any
\* number of lanes in the group.
THEOREM LanesOwnLimits == Spec => []OwnLimits
<1>1. Init => LimitInv
  BY InitBlockInv
<1>2. TypeOK /\ BlockInv /\ LimitInv /\ [Next]_vars => LimitInv'
  BY LimitStep
<1>3. LimitInv => OwnLimits
  BY DEF LimitInv
<1> QED
  BY <1>1, <1>2, <1>3, LanesTypeCorrect, PTL DEF Spec

\* No lane runs more than a batch of iterations past its deadline, native
\* blocks of any length or none.
THEOREM LanesLate == Spec => []LateWithinBatch
<1>1. Init => LateInv
  BY InitBlockInv
<1>2. TypeOK /\ BlockInv /\ LateInv /\ [Next]_vars => LateInv'
  BY LateStep
<1>3. LateInv => LateWithinBatch
  BY DEF LateInv
<1> QED
  BY <1>1, <1>2, <1>3, LanesTypeCorrect, PTL DEF Spec

\* A restart test after the first compares with a baseline measured since the
\* lane's own last restart or recovery.
THEOREM LanesHaveBaselines == Spec => []LaneBaselines
<1>1. Init => BaselineInv
  BY InitBlockInv
<1>2. TypeOK /\ BlockInv /\ BaselineInv /\ [Next]_vars => BaselineInv'
  BY BaselineStep
<1>3. TypeOK /\ BaselineInv => LaneBaselines
  <2> SUFFICES ASSUME TypeOK, BaselineInv, pc = "restart", total[lane] > run.freq
               PROVE  hist.baseline[lane]
    BY DEF LaneBaselines
  <2>1. total[lane] \in Nat /\ run.freq \in Nat
    BY ConfigFacts DEF TypeOK
  <2>2. hist.baseline[lane] \/ total[lane] <= run.freq
    BY DEF BaselineInv
  <2> QED
    BY <2>1, <2>2
<1> QED
  BY <1>1, <1>2, <1>3, LanesTypeCorrect, PTL DEF Spec

\* Where the two strides agree, every lane is judged where it would be alone,
\* unless its own deadline passed, and never runs past that.
THEOREM LanesJudgedLikeSolo ==
    ASSUME StridesMatch
    PROVE  Spec => []JudgedLikeSolo
<1>1. Init => SoloInv
  BY InitSoloInv
<1>2. TypeOK /\ BlockInv /\ SoloInv /\ [Next]_vars => SoloInv'
  BY SoloStep
<1>3. TypeOK /\ BlockInv /\ SoloInv => JudgedLikeSolo
  <2> SUFFICES ASSUME TypeOK, BlockInv, SoloInv, NEW j \in active, ~Judged(j)
               PROVE  total[j] <= hist.next[j]
    BY DEF JudgedLikeSolo, SoloInv, Judged, Judging
  <2>1. /\ total[j] \in 0 .. run.limit /\ conditional[j] \in BOOLEAN
        /\ total[j] \in Nat
    BY ConfigFacts DEF TypeOK, BlockInv
  <2>2. SoloDue(total[j], conditional[j]) \in Nat
    BY <2>1, DueFacts
  <2> QED
    BY <2>1, <2>2 DEF SoloInv
<1> QED
  BY <1>1, <1>2, <1>3, LanesTypeCorrect, PTL DEF Spec

\* Every step of the group is a step of MemberResults, or none: lanes get
\* definite results, and keep them.
LEMMA MembersStep == TypeOK /\ BlockInv /\ [Next]_vars => [Members!Finish]_results
<1> SUFFICES ASSUME TypeOK, BlockInv, [Next]_vars PROVE [Members!Finish]_results
  OBVIOUS
<1>1. ASSUME results' \in [Lanes -> Reasons \cup {None}],
             \A j \in Lanes : results[j] # None => results'[j] = results[j]
      PROVE  Members!Finish
  BY <1>1 DEF Members!Finish, Members!Pending
<1>2. CASE DropExpired
  <2> DEFINE late == {j \in active : expired[j]}
  <2>1. late \in SUBSET Lanes /\ FinishMembers(late, status') /\ \A j \in late : status'[j] \in Reasons
    BY <1>2 DEF DropExpired, TypeOK, Reasons
  <2> HIDE DEF late
  <2> QED
    BY <1>1, <2>1, FinishFacts
<1>3. CASE CloseLane
  <2>1. CASE FinalReason(lane) \in Reasons /\ FinishMembers({lane}, status')
    <3>1. {lane} \in SUBSET Lanes /\ \A j \in {lane} : status'[j] \in Reasons
      BY <1>3, <2>1, CloseFacts DEF TypeOK
    <3> QED
      BY <1>1, <2>1, <3>1, FinishFacts
  <2>2. CASE UNCHANGED results
    BY <2>2
  <2> QED
    BY <1>3, <2>1, <2>2, CloseFacts
<1>4. CASE LeaveLoop
  BY <1>1, <1>4, LeaveFacts
<1>5. CASE MeasureBaselines \/ MinorIterations \/ LastIteration
  BY <1>5, DispatchFacts
<1>6. CASE Recover \/ GiveUp \/ Accept \/ Test \/ RestartTest
  BY <1>6, JudgeFacts
<1>7. CASE PlanBlock \/ Gather \/ CountLane \/ ClockExpires \/ UNCHANGED vars
  BY <1>7 DEF PlanBlock, Gather, CountLane, ClockExpires, vars, outcome
<1> QED
  BY <1>2, <1>3, <1>4, <1>5, <1>6, <1>7, Zenon DEF Next, Step, Returned

\* A group keeps the promise made to each member of a batch.
THEOREM LanesImplementMembers == Spec => ImplementsMembers
<1>1. Init => Members!MrInit
  BY DEF Init, Members!MrInit
<1>2. TypeOK /\ BlockInv /\ [Next]_vars => [Members!Finish]_results
  BY MembersStep
<1> QED
  BY <1>1, <1>2, LanesTypeCorrect, PTL DEF Spec, ImplementsMembers, Members!MrSpec

\* Once the group has returned, every lane has a result, those the loop left
\* behind at the limit and those dropped at its top included.
THEOREM LanesAllFinish == Spec => [](pc = "done" => \A j \in Lanes : results[j] # None)
<1> DEFINE Finished == pc = "done" => \A j \in Lanes : results[j] # None
<1>1. Init => Finished
  BY DEF Init
<1>2. TypeOK /\ BlockInv /\ Finished /\ [Next]_vars => Finished'
  <2> SUFFICES ASSUME TypeOK, BlockInv, Finished, [Next]_vars PROVE Finished'
    OBVIOUS
  <2>1. CASE LeaveLoop
    BY <2>1, LeaveFacts
  <2>2. CASE UNCHANGED vars
    BY <2>2 DEF vars
  <2>3. CASE Recover \/ GiveUp \/ Accept \/ Test \/ RestartTest
    BY <2>3, JudgeFacts
  <2>4. CASE MeasureBaselines \/ MinorIterations \/ LastIteration
    BY <2>4, DispatchFacts
  <2>5. CASE DropExpired \/ PlanBlock \/ Gather
    BY <2>5 DEF DropExpired, PlanBlock, Gather
  <2>6. CASE CountLane \/ CloseLane
    <3>1. pc' \in {"count", "top", "judge"}
      BY <2>6, NextLaneType DEF CountLane, CloseLane
    <3> QED
      BY <3>1
  <2>7. CASE ClockExpires
    BY <2>7 DEF ClockExpires, outcome
  <2> QED
    BY <2>1, <2>2, <2>3, <2>4, <2>5, <2>6, <2>7, Zenon DEF Next, Step, Returned
<1> QED
  BY <1>1, <1>2, LanesTypeCorrect, PTL DEF Spec

------------------------------------------------------------------------------
(* How many steps a group takes.                                           *)

\* Iterations a lane has behind it, those of the running block included.
Reached(j) == total[j] + (IF Waiting(j) THEN k ELSE 0)

\* Active lanes are all at the same iteration, whichever of them were judged,
\* passed over, set back to their checkpoint or restarted.
Lockstep == \A i, j \in active : Reached(i) = Reached(j)

\* A lane is done with the block exactly when it was its turn.
LEMMA NextLaneWaiting ==
    ASSUME TypeOK, NextLane, pc \in {"count", "close"}
    PROVE  /\ pc' \in {"count", "top"} /\ (pc' = "count" => k' = k)
           /\ \A j \in Lanes : Waiting(j)' <=> Waiting(j) /\ j # lane
<1>1. lane \in Nat /\ lane <= NumLanes /\ NumLanes \in Nat \ {0} /\ Lanes = 1 .. NumLanes
  BY ConfigFacts DEF TypeOK, Lanes
<1>2. CASE lane < NumLanes
  <2>1. lane' = lane + 1 /\ pc' = "count" /\ k' = k
    BY <1>2 DEF NextLane, block
  <2>2. ASSUME NEW j \in Lanes PROVE Waiting(j)' <=> Waiting(j) /\ j # lane
    <3>1. (j >= lane + 1 <=> j >= lane /\ j # lane) /\ (j >= lane + 1 <=> j > lane)
      BY <1>1
    <3> QED
      BY <2>1, <3>1 DEF Waiting, Judging
  <2> QED
    BY <2>1, <2>2
<1>3. CASE ~(lane < NumLanes)
  <2>1. lane' = 1 /\ pc' = "top"
    BY <1>3 DEF NextLane
  <2> QED
    BY <1>1, <1>3, <2>1 DEF Waiting, Judging
<1> QED
  BY <1>2, <1>3

\* Only the iterations of the block bring a lane further.
LEMMA ReachedStays ==
    ASSUME TypeOK, BlockInv,
           \/ DropExpired \/ PlanBlock \/ Gather \/ CountLane \/ Recover \/ GiveUp
           \/ Accept \/ Test \/ RestartTest \/ CloseLane \/ LeaveLoop \/ ClockExpires
    PROVE  /\ run' = run
           /\ \A j \in active' : j \in active /\ Reached(j)' = Reached(j)
<1>0. /\ lane \in Lanes /\ total \in [Lanes -> Nat] /\ k \in Nat /\ active \subseteq Lanes
      /\ Lanes \subseteq Nat /\ \A j \in Lanes : j >= 1
  BY DEF TypeOK, Lanes
<1>1. CASE DropExpired
  <2>1. /\ pc = "top" /\ pc' \in {"leave", "plan"} /\ UNCHANGED <<run, total>>
        /\ active' \subseteq active
    BY <1>1 DEF DropExpired
  <2> QED
    BY <1>0, <2>1 DEF Reached, Waiting, Judging
<1>2. CASE PlanBlock
  <2>1. /\ pc = "plan" /\ pc' \in {"leave", "iterate"} /\ UNCHANGED <<run, total, active>>
        /\ k' = 0
    BY <1>2 DEF PlanBlock, outcome
  <2> QED
    BY <1>0, <2>1 DEF Reached, Waiting, Judging
<1>3. CASE Gather
  <2>1. /\ pc = "gather" /\ pc' = "count" /\ lane' = 1
        /\ UNCHANGED <<run, active, k, total>>
    BY <1>3 DEF Gather, outcome, block
  <2> QED
    BY <1>0, <2>1 DEF Reached, Waiting, Judging
<1>4. CASE CountLane
  <2>1. /\ pc = "count" /\ k > 0 /\ UNCHANGED <<run, active>>
        /\ \A j \in Lanes \ {lane} : total'[j] = total[j]
        /\ lane \in active => total'[lane] = total[lane] + k
    BY <1>4, CountFacts
  <2>2. Waiting(lane)
    BY <1>0, <2>1 DEF Waiting
  <2>3. \A j \in Lanes : /\ Waiting(j)' <=> Waiting(j) /\ j # lane
                         /\ Waiting(j)' => k' = k
    <3>1. CASE NextLane
      <4>1. /\ pc' \in {"count", "top"} /\ (pc' = "count" => k' = k)
            /\ \A j \in Lanes : Waiting(j)' <=> Waiting(j) /\ j # lane
        BY <2>1, <3>1, NextLaneWaiting
      <4>2. \A j \in Lanes : Waiting(j)' => pc' = "count"
        BY <4>1 DEF Waiting, Judging
      <4> QED
        BY <4>1, <4>2
    <3>2. CASE pc' = "judge" /\ UNCHANGED <<lane, k>>
      BY <1>0, <2>1, <3>2 DEF Waiting, Judging
    <3> QED
      BY <1>4, <3>1, <3>2, CountFacts
  <2>4. ASSUME NEW j \in active PROVE Reached(j)' = Reached(j)
    <3>1. j \in Lanes /\ total[j] \in Nat
      BY <1>0
    <3>2. CASE j = lane
      <4>1. Waiting(j) /\ ~Waiting(j)' /\ total'[j] = total[j] + k
        BY <2>1, <2>2, <2>3, <3>1, <3>2
      <4>2. Reached(j)' = total'[j] + 0 /\ Reached(j) = total[j] + k
        BY <4>1 DEF Reached
      <4> QED
        BY <1>0, <3>1, <4>1, <4>2
    <3>3. CASE j # lane /\ Waiting(j)
      <4>1. Waiting(j)' /\ k' = k /\ total'[j] = total[j]
        BY <2>1, <2>3, <3>1, <3>3
      <4> QED
        BY <3>3, <4>1 DEF Reached
    <3>4. CASE j # lane /\ ~Waiting(j)
      <4>1. ~Waiting(j)' /\ total'[j] = total[j]
        BY <2>1, <2>3, <3>1, <3>4
      <4> QED
        BY <3>4, <4>1 DEF Reached
    <3> QED
      BY <3>2, <3>3, <3>4
  <2> QED
    BY <2>1, <2>4
<1>5. CASE Recover \/ GiveUp \/ Accept \/ Test \/ RestartTest
  <2>1. /\ pc \in Judging /\ pc' \in Judging /\ UNCHANGED <<run, active, k, lane, total>>
    BY <1>5, JudgeFacts DEF Judging
  <2> QED
    BY <2>1 DEF Reached, Waiting, Judging
<1>6. CASE CloseLane
  <2>1. NextLane /\ pc = "close" /\ UNCHANGED <<run, total>>
    BY <1>6 DEF CloseLane
  <2>2. active' \subseteq active
    BY <1>6, CloseFacts
  <2>3. /\ pc' \in {"count", "top"} /\ (pc' = "count" => k' = k)
        /\ \A j \in Lanes : Waiting(j)' <=> Waiting(j) /\ j # lane
    BY <1>0, <2>1, NextLaneWaiting
  <2>4. \A j \in Lanes : /\ Waiting(j)' => k' = k
                         /\ Waiting(j) => j # lane
    BY <1>0, <2>1, <2>3 DEF Waiting, Judging
  <2>5. ASSUME NEW j \in active PROVE Reached(j)' = Reached(j)
    <3>1. j \in Lanes /\ total'[j] = total[j]
      BY <1>0, <2>1
    <3>2. CASE Waiting(j)
      <4>1. Waiting(j)' /\ k' = k
        BY <2>3, <2>4, <3>1, <3>2
      <4> QED
        BY <3>1, <3>2, <4>1 DEF Reached
    <3>3. CASE ~Waiting(j)
      <4>1. ~Waiting(j)'
        BY <2>3, <3>1, <3>3
      <4> QED
        BY <3>1, <3>3, <4>1 DEF Reached
    <3> QED
      BY <3>2, <3>3
  <2> QED
    BY <2>1, <2>2, <2>5
<1>7. CASE LeaveLoop
  BY <1>7 DEF LeaveLoop, Reached, Waiting, Judging
<1>8. CASE ClockExpires
  BY <1>8 DEF ClockExpires, outcome, block, Reached, Waiting, Judging
<1> QED
  BY <1>1, <1>2, <1>3, <1>4, <1>5, <1>6, <1>7, <1>8

\* A dispatch brings all of them equally further, and none past the limit.
LEMMA ReachedGrows ==
    ASSUME TypeOK, BlockInv, MeasureBaselines \/ MinorIterations \/ LastIteration
    PROVE  /\ run' = run /\ active' = active /\ k' \in Nat /\ k' > k
           /\ \A j \in active : /\ Reached(j) = total[j] + k
                                /\ Reached(j)' = total[j] + k'
<1>1. /\ pc = "iterate" /\ pc' \in {"iterate", "gather"} /\ k' \in Nat /\ k' > k
      /\ UNCHANGED <<run, active, total>>
  BY DispatchFacts
<1> QED
  BY <1>1 DEF Reached, Waiting

LEMMA LockstepAlways == Spec => []Lockstep
<1>1. Init => Lockstep
  BY DEF Init, Lockstep, Reached, Waiting, Judging
<1>2. TypeOK /\ BlockInv /\ Lockstep /\ [Next]_vars => Lockstep'
  <2> SUFFICES ASSUME TypeOK, BlockInv, Lockstep, [Next]_vars,
                      NEW i \in active', NEW j \in active'
               PROVE  Reached(i)' = Reached(j)'
    BY DEF Lockstep
  <2>1. CASE MeasureBaselines \/ MinorIterations \/ LastIteration
    <3>1. /\ i \in active /\ j \in active /\ k' \in Nat /\ k \in Nat
          /\ Reached(i) = total[i] + k /\ Reached(j) = total[j] + k
          /\ Reached(i)' = total[i] + k' /\ Reached(j)' = total[j] + k'
          /\ total[i] \in Nat /\ total[j] \in Nat
      BY <2>1, ReachedGrows DEF TypeOK
    <3>2. total[i] = total[j]
      BY <3>1 DEF Lockstep
    <3> QED
      BY <3>1, <3>2
  <2>2. CASE \/ DropExpired \/ PlanBlock \/ Gather \/ CountLane \/ Recover \/ GiveUp
             \/ Accept \/ Test \/ RestartTest \/ CloseLane \/ LeaveLoop \/ ClockExpires
    BY <2>2, ReachedStays DEF Lockstep
  <2>3. CASE UNCHANGED vars
    BY <2>3 DEF vars, outcome, block, Lockstep, Reached, Waiting, Judging
  <2> QED
    BY <2>1, <2>2, <2>3, Zenon DEF Next, Step, Returned
<1> QED
  BY <1>1, <1>2, LanesTypeCorrect, PTL DEF Spec

\* Iterations the group has still to run, if a lane is left to run them for.
IterationsLeft ==
    IF active = {} THEN 0 ELSE run.limit - Reached(CHOOSE j \in active : TRUE)

\* Steps until the next iteration, or to the end: five for each lane to come.
Ahead == [count |-> 5, judge |-> 4, test |-> 3, restart |-> 2, close |-> 1]

Between ==
    CASE pc = "done"    -> 0
      [] pc = "leave"   -> 1
      [] pc = "iterate" -> IF k = 0 THEN 2 ELSE 5 * NumLanes + 6
      [] pc = "plan"    -> 3
      [] pc = "top"     -> 4
      [] pc = "gather"  -> 5 * NumLanes + 5
      [] OTHER          -> 5 * (NumLanes - lane) + Ahead[pc] + 4

Unexpired == {j \in Lanes : ~expired[j]}

\* Bound on the steps still to come.
StepsLeft ==
    (5 * NumLanes + 5) * IterationsLeft + Between + Cardinality(Unexpired)

LEMMA LeftFor ==
    Lockstep => \A j \in active : IterationsLeft = run.limit - Reached(j)
<1> SUFFICES ASSUME Lockstep, NEW j \in active
             PROVE  IterationsLeft = run.limit - Reached(j)
  OBVIOUS
<1>1. (CHOOSE i \in active : TRUE) \in active
  OBVIOUS
<1>2. Reached(CHOOSE i \in active : TRUE) = Reached(j)
  BY <1>1 DEF Lockstep
<1> QED
  BY <1>2 DEF IterationsLeft

LEMMA LeftForNext ==
    Lockstep' => (\A j \in active : IterationsLeft = run.limit - Reached(j))'
BY LeftFor, PTL

\* The block never takes a lane past the limit.
LEMMA ReachedWithinLimit ==
    ASSUME TypeOK, BlockInv, NEW j \in active
    PROVE  Reached(j) \in 0 .. run.limit
<1>1. /\ j \in Lanes /\ total[j] \in 0 .. run.limit /\ conditional[j] \in BOOLEAN
      /\ k \in Nat /\ distance \in Int /\ run.limit \in Nat
  BY ConfigFacts DEF TypeOK, BlockInv
<1>2. CASE Waiting(j)
  <2>1. k <= distance
    BY <1>1, <1>2 DEF Waiting, BlockInv, Judging
  <2>2. distance <= due[j] /\ due[j] = Due(total[j], conditional[j])
    BY <1>2 DEF BlockInv
  <2>3. Due(total[j], conditional[j]) \in Nat
        /\ Due(total[j], conditional[j]) <= run.limit - total[j]
    BY <1>1, DueFacts
  <2>4. total[j] + k \in 0 .. run.limit
    BY <1>1, <2>1, <2>2, <2>3
  <2> QED
    BY <1>2, <2>4 DEF Reached
<1>3. CASE ~Waiting(j)
  BY <1>1, <1>3 DEF Reached
<1> QED
  BY <1>2, <1>3

LEMMA IterationsLeftType ==
    ASSUME TypeOK, BlockInv, Lockstep
    PROVE  IterationsLeft \in 0 .. run.limit
<1>1. run.limit \in Nat
  BY ConfigFacts
<1>2. CASE active = {}
  BY <1>1, <1>2 DEF IterationsLeft
<1>3. CASE active # {}
  <2>1. PICK j \in active : TRUE
    BY <1>3
  <2>2. Reached(j) \in 0 .. run.limit /\ IterationsLeft = run.limit - Reached(j)
    BY <2>1, ReachedWithinLimit, LeftFor
  <2> QED
    BY <1>1, <2>2
<1> QED
  BY <1>2, <1>3

LEMMA BetweenType ==
    ASSUME TypeOK
    PROVE  Between \in 0 .. 5 * NumLanes + 6
<1>1. NumLanes \in Nat \ {0} /\ lane \in 1 .. NumLanes /\ k \in Nat
  BY ConfigFacts DEF TypeOK, Lanes
<1>2. CASE pc \in {"count", "judge", "test", "restart", "close"}
  <2>1. Ahead[pc] \in 1 .. 5
    BY <1>2 DEF Ahead
  <2>2. Between = 5 * (NumLanes - lane) + Ahead[pc] + 4
    BY <1>2 DEF Between
  <2> QED
    BY <1>1, <2>1, <2>2
<1>3. CASE pc \in {"top", "plan", "iterate", "gather", "leave", "done"}
  BY <1>1, <1>3 DEF Between
<1> QED
  BY <1>2, <1>3 DEF TypeOK

LEMMA UnexpiredType ==
    /\ IsFiniteSet(Unexpired) /\ Cardinality(Unexpired) \in Nat
    /\ Cardinality(Unexpired) <= NumLanes
<1>1. NumLanes \in Nat \ {0}
  BY LanesAssumption
<1>2. IsFiniteSet(Lanes) /\ Cardinality(Lanes) = NumLanes
  BY <1>1, FS_Interval DEF Lanes
<1>3. Unexpired \subseteq Lanes
  BY DEF Unexpired
<1> QED
  BY <1>2, <1>3, FS_Subset, FS_CardinalityType

\* Between two iterations the group moves on through its locations and lanes.
LEMMA BetweenFalls ==
    ASSUME TypeOK, BlockInv,
           \/ DropExpired \/ PlanBlock \/ Gather \/ CountLane \/ Recover \/ GiveUp
           \/ Accept \/ Test \/ RestartTest \/ CloseLane \/ LeaveLoop
    PROVE  Between' + 1 <= Between /\ expired' = expired
<1>0. NumLanes \in Nat \ {0} /\ lane \in 1 .. NumLanes /\ k \in Nat
  BY ConfigFacts DEF TypeOK, Lanes
<1>1. CASE DropExpired \/ PlanBlock
  <2>1. /\ expired' = expired
        /\ \/ pc = "top" /\ pc' \in {"leave", "plan"}
           \/ pc = "plan" /\ (pc' = "leave" \/ (pc' = "iterate" /\ k' = 0))
    BY <1>1 DEF DropExpired, PlanBlock
  <2> QED
    BY <2>1 DEF Between
<1>2. CASE Gather
  <2>1. pc = "gather" /\ pc' = "count" /\ lane' = 1 /\ expired' = expired
    BY <1>2 DEF Gather
  <2>2. Between' = 5 * (NumLanes - 1) + 5 + 4 /\ Between = 5 * NumLanes + 5
    BY <2>1 DEF Between, Ahead
  <2> QED
    BY <1>0, <2>1, <2>2
<1>3. ASSUME NextLane, pc \in {"count", "close"} PROVE Between' + 1 <= Between
  <2>1. Between = 5 * (NumLanes - lane) + Ahead[pc] + 4 /\ Ahead[pc] \in {1, 5}
    BY <1>3 DEF Between, Ahead
  <2>2. CASE lane < NumLanes
    <3>1. lane' = lane + 1 /\ pc' = "count"
      BY <1>3, <2>2 DEF NextLane
    <3>2. Between' = 5 * (NumLanes - (lane + 1)) + 5 + 4
      BY <3>1 DEF Between, Ahead
    <3> QED
      BY <1>0, <2>1, <3>2
  <2>3. CASE ~(lane < NumLanes)
    <3>1. Between' = 4
      BY <1>3, <2>3 DEF NextLane, Between
    <3> QED
      BY <1>0, <2>1, <2>3, <3>1
  <2> QED
    BY <2>2, <2>3
<1>4. CASE CountLane
  <2>1. pc = "count" /\ expired' = expired
        /\ (NextLane \/ (pc' = "judge" /\ lane' = lane))
    BY <1>4, CountFacts
  <2>2. CASE NextLane
    BY <1>3, <2>1, <2>2
  <2>3. CASE pc' = "judge" /\ lane' = lane
    <3>1. /\ Between = 5 * (NumLanes - lane) + 5 + 4
          /\ Between' = 5 * (NumLanes - lane) + 4 + 4
      BY <2>1, <2>3 DEF Between, Ahead
    <3> QED
      BY <1>0, <2>1, <3>1
  <2> QED
    BY <2>1, <2>2, <2>3
<1>5. CASE Recover \/ GiveUp \/ Accept \/ Test \/ RestartTest
  <2>1. expired' = expired /\ lane' = lane
    BY <1>5, JudgeFacts
  <2>2. \/ pc = "judge" /\ pc' \in {"close", "test"}
        \/ pc = "test" /\ pc' = "restart"
        \/ pc = "restart" /\ pc' = "close"
    BY <1>5 DEF Recover, GiveUp, Accept, Test, RestartTest
  <2>3. PICK a, b \in 1 .. 4 :
          /\ b < a /\ Between = 5 * (NumLanes - lane) + a + 4
          /\ Between' = 5 * (NumLanes - lane) + b + 4
    <3>1. Ahead[pc] \in 1 .. 4 /\ Ahead[pc'] \in 1 .. 4 /\ Ahead[pc'] < Ahead[pc]
      BY <2>2 DEF Ahead
    <3>2. /\ Between = 5 * (NumLanes - lane) + Ahead[pc] + 4
          /\ Between' = 5 * (NumLanes - lane) + Ahead[pc'] + 4
      BY <2>1, <2>2 DEF Between
    <3> QED
      BY <3>1, <3>2
  <2> QED
    BY <1>0, <2>1, <2>3
<1>6. CASE CloseLane
  <2>1. NextLane /\ pc = "close" /\ expired' = expired
    BY <1>6 DEF CloseLane
  <2> QED
    BY <1>3, <2>1
<1>7. CASE LeaveLoop
  BY <1>7 DEF LeaveLoop, Between
<1> QED
  BY <1>1, <1>2, <1>4, <1>5, <1>6, <1>7

LEMMA Weighed ==
    ASSUME NEW w \in Nat, NEW m \in Nat, NEW n \in Nat
    PROVE  /\ w * m \in Nat
           /\ m <= n => w * m <= w * n
           /\ m < n => w * m + w <= w * n
<1>1. w * m \in Nat
  OBVIOUS
<1>2. ASSUME m <= n PROVE w * m <= w * n
  BY <1>2
<1>3. ASSUME m < n PROVE w * m + w <= w * n
  <2>1. w * (m + 1) <= w * n
    <3>1. PICK d \in Nat : n = (m + 1) + d
      BY <1>3
    <3>2. w * n = w * (m + 1) + w * d /\ w * d \in Nat /\ w * (m + 1) \in Nat
      BY <3>1
    <3> QED
      BY <3>2
  <2>2. w * (m + 1) = w * m + w
    OBVIOUS
  <2> QED
    BY <2>1, <2>2
<1> QED
  BY <1>1, <1>2, <1>3

\* Lanes that leave may only make the iterations left fewer.
LEMMA IterationsStay ==
    ASSUME TypeOK, BlockInv, Lockstep, TypeOK', BlockInv', Lockstep',
           \/ DropExpired \/ PlanBlock \/ Gather \/ CountLane \/ Recover \/ GiveUp
           \/ Accept \/ Test \/ RestartTest \/ CloseLane \/ LeaveLoop \/ ClockExpires
    PROVE  IterationsLeft' <= IterationsLeft
<1>1. run' = run /\ \A j \in active' : j \in active /\ Reached(j)' = Reached(j)
  BY ReachedStays
<1>2. CASE active' = {}
  <2>1. IterationsLeft' = 0
    BY <1>2 DEF IterationsLeft
  <2> QED
    BY <2>1, IterationsLeftType
<1>3. CASE active' # {}
  <2>1. PICK j \in active' : TRUE
    BY <1>3
  <2>2. j \in active /\ Reached(j)' = Reached(j) /\ run' = run
    BY <1>1, <2>1
  <2>3. IterationsLeft = run.limit - Reached(j)
    BY <2>2, LeftFor
  <2>4. (\A i \in active : IterationsLeft = run.limit - Reached(i))'
    BY LeftForNext
  <2>5. IterationsLeft' = run'.limit - Reached(j)'
    BY <2>1, <2>4
  <2>6. IterationsLeft' = IterationsLeft
    BY <2>2, <2>3, <2>5
  <2>7. PICK m \in Nat : m = IterationsLeft
    BY IterationsLeftType, ConfigFacts
  <2>8. m <= m
    OBVIOUS
  <2> QED
    BY <2>6, <2>7, <2>8, Zenon
<1> QED
  BY <1>2, <1>3

\* Every iteration counts for all the lanes there are; a block only runs for some.
LEMMA IterationsFall ==
    ASSUME TypeOK, BlockInv, Lockstep, TypeOK', BlockInv', Lockstep', active # {},
           MeasureBaselines \/ MinorIterations \/ LastIteration
    PROVE  IterationsLeft' < IterationsLeft
<1>1. PICK j \in active : TRUE
  OBVIOUS
<1>2. /\ run' = run /\ active' = active /\ k' \in Nat /\ k' > k
      /\ Reached(j) = total[j] + k /\ Reached(j)' = total[j] + k'
  BY <1>1, ReachedGrows
<1>3. IterationsLeft = run.limit - Reached(j)
  BY <1>1, LeftFor
<1>4. (\A i \in active : IterationsLeft = run.limit - Reached(i))'
  BY LeftForNext
<1>5. IterationsLeft' = run'.limit - Reached(j)'
  BY <1>1, <1>2, <1>4
<1>6. total[j] \in Nat /\ k \in Nat /\ run.limit \in Nat
  BY <1>1, ConfigFacts DEF TypeOK
<1>7. /\ IterationsLeft = run.limit - (total[j] + k)
      /\ IterationsLeft' = run.limit - (total[j] + k')
  BY <1>2, <1>3, <1>5
<1>8. run.limit - (total[j] + k') < run.limit - (total[j] + k)
  BY <1>2, <1>6
<1> QED
  BY <1>7, <1>8, Zenon

\* A block only runs where a lane is active.
Occupied == pc = "iterate" => active # {}

LEMMA OccupiedAlways == Spec => []Occupied
<1>1. Init => Occupied
  BY DEF Init, Occupied
<1>2. TypeOK /\ BlockInv /\ Occupied /\ [Next]_vars => Occupied'
  <2> SUFFICES ASSUME TypeOK, BlockInv, Occupied, [Next]_vars PROVE Occupied'
    OBVIOUS
  <2>1. CASE MeasureBaselines \/ MinorIterations \/ LastIteration
    BY <2>1, DispatchFacts DEF Occupied
  <2>2. CASE PlanBlock
    BY <2>2 DEF PlanBlock, outcome, BlockInv, Occupied
  <2>3. CASE DropExpired \/ Gather \/ LeaveLoop
    <3>1. pc' \in {"leave", "plan", "count", "done"}
      BY <2>3 DEF DropExpired, Gather, LeaveLoop
    <3> QED
      BY <3>1 DEF Occupied
  <2>4. CASE CountLane \/ CloseLane
    <3>1. pc' \in {"count", "top", "judge"}
      BY <2>4, CountFacts DEF CloseLane, NextLane
    <3> QED
      BY <3>1 DEF Occupied
  <2>5. CASE Recover \/ GiveUp \/ Accept \/ Test \/ RestartTest
    BY <2>5, JudgeFacts DEF Occupied
  <2>6. CASE ClockExpires \/ UNCHANGED vars
    BY <2>6 DEF ClockExpires, vars, outcome, Occupied
  <2> QED
    BY <2>1, <2>2, <2>3, <2>4, <2>5, <2>6, Zenon DEF Next, Step, Returned
<1> QED
  BY <1>1, <1>2, LanesTypeCorrect, PTL DEF Spec

GroupInv == TypeOK /\ BlockInv /\ Lockstep /\ Occupied

LEMMA StepsLeftType ==
    ASSUME GroupInv
    PROVE  StepsLeft \in 0 .. (5 * NumLanes + 5) * (run.limit + 1) + NumLanes + 1
<1> DEFINE w == 5 * NumLanes + 5
<1>1. NumLanes \in Nat \ {0} /\ w \in Nat /\ run.limit \in Nat
  BY ConfigFacts DEF GroupInv
<1>2. /\ IterationsLeft \in 0 .. run.limit /\ Between \in 0 .. 5 * NumLanes + 6
      /\ Cardinality(Unexpired) \in 0 .. NumLanes
  BY <1>1, IterationsLeftType, BetweenType, UnexpiredType DEF GroupInv
<1> HIDE DEF w
<1>3. w * IterationsLeft \in Nat /\ w * IterationsLeft <= w * run.limit /\ w * run.limit \in Nat
  BY <1>1, <1>2, Weighed
<1>4. w * (run.limit + 1) = w * run.limit + w
  BY <1>1
<1>5. StepsLeft = w * IterationsLeft + Between + Cardinality(Unexpired)
  BY DEF StepsLeft, w
<1>6. 5 * NumLanes + 6 <= w + 1
  BY <1>1 DEF w
<1>7. StepsLeft \in 0 .. w * (run.limit + 1) + NumLanes + 1
  BY <1>1, <1>2, <1>3, <1>4, <1>5, <1>6
<1> QED
  BY <1>7 DEF w

LEMMA Counts ==
    GroupInv => /\ IterationsLeft \in Nat /\ Between \in Nat /\ Between <= 5 * NumLanes + 6
                /\ Cardinality(Unexpired) \in Nat
<1> SUFFICES ASSUME GroupInv
             PROVE  /\ IterationsLeft \in Nat /\ Between \in Nat
                    /\ Between <= 5 * NumLanes + 6 /\ Cardinality(Unexpired) \in Nat
  OBVIOUS
<1>1. NumLanes \in Nat /\ run.limit \in Nat
  BY ConfigFacts DEF GroupInv
<1>2. IterationsLeft \in 0 .. run.limit /\ Between \in 0 .. 5 * NumLanes + 6
  BY IterationsLeftType, BetweenType DEF GroupInv
<1> QED
  BY <1>1, <1>2, UnexpiredType

LEMMA CountsNext ==
    GroupInv' => (/\ IterationsLeft \in Nat /\ Between \in Nat
                  /\ Between <= 5 * NumLanes + 6 /\ Cardinality(Unexpired) \in Nat)'
BY Counts, PTL

LEMMA StepsFall ==
    ASSUME GroupInv, GroupInv', Next, ~UNCHANGED vars
    PROVE  StepsLeft' < StepsLeft
<1> DEFINE w == 5 * NumLanes + 5
<1>1. NumLanes \in Nat \ {0} /\ w \in Nat
  BY LanesAssumption
<1>2. IterationsLeft \in Nat /\ Between \in Nat /\ Cardinality(Unexpired) \in Nat
  BY Counts
<1>3. /\ IterationsLeft' \in Nat /\ Between' \in Nat /\ Cardinality(Unexpired)' \in Nat
      /\ Between' <= 5 * NumLanes + 6
  BY CountsNext
<1>4. PICK m, b, c, n, d, e \in Nat :
        /\ m = IterationsLeft /\ b = Between /\ c = Cardinality(Unexpired)
        /\ n = IterationsLeft' /\ d = Between' /\ e = Cardinality(Unexpired)'
  BY <1>2, <1>3, Zenon
<1>5. d <= 5 * NumLanes + 6
  BY <1>3, <1>4, Zenon
<1> HIDE DEF w
<1>6. w * m \in Nat /\ w * n \in Nat
  BY <1>1, Weighed
<1>7. StepsLeft = w * m + b + c /\ StepsLeft' = w * n + d + e
  BY <1>4 DEF StepsLeft, w
<1>8. CASE MeasureBaselines \/ MinorIterations \/ LastIteration
  <2>1. IterationsLeft' < IterationsLeft
    <3>1. active # {}
      BY <1>8, DispatchFacts DEF GroupInv, Occupied
    <3> QED
      BY <1>8, <3>1, IterationsFall DEF GroupInv
  <2>2. w * n + w <= w * m
    BY <1>1, <1>4, <2>1, Weighed
  <2>3. expired' = expired /\ pc = "iterate" /\ pc' \in {"iterate", "gather"}
        /\ k' \in Nat /\ k' > k /\ k \in Nat
    BY <1>8, DispatchFacts DEF GroupInv, TypeOK
  <2>4. e = c
    BY <1>4, <2>3 DEF Unexpired
  <2>5. b >= 2
    BY <1>1, <1>4, <2>3 DEF Between
  <2>6. w = 5 * NumLanes + 5
    BY DEF w
  <2> QED
    BY <1>1, <1>5, <1>6, <1>7, <2>2, <2>4, <2>5, <2>6
<1>9. CASE \/ DropExpired \/ PlanBlock \/ Gather \/ CountLane \/ Recover \/ GiveUp
           \/ Accept \/ Test \/ RestartTest \/ CloseLane \/ LeaveLoop
  <2>1. IterationsLeft' <= IterationsLeft
    BY <1>9, IterationsStay DEF GroupInv
  <2>2. w * n <= w * m
    BY <1>1, <1>4, <2>1, Weighed
  <2>3. Between' + 1 <= Between /\ expired' = expired
    BY <1>9, BetweenFalls DEF GroupInv
  <2>4. d + 1 <= b /\ e = c
    BY <1>4, <2>3 DEF Unexpired
  <2> QED
    BY <1>6, <1>7, <2>2, <2>4
<1>10. CASE ClockExpires
  <2>1. IterationsLeft' <= IterationsLeft
    BY <1>10, IterationsStay DEF GroupInv
  <2>2. w * n <= w * m
    BY <1>1, <1>4, <2>1, Weighed
  <2>3. PICK j \in Lanes : ~expired[j] /\ expired' = [expired EXCEPT ![j] = TRUE]
    BY <1>10 DEF ClockExpires
  <2>4. expired \in [Lanes -> BOOLEAN] /\ UNCHANGED <<pc, k, lane>>
    BY <1>10 DEF ClockExpires, block, GroupInv, TypeOK
  <2>5. j \in Unexpired /\ Unexpired' = Unexpired \ {j}
    BY <2>3, <2>4, Zenon DEF Unexpired
  <2>6. Cardinality(Unexpired \ {j}) = Cardinality(Unexpired) - 1
    BY <2>5, UnexpiredType, FS_RemoveElement
  <2>7. e < c /\ d = b
    BY <1>4, <2>4, <2>5, <2>6 DEF Between
  <2> QED
    BY <1>6, <1>7, <2>2, <2>7
<1> QED
  BY <1>8, <1>9, <1>10, Zenon DEF Next, Step, Returned

\* Nothing makes a group run on: its lanes stay at the same iteration although
\* they are judged, passed over, restarted and set back apart, every block runs an
\* iteration for all of them, and between two iterations each step brings the
\* group further; GroupTermination then rests on no location being without a step.
THEOREM LanesStepsBounded ==
    Spec => /\ [](StepsLeft \in 0 .. (5 * NumLanes + 5) * (run.limit + 1) + NumLanes + 1)
            /\ [][StepsLeft' < StepsLeft]_vars
<1>1. GroupInv => StepsLeft \in 0 .. (5 * NumLanes + 5) * (run.limit + 1) + NumLanes + 1
  BY StepsLeftType
<1>2. GroupInv /\ GroupInv' /\ [Next]_vars => [StepsLeft' < StepsLeft]_vars
  BY StepsFall
<1>3. Spec => []GroupInv
  BY LanesTypeCorrect, LockstepAlways, OccupiedAlways, PTL DEF GroupInv
<1> QED
  BY <1>1, <1>2, <1>3, PTL DEF Spec
==============================================================================
