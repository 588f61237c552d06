--------------------------- MODULE BatchPlanProofs ---------------------------
(***************************************************************************)
(* For any number of callers, requests and budgets: a call returns a result *)
(* for every member, in input order; the plan belongs to one call at a time *)
(* and every group's padded workspace fits its budget.                     *)
(***************************************************************************)
EXTENDS BatchPlan, FiniteSetTheorems, TLAPS

LEMMA DivMod ==
    ASSUME NEW a \in Nat, NEW b \in Nat, b > 0
    PROVE  a = b * (a \div b) + (a % b) /\ a \div b \in Nat /\ a % b \in 0 .. b - 1
OBVIOUS

LEMMA Multiples ==
    ASSUME NEW x \in Nat, NEW y \in Nat, NEW z \in Nat, x <= y
    PROVE  x * z <= y * z
OBVIOUS

\* Padding to whole tiles stays within a whole number of tiles.
LEMMA Padding ==
    ASSUME NEW w \in Nat, NEW q \in Nat, NEW t \in Nat, t > 0, w <= q * t
    PROVE  /\ ((w + t - 1) \div t) * t \in Nat
           /\ ((w + t - 1) \div t) * t <= q * t
<1> DEFINE a == w + t - 1
           p == a \div t
<1>1. a \in Nat /\ a <= q * t + t - 1
  OBVIOUS
<1>2. a = t * p + (a % t) /\ p \in Nat /\ a % t \in 0 .. t - 1
  BY <1>1, DivMod
<1>3. p <= q
  <2>1. p > q => (q + 1) * t <= p * t
    BY <1>2, Multiples
  <2>2. (q + 1) * t = q * t + t
    OBVIOUS
  <2>3. p * t <= a
    BY <1>1, <1>2
  <2> HIDE DEF p
  <2>4. q * t \in Nat /\ p * t \in Int
    BY <1>2
  <2> QED
    BY <1>1, <1>2, <2>1, <2>2, <2>3, <2>4
<1> QED
  BY <1>2, <1>3, Multiples

LEMMA RequestTyped ==
    ASSUME NEW c \in Callers
    PROVE  /\ Size(c) \in Nat /\ Request[c].tile \in Nat /\ Request[c].tile > 0
           /\ Request[c].budget \in Nat /\ Request[c].base \in Nat
           /\ Request[c].laneBytes \in Nat /\ Request[c].laneBytes > 0
           /\ Request[c].shared \in BOOLEAN /\ Request[c].timed \in BOOLEAN
BY PlanAssumption DEF IsRequest, Size

\* A group of an admitted request has members, and fits the budget padded.
LEMMA GroupFits ==
    ASSUME NEW c \in Callers, Fits(c)
    PROVE  /\ GroupWidth(c) \in Nat
           /\ Size(c) > 0 => GroupWidth(c) > 0
           /\ Shared(c) /\ Request[c].budget # 0 =>
                \A w \in 0 .. GroupWidth(c) :
                  Request[c].base
                    + (((w + Request[c].tile - 1) \div Request[c].tile) * Request[c].tile)
                        * Request[c].laneBytes <= Request[c].budget
<1> DEFINE r == Request[c]
           rest == r.budget - r.base
           lanes == rest \div r.laneBytes
           tiles == lanes \div r.tile
<1>1. /\ Size(c) \in Nat /\ r.tile \in Nat /\ r.tile > 0 /\ r.budget \in Nat
      /\ r.base \in Nat /\ r.laneBytes \in Nat /\ r.laneBytes > 0
  BY RequestTyped
<1>2. CASE r.budget = 0
  BY <1>1, <1>2 DEF GroupWidth
<1>3. CASE r.budget # 0
  <2>1. rest \in Nat /\ lanes >= (IF Shared(c) THEN r.tile ELSE 1)
    BY <1>1, <1>3 DEF Fits
  <2>2. rest = r.laneBytes * lanes + (rest % r.laneBytes) /\ lanes \in Nat
          /\ rest % r.laneBytes \in 0 .. r.laneBytes - 1
    BY <1>1, <2>1, DivMod
  <2> HIDE DEF lanes
  <2>3. lanes = r.tile * tiles + (lanes % r.tile) /\ tiles \in Nat
          /\ lanes % r.tile \in 0 .. r.tile - 1
    BY <1>1, <2>2, DivMod
  <2> HIDE DEF tiles
  <2>4. CASE ~Shared(c)
    <3>1. GroupWidth(c) = Least(1, lanes) /\ lanes >= 1
      BY <1>3, <2>1, <2>4 DEF GroupWidth, Available, lanes
    <3> QED
      BY <2>2, <2>4, <3>1 DEF Least
  <2>5. CASE Shared(c)
    <3>1. GroupWidth(c) = Least(Size(c), lanes - (lanes % r.tile)) /\ lanes >= r.tile
      BY <1>3, <2>1, <2>5 DEF GroupWidth, Available, lanes
    <3>2. lanes - (lanes % r.tile) = tiles * r.tile
      BY <1>1, <2>2, <2>3
    <3>3. tiles * r.tile \in Nat /\ tiles * r.tile > 0
      <4>1. lanes - (lanes % r.tile) \in Nat /\ lanes - (lanes % r.tile) > 0
        <5>1. lanes % r.tile \in Nat /\ lanes % r.tile < r.tile
          BY <1>1, <2>3
        <5>2. r.tile \in Nat /\ lanes \in Nat /\ lanes >= r.tile
          BY <1>1, <2>2, <3>1
        <5> QED
          BY <5>1, <5>2
      <4> QED
        BY <3>2, <4>1
    <3>4. GroupWidth(c) \in Nat /\ GroupWidth(c) <= tiles * r.tile
            /\ (Size(c) > 0 => GroupWidth(c) > 0)
      BY <1>1, <3>1, <3>2, <3>3 DEF Least
    <3>5. ASSUME NEW w \in 0 .. GroupWidth(c)
          PROVE  r.base + (((w + r.tile - 1) \div r.tile) * r.tile) * r.laneBytes <= r.budget
      <4> DEFINE padded == ((w + r.tile - 1) \div r.tile) * r.tile
      <4>1. w \in Nat /\ w <= tiles * r.tile
        BY <3>3, <3>4
      <4>2. padded \in Nat /\ padded <= tiles * r.tile
        BY <1>1, <2>3, <4>1, Padding
      <4> HIDE DEF padded
      <4>3. padded <= lanes
        BY <1>1, <2>2, <2>3, <3>2, <3>3, <4>2
      <4>4. padded * r.laneBytes <= lanes * r.laneBytes
        BY <1>1, <2>2, <4>2, <4>3, Multiples
      <4>5. lanes * r.laneBytes <= rest
        BY <1>1, <2>1, <2>2
      <4>6. padded * r.laneBytes \in Int /\ lanes * r.laneBytes \in Int
        BY <1>1, <2>2, <4>2
      <4>7. r.base + padded * r.laneBytes <= r.budget
        BY <1>1, <4>4, <4>5, <4>6
      <4> QED
        BY <4>7 DEF padded
    <3> QED
      BY <3>4, <3>5
  <2> QED
    BY <2>4, <2>5
<1> QED
  BY <1>2, <1>3

------------------------------------------------------------------------------
(* The inductive invariant: how far a call is, and what it has answered.   *)

Arrays ==
    /\ solvers = [c \in Callers |-> solvers[c]]
    /\ admitted = [c \in Callers |-> admitted[c]]
    /\ results = [c \in Callers |-> results[c]]

\* Members are admitted in order, and while a group runs its solvers are the
\* last ones admitted; a group is only left early at the deadline.
Progress(c) ==
    /\ next[c] <= Size(c) /\ admitted[c] = 0 .. next[c] - 1
    /\ pc[c] \in {"enter", "wait"} => next[c] = 0 /\ begin[c] = 0
    /\ pc[c] \in {"wait", "group", "admit"} => Fits(c)
    /\ pc[c] = "group" => next[c] = Least(begin[c], Size(c)) \/ expired[c]
    /\ pc[c] = "admit" => /\ begin[c] < Size(c)
                          /\ begin[c] <= next[c] /\ next[c] <= begin[c] + GroupWidth(c)
    /\ pc[c] \in {"fill", "returned"} => next[c] = Size(c) \/ expired[c]
    /\ solvers[c] = IF pc[c] = "admit" /\ Shared(c) THEN begin[c] .. next[c] - 1 ELSE {}

\* Members with a result: all admitted ones but those of a running group.
Given(c) == IF pc[c] = "admit" /\ Shared(c) THEN begin[c] ELSE next[c]

Answered(c) ==
    /\ pc[c] \in {"enter", "wait", "group", "admit", "fill"} =>
         \A i \in Inputs(c) : results[c][i] = IF i < Given(c) THEN "solved" ELSE None
    /\ pc[c] = "returned" =>
         \A i \in Inputs(c) : results[c][i] = IF i < next[c] THEN "solved" ELSE "unstarted"

Owned(c) == pc[c] \in {"group", "admit"} => holder = c /\ stream = c

PlanInv ==
    /\ TypeOK /\ Arrays
    /\ \A c \in Callers : Progress(c) /\ Answered(c) /\ Owned(c)

LEMMA PlanInit ==
    Init => PlanInv
<1> SUFFICES ASSUME Init PROVE PlanInv
  OBVIOUS
<1>1. ASSUME NEW c \in Callers
      PROVE  /\ pc[c] = "enter" /\ expired[c] = FALSE /\ begin[c] = 0 /\ next[c] = 0
             /\ solvers[c] = {} /\ admitted[c] = {}
             /\ results[c] = [i \in Inputs(c) |-> None]
  BY DEF Init
<1>2. TypeOK
  BY <1>1 DEF Init, TypeOK, Ended
<1>3. Arrays
  BY DEF Init, Arrays
<1>4. ASSUME NEW c \in Callers PROVE Progress(c) /\ Answered(c) /\ Owned(c)
  <2>1. 0 .. 0 - 1 = {} /\ Size(c) \in Nat
    BY RequestTyped
  <2>2. Progress(c)
    <3>1. pc[c] = "enter" /\ begin[c] = 0 /\ next[c] = 0 /\ solvers[c] = {} /\ admitted[c] = {}
      BY <1>1
    <3> QED
      BY <2>1, <3>1 DEF Progress
  <2>3. ASSUME NEW i \in Inputs(c) PROVE results[c][i] = None /\ ~(i < 0)
    <3>1. results[c] = [m \in Inputs(c) |-> None]
      BY <1>1
    <3>2. i \in Nat
      BY <2>1 DEF Inputs
    <3> QED
      BY <3>1, <3>2
  <2>4. Answered(c)
    BY <1>1, <2>3 DEF Answered, Given
  <2> QED
    BY <1>1, <2>2, <2>4 DEF Owned
<1> QED
  BY <1>2, <1>3, <1>4 DEF PlanInv

\* What a call's part of the invariant is about.
Mine(c) == <<pc[c], expired[c], begin[c], next[c], solvers[c], admitted[c], results[c]>>

LEMMA PlanFrame ==
    ASSUME NEW c \in Callers, Progress(c), Answered(c), Mine(c)' = Mine(c)
    PROVE  Progress(c)' /\ Answered(c)'
BY DEF Progress, Answered, Given, Mine

\* A step of one call leaves the others alone.
LEMMA OthersKeep ==
    ASSUME PlanInv, NEW c \in Callers, Step(c) \/ Fail(c) \/ ClockExpires(c),
           NEW d \in Callers, d # c
    PROVE  Mine(d)' = Mine(d)
<1> USE DEF Mine, Set
<1>0. /\ pc \in [Callers -> {"enter", "wait", "group", "admit", "fill"} \cup Ended]
      /\ expired \in [Callers -> BOOLEAN]
      /\ begin \in [Callers -> Nat] /\ next \in [Callers -> Nat]
  BY DEF PlanInv, TypeOK
<1>1. CASE Enter(c) \/ Acquire(c) \/ TimeOut(c) \/ NextGroup(c)
  <2>1. /\ pc'[d] = pc[d] /\ next'[d] = next[d]
        /\ expired' = expired /\ begin' = begin /\ solvers' = solvers
        /\ admitted' = admitted /\ results' = results
    <3>1. CASE Enter(c)
      BY <1>0, <3>1 DEF Enter
    <3>2. CASE Acquire(c)
      BY <1>0, <3>2 DEF Acquire
    <3>3. CASE TimeOut(c)
      BY <1>0, <3>3 DEF TimeOut
    <3>4. CASE NextGroup(c)
      BY <1>0, <3>4 DEF NextGroup
    <3> QED
      BY <1>1, <3>1, <3>2, <3>3, <3>4
  <2> QED
    BY <2>1
<1>2. CASE Admit(c)
  BY <1>0, <1>2 DEF Admit, PlanInv, Arrays
<1>3. CASE RunGroup(c)
  BY <1>0, <1>3 DEF RunGroup, GroupResults, PlanInv, Arrays
<1>4. CASE Fill(c) \/ Fail(c)
  BY <1>0, <1>4 DEF Fill, Fail, PlanInv, Arrays
<1>5. CASE ClockExpires(c)
  BY <1>0, <1>5 DEF ClockExpires
<1> QED
  BY <1>1, <1>2, <1>3, <1>4, <1>5 DEF Step

LEMMA Typed ==
    ASSUME PlanInv, NEW c \in Callers
    PROVE  /\ pc \in [Callers -> {"enter", "wait", "group", "admit", "fill"} \cup Ended]
           /\ begin \in [Callers -> Nat] /\ next \in [Callers -> Nat]
           /\ expired \in [Callers -> BOOLEAN]
           /\ Progress(c) /\ Answered(c) /\ Owned(c)
           /\ solvers = [d \in Callers |-> solvers[d]]
           /\ admitted = [d \in Callers |-> admitted[d]]
           /\ results = [d \in Callers |-> results[d]]
           /\ results[c] \in [Inputs(c) -> {"solved", "unstarted", None}]
BY DEF PlanInv, TypeOK, Arrays

------------------------------------------------------------------------------
(* The call that takes the step.                                           *)

LEMMA WaitingKeep ==
    ASSUME PlanInv, NEW c \in Callers, Enter(c) \/ Acquire(c) \/ TimeOut(c)
    PROVE  Progress(c)' /\ Answered(c)'
<1>1. /\ pc \in [Callers -> {"enter", "wait", "group", "admit", "fill"} \cup Ended]
      /\ begin[c] \in Nat /\ next[c] \in Nat /\ Progress(c) /\ Answered(c)
      /\ Size(c) \in Nat
  BY Typed, RequestTyped
<1>2. UNCHANGED <<begin[c], next[c], expired[c], solvers[c], admitted[c], results[c]>>
  BY DEF Enter, Acquire, TimeOut
<1>3. /\ pc[c] \in {"enter", "wait"} /\ next[c] = 0 /\ begin[c] = 0
  BY <1>1 DEF Enter, Acquire, TimeOut, Progress
<1>4. \/ pc'[c] = "rejected"
      \/ pc'[c] = "returned" /\ Size(c) = 0
      \/ pc'[c] = "wait" /\ Fits(c)
      \/ pc'[c] = "group" /\ Fits(c)
      \/ pc'[c] = "fill" /\ expired[c]
  <2>1. CASE Enter(c)
    BY <1>1, <2>1 DEF Enter, Set
  <2>2. CASE Acquire(c)
    BY <1>1, <2>2 DEF Acquire, Set, Progress
  <2>3. CASE TimeOut(c)
    BY <1>1, <2>3 DEF TimeOut, Set
  <2> QED
    BY <2>1, <2>2, <2>3
<1>5. Progress(c)'
  BY <1>1, <1>2, <1>3, <1>4 DEF Progress, Least
<1>6. Answered(c)'
  <2>1. \A i \in Inputs(c) : results[c][i] = IF i < 0 THEN "solved" ELSE None
    BY <1>1, <1>3 DEF Answered, Given
  <2>2. pc'[c] = "returned" => Inputs(c) = {}
    BY <1>4 DEF Inputs
  <2> QED
    BY <1>2, <1>3, <1>4, <2>1, <2>2 DEF Answered, Given
<1> QED
  BY <1>5, <1>6

LEMMA NextGroupKeeps ==
    ASSUME PlanInv, NEW c \in Callers, NextGroup(c)
    PROVE  Progress(c)' /\ Answered(c)'
<1>1. /\ pc \in [Callers -> {"enter", "wait", "group", "admit", "fill"} \cup Ended]
      /\ next \in [Callers -> Nat]
      /\ begin[c] \in Nat /\ next[c] \in Nat /\ Progress(c) /\ Answered(c)
      /\ Size(c) \in Nat
  BY Typed, RequestTyped
<1>2. UNCHANGED <<begin[c], expired[c], solvers[c], admitted[c], results[c]>> /\ pc[c] = "group"
  BY DEF NextGroup
<1>3. CASE begin[c] < Size(c) /\ ~expired[c]
  <2>1. pc'[c] = "admit" /\ next'[c] = begin[c]
    BY <1>1, <1>3 DEF NextGroup, Set
  <2>2. next[c] = begin[c] /\ Fits(c)
    BY <1>1, <1>2, <1>3 DEF Progress, Least
  <2>3. begin[c] .. begin[c] - 1 = {} /\ GroupWidth(c) \in Nat
    BY <1>1, <2>2, GroupFits
  <2>4. Progress(c)'
    BY <1>1, <1>2, <1>3, <2>1, <2>2, <2>3 DEF Progress
  <2> QED
    BY <1>1, <1>2, <2>1, <2>2, <2>4 DEF Answered, Given
<1>4. CASE ~(begin[c] < Size(c) /\ ~expired[c])
  <2>1. pc'[c] = "fill" /\ next'[c] = next[c]
    BY <1>1, <1>4 DEF NextGroup, Set
  <2>2. next[c] = Size(c) \/ expired[c]
    BY <1>1, <1>2, <1>4 DEF Progress, Least
  <2> QED
    BY <1>1, <1>2, <2>1, <2>2 DEF Progress, Answered, Given
<1> QED
  BY <1>3, <1>4

LEMMA AdmitKeeps ==
    ASSUME PlanInv, NEW c \in Callers, Admit(c)
    PROVE  Progress(c)' /\ Answered(c)'
<1>1. /\ next \in [Callers -> Nat] /\ begin[c] \in Nat /\ next[c] \in Nat
      /\ Progress(c) /\ Answered(c) /\ Size(c) \in Nat /\ GroupWidth(c) \in Nat
  BY Typed, RequestTyped, GroupFits DEF Progress, Admit
<1>2. /\ pc[c] = "admit" /\ pc' = pc /\ begin' = begin /\ expired' = expired
      /\ next'[c] = next[c] + 1
      /\ next[c] < Size(c) /\ next[c] < begin[c] + GroupWidth(c) /\ begin[c] <= next[c]
  BY <1>1 DEF Admit, Set, End, Least, Progress
<1>3. admitted'[c] = admitted[c] \cup {next[c]}
  BY Typed DEF Admit, Set
<1>4. 0 .. next[c] - 1 \cup {next[c]} = 0 .. next[c]
  BY <1>1
<1>5. begin[c] .. next[c] - 1 \cup {next[c]} = begin[c] .. next[c]
  BY <1>1, <1>2
<1>6. CASE Shared(c)
  <2>1. solvers'[c] = solvers[c] \cup {next[c]} /\ results' = results
    BY <1>6, Typed DEF Admit, Set
  <2>2. Progress(c)'
    BY <1>1, <1>2, <1>3, <1>4, <1>5, <1>6, <2>1 DEF Progress
  <2> QED
    BY <1>1, <1>2, <1>6, <2>1, <2>2 DEF Answered, Given
<1>7. CASE ~Shared(c)
  <2>1. solvers' = solvers /\ results'[c] = [results[c] EXCEPT ![next[c]] = "solved"]
    BY <1>7, Typed DEF Admit
  <2>2. Progress(c)'
    BY <1>1, <1>2, <1>3, <1>4, <1>7, <2>1 DEF Progress
  <2>3. ASSUME NEW i \in Inputs(c)
        PROVE  results'[c][i] = IF i < next[c] + 1 THEN "solved" ELSE None
    <3>1. results[c][i] = IF i < next[c] THEN "solved" ELSE None
      BY <1>1, <1>2, <1>7 DEF Answered, Given
    <3>2. results'[c][i] = IF i = next[c] THEN "solved" ELSE results[c][i]
      BY <2>1, Typed
    <3>3. i \in Nat
      BY <1>1 DEF Inputs
    <3> QED
      BY <1>1, <3>1, <3>2, <3>3
  <2> QED
    BY <1>2, <1>7, <2>2, <2>3 DEF Answered, Given
<1> QED
  BY <1>6, <1>7

LEMMA RunGroupKeeps ==
    ASSUME PlanInv, NEW c \in Callers, RunGroup(c)
    PROVE  Progress(c)' /\ Answered(c)'
<1>1. /\ begin[c] \in Nat /\ next[c] \in Nat /\ Progress(c) /\ Answered(c)
      /\ Size(c) \in Nat /\ GroupWidth(c) \in Nat
      /\ pc \in [Callers -> {"enter", "wait", "group", "admit", "fill"} \cup Ended]
      /\ begin \in [Callers -> Nat]
  BY Typed, RequestTyped, GroupFits DEF Progress, RunGroup
<1>2. /\ pc[c] = "admit" /\ pc'[c] = "group" /\ solvers'[c] = {}
      /\ begin'[c] = begin[c] + GroupWidth(c)
      /\ next' = next /\ admitted' = admitted /\ expired' = expired
      /\ next[c] >= End(c) \/ expired[c]
  BY <1>1, Typed DEF RunGroup, Set
<1>3. begin[c] <= next[c] /\ next[c] <= begin[c] + GroupWidth(c) /\ next[c] <= Size(c)
  BY <1>1, <1>2 DEF Progress
<1>4. Progress(c)'
  <2>1. next[c] = Least(begin[c] + GroupWidth(c), Size(c)) \/ expired[c]
    BY <1>1, <1>2, <1>3 DEF End, Least
  <2> QED
    BY <1>1, <1>2, <2>1 DEF Progress
<1>5. ASSUME NEW i \in Inputs(c)
      PROVE  results'[c][i] = IF i < next[c] THEN "solved" ELSE None
  <2>1. i \in Nat
    BY <1>1 DEF Inputs
  <2>2. results'[c][i] = IF i \in solvers[c] THEN "solved" ELSE results[c][i]
    BY Typed DEF RunGroup, GroupResults, Solved, Set
  <2>3. results[c][i] = IF i < Given(c) THEN "solved" ELSE None
    BY <1>1, <1>2 DEF Answered
  <2>4. solvers[c] = IF Shared(c) THEN begin[c] .. next[c] - 1 ELSE {}
    BY <1>1, <1>2 DEF Progress
  <2>5. Given(c) = IF Shared(c) THEN begin[c] ELSE next[c]
    BY <1>2 DEF Given
  <2>6. CASE Shared(c)
    BY <1>1, <1>3, <2>1, <2>2, <2>3, <2>4, <2>5, <2>6
  <2>7. CASE ~Shared(c)
    BY <2>2, <2>3, <2>4, <2>5, <2>7
  <2> QED
    BY <2>6, <2>7
<1> QED
  BY <1>2, <1>4, <1>5 DEF Answered, Given

LEMMA EndingKeep ==
    ASSUME PlanInv, NEW c \in Callers, Fill(c) \/ Fail(c) \/ ClockExpires(c)
    PROVE  Progress(c)' /\ Answered(c)'
<1>1. /\ begin[c] \in Nat /\ next[c] \in Nat /\ Progress(c) /\ Answered(c)
      /\ Size(c) \in Nat
      /\ pc \in [Callers -> {"enter", "wait", "group", "admit", "fill"} \cup Ended]
      /\ expired \in [Callers -> BOOLEAN]
  BY Typed, RequestTyped
<1>2. CASE Fill(c)
  <2>1. /\ pc[c] = "fill" /\ pc'[c] = "returned"
        /\ UNCHANGED <<begin[c], next[c], expired[c], solvers[c], admitted[c]>>
    BY <1>1, <1>2 DEF Fill, Set
  <2>2. Progress(c)'
    BY <1>1, <2>1 DEF Progress
  <2>3. ASSUME NEW i \in Inputs(c)
        PROVE  results'[c][i] = IF i < next[c] THEN "solved" ELSE "unstarted"
    <3>1. results'[c][i] = IF i \in admitted[c] THEN results[c][i] ELSE "unstarted"
      BY <1>2, Typed DEF Fill, Filled, Set
    <3>2. results[c][i] = IF i < next[c] THEN "solved" ELSE None
      BY <1>1, <2>1 DEF Answered, Given
    <3>3. i \in admitted[c] <=> i < next[c]
      BY <1>1 DEF Progress, Inputs
    <3> QED
      BY <3>1, <3>2, <3>3
  <2> QED
    BY <2>1, <2>2, <2>3 DEF Answered
<1>3. CASE Fail(c)
  <2>1. /\ pc'[c] = "failed" /\ solvers'[c] = {}
        /\ UNCHANGED <<begin[c], next[c], expired[c], admitted[c], results[c]>>
    BY <1>1, <1>3, Typed DEF Fail, Set
  <2> QED
    BY <1>1, <2>1 DEF Progress, Answered
<1>4. CASE ClockExpires(c)
  <2>1. /\ expired'[c] = TRUE
        /\ UNCHANGED <<pc, begin, next, solvers, admitted, results>>
    BY <1>1, <1>4 DEF ClockExpires, Set
  <2> QED
    BY <1>1, <2>1 DEF Progress, Answered, Given
<1> QED
  BY <1>2, <1>3, <1>4

LEMMA ProgressKept ==
    ASSUME PlanInv, NEW c \in Callers, Step(c) \/ Fail(c) \/ ClockExpires(c)
    PROVE  \A d \in Callers : Progress(d)' /\ Answered(d)'
<1> SUFFICES ASSUME NEW d \in Callers PROVE Progress(d)' /\ Answered(d)'
  OBVIOUS
<1>1. CASE d = c
  BY <1>1, WaitingKeep, NextGroupKeeps, AdmitKeeps, RunGroupKeeps, EndingKeep DEF Step
<1>2. CASE d # c
  BY <1>2, OthersKeep, PlanFrame, Typed
<1> QED
  BY <1>1, <1>2

------------------------------------------------------------------------------
\* The mutex passes from its holder to nobody, and from nobody to a caller.
LEMMA OwnedKept ==
    ASSUME PlanInv, NEW c \in Callers, Step(c) \/ Fail(c) \/ ClockExpires(c),
           NEW d \in Callers
    PROVE  Owned(d)'
<1>1. /\ pc \in [Callers -> {"enter", "wait", "group", "admit", "fill"} \cup Ended]
      /\ \A e \in Callers : Owned(e)
      /\ None \notin Callers
  BY Typed, PlanAssumption
<1>2. CASE Enter(c) \/ TimeOut(c)
  <2>1. holder' = holder /\ stream' = stream /\ pc'[c] \notin {"group", "admit"}
          /\ (d # c => pc'[d] = pc[d])
    BY <1>1, <1>2 DEF Enter, TimeOut, Set
  <2> QED
    BY <1>1, <2>1 DEF Owned
<1>3. CASE Acquire(c)
  <2>1. holder = None /\ holder' = c /\ stream' = c /\ (d # c => pc'[d] = pc[d])
    BY <1>1, <1>3 DEF Acquire, Set
  <2> QED
    BY <1>1, <2>1 DEF Owned
<1>4. CASE NextGroup(c) \/ Admit(c) \/ RunGroup(c)
  <2>1. /\ holder' = holder /\ stream' = stream /\ pc[c] \in {"group", "admit"}
        /\ d # c => pc'[d] = pc[d]
    BY <1>1, <1>4 DEF NextGroup, Admit, RunGroup, Set
  <2> QED
    BY <1>1, <2>1 DEF Owned
<1>5. CASE Fill(c) \/ Fail(c)
  <2>1. /\ holder' = (IF holder = c THEN None ELSE holder) /\ stream' = stream
        /\ pc'[c] \in {"returned", "failed"} /\ (d # c => pc'[d] = pc[d])
    BY <1>1, <1>5 DEF Fill, Fail, Unlock, Set
  <2> QED
    BY <1>1, <2>1 DEF Owned
<1>6. CASE ClockExpires(c)
  BY <1>1, <1>6 DEF ClockExpires, Owned
<1> QED
  BY <1>2, <1>3, <1>4, <1>5, <1>6 DEF Step

LEMMA ResultsTyped ==
    ASSUME PlanInv, NEW c \in Callers, Step(c) \/ Fail(c) \/ ClockExpires(c),
           NEW d \in Callers
    PROVE  results'[d] \in [Inputs(d) -> {"solved", "unstarted", None}]
<1>1. results[d] \in [Inputs(d) -> {"solved", "unstarted", None}]
  BY Typed
<1>2. CASE d # c
  BY <1>1, <1>2, OthersKeep DEF Mine
<1>3. CASE d = c
  <2>1. CASE results'[c] = results[c]
    BY <1>1, <1>3, <2>1
  <2>2. CASE Admit(c)
    <3>1. results'[c] = results[c] \/ results'[c] = [results[c] EXCEPT ![next[c]] = "solved"]
      BY <2>2, Typed DEF Admit
    <3> QED
      BY <1>1, <1>3, <3>1
  <2>3. CASE RunGroup(c)
    <3>1. results'[c] = Solved(c, solvers[c])
      BY <2>3, Typed DEF RunGroup, GroupResults, Set
    <3> QED
      BY <1>1, <1>3, <3>1 DEF Solved
  <2>4. CASE Fill(c)
    <3>1. results'[c] = Filled(c)
      BY <2>4, Typed DEF Fill, Set
    <3> QED
      BY <1>1, <1>3, <3>1 DEF Filled
  <2>5. CASE ~(Admit(c) \/ RunGroup(c) \/ Fill(c))
    BY <2>1, <2>5 DEF Step, Fail, ClockExpires, Enter, Acquire, TimeOut, NextGroup
  <2> QED
    BY <2>2, <2>3, <2>4, <2>5
<1> QED
  BY <1>2, <1>3

LEMMA ScalarsTyped ==
    ASSUME PlanInv, NEW c \in Callers, Step(c) \/ Fail(c) \/ ClockExpires(c)
    PROVE  /\ pc' \in [Callers -> {"enter", "wait", "group", "admit", "fill"} \cup Ended]
           /\ expired' \in [Callers -> BOOLEAN]
           /\ {holder, stream}' \subseteq Callers \cup {None}
           /\ {begin, next}' \subseteq [Callers -> Nat]
           /\ Arrays'
<1>1. /\ pc \in [Callers -> {"enter", "wait", "group", "admit", "fill"} \cup Ended]
      /\ expired \in [Callers -> BOOLEAN]
      /\ begin \in [Callers -> Nat] /\ next \in [Callers -> Nat]
      /\ begin[c] \in Nat /\ next[c] \in Nat
  BY Typed
<1>2. {holder, stream} \subseteq Callers \cup {None} /\ Arrays
  BY DEF PlanInv, TypeOK
<1> USE DEF Set, Ended
<1>3. CASE Enter(c)
  BY <1>1, <1>2, <1>3 DEF Enter, Arrays
<1>4. CASE Acquire(c)
  BY <1>1, <1>2, <1>4 DEF Acquire, Arrays
<1>5. CASE TimeOut(c)
  BY <1>1, <1>2, <1>5 DEF TimeOut, Arrays
<1>6. CASE NextGroup(c)
  <2>1. /\ pc' \in [Callers -> {"enter", "wait", "group", "admit", "fill"} \cup Ended]
        /\ next' \in [Callers -> Nat]
    BY <1>1, <1>6 DEF NextGroup
  <2> QED
    BY <1>1, <1>2, <1>6, <2>1 DEF NextGroup, Arrays
<1>7. CASE Admit(c)
  <2>1. next' \in [Callers -> Nat]
    BY <1>1, <1>7 DEF Admit
  <2>2. Arrays'
    BY <1>2, <1>7 DEF Admit, Arrays
  <2> QED
    BY <1>1, <1>2, <1>7, <2>1, <2>2 DEF Admit
<1>8. CASE RunGroup(c)
  <2>1. GroupWidth(c) \in Nat
    BY <1>8, Typed, GroupFits DEF RunGroup, Progress
  <2>2. begin' \in [Callers -> Nat]
    BY <1>1, <1>8, <2>1 DEF RunGroup
  <2>3. Arrays'
    BY <1>2, <1>8 DEF RunGroup, GroupResults, Arrays
  <2> QED
    BY <1>1, <1>2, <1>8, <2>2, <2>3 DEF RunGroup
<1>9. CASE Fill(c) \/ Fail(c)
  <2>1. Arrays'
    BY <1>2, <1>9 DEF Fill, Fail, Arrays
  <2> QED
    BY <1>1, <1>2, <1>9, <2>1 DEF Fill, Fail, Unlock
<1>10. CASE ClockExpires(c)
  BY <1>1, <1>2, <1>10 DEF ClockExpires, Arrays
<1> QED
  BY <1>3, <1>4, <1>5, <1>6, <1>7, <1>8, <1>9, <1>10 DEF Step

LEMMA PlanStep ==
    ASSUME PlanInv, NEW c \in Callers, Step(c) \/ Fail(c) \/ ClockExpires(c)
    PROVE  PlanInv'
<1>1. ASSUME NEW d \in Callers PROVE Progress(d)' /\ Answered(d)' /\ Owned(d)'
  BY ProgressKept, OwnedKept
<1>2. ASSUME NEW d \in Callers
      PROVE  solvers'[d] \subseteq Inputs(d) /\ admitted'[d] \subseteq Inputs(d)
  <2>1. Progress(d)' /\ begin'[d] \in Nat /\ next'[d] \in Nat /\ Size(d) \in Nat
    BY <1>1, ScalarsTyped, RequestTyped
  <2>2. next'[d] <= Size(d) /\ admitted'[d] = 0 .. next'[d] - 1
          /\ (solvers'[d] = {} \/ solvers'[d] = begin'[d] .. next'[d] - 1)
    BY <2>1 DEF Progress
  <2> QED
    BY <2>1, <2>2 DEF Inputs
<1>3. TypeOK'
  BY <1>2, ScalarsTyped, ResultsTyped DEF TypeOK
<1> QED
  BY <1>1, <1>3, ScalarsTyped DEF PlanInv

LEMMA PlanStutters ==
    ASSUME PlanInv, UNCHANGED vars
    PROVE  PlanInv'
<1>1. TypeOK'
  BY DEF PlanInv, TypeOK, vars
<1>2. Arrays'
  BY DEF PlanInv, Arrays, vars
<1>3. ASSUME NEW d \in Callers PROVE Progress(d)' /\ Answered(d)' /\ Owned(d)'
  BY Typed, PlanFrame DEF Mine, Owned, vars
<1> QED
  BY <1>1, <1>2, <1>3 DEF PlanInv

LEMMA PlanInductive ==
    PlanInv /\ [Next]_vars => PlanInv'
BY PlanStep, PlanStutters DEF Next, AllEnded

LEMMA PlanInvariant ==
    Spec => []PlanInv
BY PlanInit, PlanInductive, PTL DEF Spec

------------------------------------------------------------------------------
\* TypeOK: the state of the plan and its callers is well typed.
THEOREM PlanTypeCorrect ==
    Spec => []TypeOK
<1>1. PlanInv => TypeOK
  BY DEF PlanInv
<1> QED
  BY <1>1, PlanInvariant, PTL

\* AnsweredInOrder: a call that returned solved the members it admitted, which
\* are the first ones, and answered the others (BatchDriver::solve).
THEOREM PlanAnswersInOrder ==
    Spec => []AnsweredInOrder
<1>1. PlanInv => AnsweredInOrder
  <2> SUFFICES ASSUME PlanInv, NEW c \in Callers, pc[c] = "returned"
               PROVE  \E n \in 0 .. Size(c) :
                        /\ admitted[c] = 0 .. n - 1
                        /\ \A i \in Inputs(c) :
                             results[c][i] = IF i < n THEN "solved" ELSE "unstarted"
                        /\ n < Size(c) => expired[c]
    BY DEF AnsweredInOrder
  <2>1. next[c] \in Nat /\ Size(c) \in Nat /\ Progress(c) /\ Answered(c)
    BY Typed, RequestTyped
  <2>2. next[c] \in 0 .. Size(c) /\ admitted[c] = 0 .. next[c] - 1
          /\ (next[c] < Size(c) => expired[c])
    BY <2>1 DEF Progress
  <2>3. \A i \in Inputs(c) : results[c][i] = IF i < next[c] THEN "solved" ELSE "unstarted"
    BY <2>1 DEF Answered
  <2> QED
    BY <2>2, <2>3
<1> QED
  BY <1>1, PlanInvariant, PTL

\* PlanOwned: the stream and the resident solvers are those of the call that
\* holds the mutex (BatchDriver::solve's unique_lock).
THEOREM PlanOwnedByCaller ==
    Spec => []PlanOwned
<1>1. PlanInv => PlanOwned
  <2> SUFFICES ASSUME PlanInv, NEW c \in Callers
               PROVE  /\ pc[c] \in {"group", "admit"} => holder = c /\ stream = c
                      /\ solvers[c] # {} => holder = c
    BY DEF PlanOwned
  <2>1. Progress(c) /\ Owned(c)
    BY Typed
  <2> QED
    BY <2>1 DEF Progress, Owned
<1> QED
  BY <1>1, PlanInvariant, PTL

\* WithinBudget: the workspace of a group, padded to whole tiles, fits the
\* budget beside the request's base (the memory estimate in BatchDriver::solve).
THEOREM PlanWithinBudget ==
    Spec => []WithinBudget
<1>1. PlanInv => WithinBudget
  <2> SUFFICES ASSUME PlanInv, NEW c \in Callers, Request[c].budget # 0, solvers[c] # {}
               PROVE  Request[c].base
                        + (((Cardinality(solvers[c]) + Request[c].tile - 1)
                             \div Request[c].tile) * Request[c].tile)
                            * Request[c].laneBytes <= Request[c].budget
    BY DEF WithinBudget
  <2>1. next[c] \in Nat /\ begin[c] \in Nat /\ Progress(c)
    BY Typed
  <2>2. /\ pc[c] = "admit" /\ Shared(c) /\ Fits(c)
        /\ solvers[c] = begin[c] .. next[c] - 1
        /\ begin[c] <= next[c] /\ next[c] <= begin[c] + GroupWidth(c)
    BY <2>1 DEF Progress
  <2>3. GroupWidth(c) \in Nat
    BY <2>2, GroupFits
  <2>4. Cardinality(solvers[c]) = IF begin[c] > next[c] - 1 THEN 0
                                  ELSE (next[c] - 1) - begin[c] + 1
    <3>1. begin[c] \in Int /\ next[c] - 1 \in Int
      BY <2>1
    <3>2. Cardinality(begin[c] .. next[c] - 1) =
            IF begin[c] > next[c] - 1 THEN 0 ELSE (next[c] - 1) - begin[c] + 1
      BY <3>1, FS_Interval
    <3> QED
      BY <2>2, <3>2
  <2>5. Cardinality(solvers[c]) \in 0 .. GroupWidth(c)
    BY <2>1, <2>2, <2>3, <2>4
  <2> QED
    BY <2>2, <2>5, GroupFits
<1> QED
  BY <1>1, PlanInvariant, PTL

LEMMA AnswersStart ==
    Init => Answers!MrInit
<1> SUFFICES ASSUME Init PROVE Answers!MrInit
  OBVIOUS
<1>1. ASSUME NEW p \in AllInputs PROVE results[p[1]][p[2]] = None
  <2>1. p[1] \in Callers /\ p[2] \in Inputs(p[1])
    BY DEF AllInputs
  <2>2. results[p[1]] = [i \in Inputs(p[1]) |-> None]
    BY <2>1 DEF Init
  <2> QED
    BY <2>1, <2>2
<1> QED
  BY <1>1 DEF Answers!MrInit

\* A member that has a result keeps it.
LEMMA ResultsStay ==
    ASSUME PlanInv, NEW c \in Callers, Step(c) \/ Fail(c) \/ ClockExpires(c),
           NEW d \in Callers, NEW i \in Inputs(d), results[d][i] # None
    PROVE  results'[d][i] = results[d][i]
<1>1. CASE d # c
  BY <1>1, OthersKeep DEF Mine
<1>2. CASE d = c
  <2>0. /\ next[c] \in Nat /\ begin[c] \in Nat /\ i \in Nat /\ Progress(c) /\ Answered(c)
        /\ results[c] \in [Inputs(c) -> {"solved", "unstarted", None}]
    BY <1>2, Typed, RequestTyped DEF Inputs
  <2>1. CASE Admit(c)
    <3>1. results'[c] = results[c] \/
            (~Shared(c) /\ results'[c] = [results[c] EXCEPT ![next[c]] = "solved"])
      BY <2>1, Typed DEF Admit
    <3>2. results[c][i] = IF i < Given(c) THEN "solved" ELSE None
      BY <1>2, <2>0, <2>1 DEF Answered, Admit
    <3>3. ~Shared(c) => i # next[c]
      BY <1>2, <2>0, <3>2 DEF Given
    <3> QED
      BY <1>2, <2>0, <3>1, <3>3
  <2>2. CASE RunGroup(c)
    <3>1. results'[c][i] = IF i \in solvers[c] THEN "solved" ELSE results[c][i]
      BY <1>2, <2>2, Typed DEF RunGroup, GroupResults, Solved, Set
    <3>2. results[c][i] = "solved"
      BY <1>2, <2>0, <2>2 DEF Answered, RunGroup
    <3> QED
      BY <1>2, <3>1, <3>2
  <2>3. CASE Fill(c)
    <3>1. results'[c][i] = IF i \in admitted[c] THEN results[c][i] ELSE "unstarted"
      BY <1>2, <2>3, Typed DEF Fill, Filled, Set
    <3>2. results[c][i] = IF i < next[c] THEN "solved" ELSE None
      BY <1>2, <2>0, <2>3 DEF Answered, Given, Fill
    <3>3. i \in admitted[c]
      BY <1>2, <2>0, <3>2 DEF Progress
    <3> QED
      BY <1>2, <3>1, <3>3
  <2>4. CASE ~(Admit(c) \/ RunGroup(c) \/ Fill(c))
    <3>1. results' = results
      BY <2>4 DEF Step, Fail, ClockExpires, Enter, Acquire, TimeOut, NextGroup
    <3> QED
      BY <3>1
  <2> QED
    BY <2>1, <2>2, <2>3, <2>4
<1> QED
  BY <1>1, <1>2

LEMMA AnswersStep ==
    PlanInv /\ [Next]_vars => [Answers!Finish]_([p \in AllInputs |-> results[p[1]][p[2]]])
<1> SUFFICES ASSUME PlanInv, [Next]_vars
             PROVE  [Answers!Finish]_([p \in AllInputs |-> results[p[1]][p[2]]])
  OBVIOUS
<1> DEFINE given == [p \in AllInputs |-> results[p[1]][p[2]]]
<1>1. CASE UNCHANGED results
  BY <1>1
<1>2. ASSUME NEW c \in Callers, Step(c) \/ Fail(c) \/ ClockExpires(c)
      PROVE  Answers!Finish
  <2>1. ASSUME NEW p \in AllInputs
        PROVE  /\ results'[p[1]][p[2]] \in {"solved", "unstarted", None}
               /\ results[p[1]][p[2]] # None => results'[p[1]][p[2]] = results[p[1]][p[2]]
    <3>1. p[1] \in Callers /\ p[2] \in Inputs(p[1])
      BY DEF AllInputs
    <3>2. results'[p[1]] \in [Inputs(p[1]) -> {"solved", "unstarted", None}]
      BY <1>2, <3>1, ResultsTyped
    <3> QED
      BY <1>2, <3>1, <3>2, ResultsStay
  <2>2. given' \in [AllInputs -> {"solved", "unstarted"} \cup {None}]
    BY <2>1
  <2>3. \A p \in AllInputs \ {q \in AllInputs : given[q] = None} : given'[p] = given[p]
    BY <2>1
  <2> QED
    BY <2>2, <2>3 DEF Answers!Finish, Answers!Pending
<1> QED
  BY <1>1, <1>2 DEF Next, AllEnded, vars

\* ImplementsMembers: the plan implements the abstract promise; no step of any
\* call changes or withdraws a result once given (BatchMemberResult).
THEOREM PlanImplementsMembers ==
    Spec => ImplementsMembers
<1>1. Spec => Answers!MrInit
  BY AnswersStart DEF Spec
<1> QED
  BY <1>1, PlanInvariant, AnswersStep, PTL DEF Spec, ImplementsMembers, Answers!MrSpec

------------------------------------------------------------------------------
(* How many steps a call takes.                                            *)

\* Members that no finished group has covered.
Uncovered(c) == IF begin[c] < Size(c) THEN Size(c) - begin[c] ELSE 0

\* Bound on the steps a call still takes itself: one for each member it may
\* admit and two for each group, those to its end, and its deadline.
StepsLeft(c) ==
    (IF ~expired[c] THEN 1 ELSE 0)
    + CASE pc[c] = "enter" -> 3 * Size(c) + 5
        [] pc[c] = "wait"  -> 3 * Size(c) + 4
        [] pc[c] = "group" -> 3 * Uncovered(c) + 3
        [] pc[c] = "admit" -> 3 * Uncovered(c) + 2 - (next[c] - begin[c])
        [] pc[c] = "fill"  -> 1
        [] OTHER           -> 0

LEMMA StepsLeftType ==
    ASSUME PlanInv, NEW c \in Callers
    PROVE  StepsLeft(c) \in 0 .. 3 * Size(c) + 6
<1>1. /\ Progress(c) /\ Size(c) \in Nat /\ begin[c] \in Nat /\ next[c] \in Nat
      /\ expired[c] \in BOOLEAN
  BY Typed, RequestTyped
<1>2. CASE pc[c] = "admit"
  <2>1. begin[c] < Size(c) /\ begin[c] <= next[c] /\ next[c] <= Size(c)
    BY <1>1, <1>2 DEF Progress
  <2>2. Uncovered(c) = Size(c) - begin[c]
    BY <2>1 DEF Uncovered
  <2> QED
    BY <1>1, <1>2, <2>1, <2>2 DEF StepsLeft
<1>3. CASE pc[c] # "admit"
  BY <1>1, <1>3 DEF StepsLeft, Uncovered
<1> QED
  BY <1>2, <1>3

\* The state of the call that takes a step, before and after it.
LEMMA StepsFall ==
    ASSUME PlanInv, NEW c \in Callers,
           Step(c) \/ Fail(c) \/ (ClockExpires(c) /\ ~expired[c])
    PROVE  StepsLeft(c)' < StepsLeft(c)
<1>1. /\ Progress(c) /\ Size(c) \in Nat /\ begin[c] \in Nat /\ next[c] \in Nat
      /\ expired[c] \in BOOLEAN
  BY Typed, RequestTyped
<1>2. /\ pc \in [Callers -> {"enter", "wait", "group", "admit", "fill"} \cup Ended]
      /\ begin \in [Callers -> Nat] /\ next \in [Callers -> Nat]
      /\ expired \in [Callers -> BOOLEAN]
  BY Typed
<1>3. CASE Enter(c) \/ Acquire(c) \/ TimeOut(c) \/ Fill(c) \/ Fail(c)
  <2>1. /\ begin'[c] = begin[c] /\ next'[c] = next[c] /\ expired'[c] = expired[c]
        /\ \/ pc[c] = "enter" /\ pc'[c] \in {"rejected", "returned", "wait"}
           \/ pc[c] = "wait" /\ pc'[c] = "group"
           \/ pc[c] = "wait" /\ pc'[c] = "fill"
           \/ pc[c] = "fill" /\ pc'[c] = "returned"
           \/ pc[c] = "admit" /\ pc'[c] = "failed"
    <3>1. CASE Enter(c) \/ Acquire(c)
      BY <1>2, <3>1 DEF Enter, Acquire, Set
    <3>2. CASE TimeOut(c) \/ Fill(c) \/ Fail(c)
      BY <1>2, <3>2 DEF TimeOut, Fill, Fail, Set
    <3> QED
      BY <1>3, <3>1, <3>2
  <2>2. CASE pc[c] = "admit" /\ pc'[c] = "failed"
    <3>1. begin[c] < Size(c) /\ begin[c] <= next[c] /\ next[c] <= Size(c)
      BY <1>1, <2>2 DEF Progress
    <3> QED
      BY <1>1, <2>1, <2>2, <3>1 DEF StepsLeft, Uncovered
  <2>3. CASE pc[c] = "wait" /\ pc'[c] = "group"
    <3>1. begin[c] = 0
      BY <1>1, <2>3 DEF Progress
    <3> QED
      BY <1>1, <2>1, <2>3, <3>1 DEF StepsLeft, Uncovered
  <2>4. CASE \/ pc[c] = "enter" /\ pc'[c] \in {"rejected", "returned", "wait"}
             \/ pc[c] = "wait" /\ pc'[c] = "fill"
             \/ pc[c] = "fill" /\ pc'[c] = "returned"
    BY <1>1, <2>1, <2>4 DEF StepsLeft
  <2> QED
    BY <2>1, <2>2, <2>3, <2>4
<1>4. CASE NextGroup(c)
  <2>1. /\ begin'[c] = begin[c] /\ expired'[c] = expired[c] /\ pc[c] = "group"
        /\ \/ pc'[c] = "admit" /\ next'[c] = begin[c]
           \/ pc'[c] = "fill"
    BY <1>2, <1>4 DEF NextGroup, Set
  <2> QED
    BY <1>1, <2>1 DEF StepsLeft, Uncovered
<1>5. CASE Admit(c)
  <2>1. /\ begin'[c] = begin[c] /\ expired'[c] = expired[c]
        /\ pc[c] = "admit" /\ pc'[c] = "admit" /\ next'[c] = next[c] + 1
    BY <1>2, <1>5 DEF Admit, Set
  <2> QED
    BY <1>1, <2>1 DEF StepsLeft, Uncovered
<1>6. CASE RunGroup(c)
  <2>1. /\ begin'[c] = begin[c] + GroupWidth(c) /\ expired'[c] = expired[c]
        /\ next'[c] = next[c] /\ pc[c] = "admit" /\ pc'[c] = "group"
    BY <1>2, <1>6 DEF RunGroup, Set
  <2>2. /\ begin[c] < Size(c) /\ begin[c] <= next[c] /\ next[c] <= Size(c)
        /\ next[c] <= begin[c] + GroupWidth(c) /\ Fits(c)
    BY <1>1, <2>1 DEF Progress
  <2>3. GroupWidth(c) \in Nat /\ GroupWidth(c) > 0
    BY <1>1, <2>2, GroupFits
  <2>4. PICK w \in Nat : w = GroupWidth(c)
    BY <2>3
  <2> QED
    BY <1>1, <2>1, <2>2, <2>3, <2>4 DEF StepsLeft, Uncovered
<1>7. CASE ClockExpires(c) /\ ~expired[c]
  <2>1. /\ begin' = begin /\ next' = next /\ pc' = pc /\ expired'[c]
    BY <1>2, <1>7 DEF ClockExpires, Set
  <2> QED
    BY <1>1, <1>7, <2>1 DEF StepsLeft, Uncovered
<1> QED
  BY <1>3, <1>4, <1>5, <1>6, <1>7 DEF Step

\* However calls wait for each other, groups are cut at the deadline and the
\* budget narrows them: every step brings the call that takes it nearer to its
\* end and no other call further from it, and a call of n members takes at most
\* 3n + 6 steps.  CallsReturn then needs no more than the mutex coming free.
THEOREM PlanStepsBounded ==
    Spec => /\ [](\A c \in Callers : StepsLeft(c) \in 0 .. 3 * Size(c) + 6)
            /\ [][\E c \in Callers :
                    /\ StepsLeft(c)' < StepsLeft(c)
                    /\ \A d \in Callers \ {c} : StepsLeft(d)' = StepsLeft(d)]_vars
<1>1. PlanInv => \A c \in Callers : StepsLeft(c) \in 0 .. 3 * Size(c) + 6
  BY StepsLeftType
<1>2. ASSUME PlanInv, Next, ~UNCHANGED vars
      PROVE  \E c \in Callers :
               /\ StepsLeft(c)' < StepsLeft(c)
               /\ \A d \in Callers \ {c} : StepsLeft(d)' = StepsLeft(d)
  <2>1. PICK c \in Callers : Step(c) \/ Fail(c) \/ ClockExpires(c)
    BY <1>2 DEF Next, AllEnded
  <2>2. StepsLeft(c)' < StepsLeft(c)
    BY <1>2, <2>1, StepsFall DEF ClockExpires
  <2>3. ASSUME NEW d \in Callers \ {c} PROVE StepsLeft(d)' = StepsLeft(d)
    <3>1. Mine(d)' = Mine(d)
      BY <1>2, <2>1, OthersKeep
    <3> QED
      BY <3>1 DEF Mine, StepsLeft, Uncovered
  <2> QED
    BY <2>2, <2>3
<1>3. PlanInv /\ [Next]_vars =>
        [\E c \in Callers :
            /\ StepsLeft(c)' < StepsLeft(c)
            /\ \A d \in Callers \ {c} : StepsLeft(d)' = StepsLeft(d)]_vars
  BY <1>2
<1> QED
  BY <1>1, <1>3, PlanInvariant, PTL DEF Spec
==============================================================================
