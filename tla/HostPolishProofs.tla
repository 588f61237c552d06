-------------------------- MODULE HostPolishProofs ---------------------------
(***************************************************************************)
(* The continuation's promises for every measure of the points, every      *)
(* budget and cadence, and any tolerances.                                 *)
(***************************************************************************)
EXTENDS HostPolish, TLAPS

LEMMA KktNat ==
    ASSUME NEW m \in Metric
    PROVE  Kkt(m) \in Nat /\ Feas(m) \in Nat
BY DEF Kkt, Feas, Larger, Metric

LEMMA Caps ==
    /\ Freq \in Nat \ {0} /\ NeutralCap \in Nat \ {0}
    /\ MaxMisses \in Nat \ {0} /\ MaxHalvings \in Nat \ {0}
BY PolishAssumption

LEMMA ReadsType == ASSUME NEW p \in Point PROVE Reads(p) \in Reading
BY PolishAssumption DEF Reads, Point

LEMMA RefinedType == ASSUME NEW p \in Point PROVE Refined(p) \in Point
BY PolishAssumption DEF Refined, Point

LEMMA RetainType ==
    ASSUME best \in Point, bestM \in Reading, changed \in BOOLEAN,
           NEW p \in Point, NEW take \in BOOLEAN, Retain(p, take)
    PROVE  best' \in Point /\ bestM' \in Reading /\ changed' \in BOOLEAN
BY ReadsType DEF Retain

LEMMA ImprovesBoolean == ASSUME NEW m, NEW b PROVE Improves(m, b) \in BOOLEAN
BY DEF Improves

LEMMA MeetsBoolean == ASSUME NEW m PROVE Meets(m) \in BOOLEAN
BY DEF Meets

LEMMA NowherePoint == ASSUME Point # {} PROVE Nowhere \in Point
BY DEF Nowhere

LEMMA RepairedPoint == ASSUME result \in Point PROVE Repaired \in Point
BY PolishAssumption DEF Repaired, Point

LEMMA BudgetNat == ASSUME used \in Nat PROVE IterationLimit \in Nat
BY PolishAssumption DEF IterationLimit, Larger

LEMMA BlockBounds ==
    ASSUME NEW n \in Nat \ {0}
    PROVE  Block(n) \in 1 .. n /\ Block(n) \in 1 .. Freq
BY PolishAssumption DEF Block, Smaller

\* Counters that leave their phase before they pass their bound.
Counters ==
    /\ pc = "neutral" => misses < MaxMisses /\ halvings = 0
    /\ pc \in {"neutralEnd", "choose"} => halvings = 0
    /\ pc = "certificate" => halvings <= MaxHalvings

(***************************************************************************)
(* The continuation's state is well typed and its counters keep their      *)
(* bounds.                                                                 *)
(***************************************************************************)
THEOREM PolishTypeCorrect == Spec => []HpTypeOK
<1> USE PolishAssumption, Caps
<1>1. Init => HpTypeOK /\ Counters
  <2> SUFFICES ASSUME Init PROVE HpTypeOK /\ Counters
    OBVIOUS
  <2>1. Nowhere \in Point
    BY NowherePoint DEF Init
  <2>2. Nowhere.x \in Primals
    BY <2>1 DEF Point
  <2>3. misses \in 0 .. MaxMisses /\ halvings \in 0 .. MaxHalvings + 1
    BY DEF Init
  <2>4. pc \in PCs /\ Counters
    BY DEF Init, PCs, Counters
  <2>5. reported \in Reading /\ bestM \in Reading /\ entry \in Reading
    BY DEF Init, Reading
  <2>6. start \in Point /\ cur \in Point /\ best \in Point /\ top \in Primals
    BY <2>1, <2>2 DEF Init
  <2> QED
    BY <2>3, <2>4, <2>5, <2>6 DEF Init, HpTypeOK
<1>2. HpTypeOK /\ Counters /\ [Next]_vars => (HpTypeOK /\ Counters)'
  <2> SUFFICES ASSUME HpTypeOK, Counters, [Next]_vars
               PROVE  HpTypeOK' /\ Counters'
    OBVIOUS
  <2>1. CASE Audit
    <3>1. result' \in Point /\ reported' \in Reading
      BY <2>1, RefinedType, ReadsType DEF Audit, HpTypeOK
    <3> QED
      BY <2>1, <3>1 DEF Audit, HpTypeOK, Counters, PCs, searchVars, bestVars
  <2>2. CASE ApplyPostsolve
    <3>1. result' \in Point
      BY <2>2, RefinedType DEF ApplyPostsolve
    <3>2. reported' \in Reading
      BY <2>2, <3>1, ReadsType DEF ApplyPostsolve
    <3> QED
      BY <2>2, <3>1, <3>2 DEF ApplyPostsolve, HpTypeOK, Counters, PCs, Reading,
                                searchVars, bestVars
  <2>3. CASE Skip
    BY <2>3 DEF Skip, After, HpTypeOK, Counters, PCs, callVars, searchVars, bestVars
  <2>4. CASE Refuse
    BY <2>4, RepairedPoint DEF Refuse, After, HpTypeOK, Counters, PCs,
                               searchVars, bestVars
  <2>5. CASE Begin
    <3>1. Repaired \in Point /\ Repaired.x \in Primals /\ Reads(Repaired) \in Reading
      BY RepairedPoint, ReadsType DEF HpTypeOK, Point
    <3>2. until' \in Nat
      BY <2>5, BudgetNat DEF Begin, HpTypeOK, Smaller, Larger
    <3>3. misses' \in 0 .. MaxMisses /\ halvings' \in 0 .. MaxHalvings + 1
      BY <2>5 DEF Begin
    <3>4. Counters'
      BY <2>5 DEF Begin, Counters
    <3>5. pc' \in PCs /\ bestM' \in Reading /\ entry' \in Reading
      BY <2>5, <3>1 DEF Begin, PCs
    <3> QED
      BY <2>5, <3>1, <3>2, <3>3, <3>4, <3>5 DEF Begin, HpTypeOK
  <2>6. CASE NeutralIteration
    <3> USE <2>6 DEF NeutralIteration
    <3>1. CASE pc' = "neutralEnd" /\ UNCHANGED <<cur, top, misses, bestVars>>
      BY <3>1 DEF HpTypeOK, Counters, PCs, callVars, bestVars
    <3>2. ASSUME NEW x \in Primals,
                 cur' = [cur EXCEPT !.x = x],
                 top' \in {x, top}, misses' \in {0, misses + 1},
                 Retain([cur EXCEPT !.x = x], Improves(Reads([cur EXCEPT !.x = x]), bestM)),
                 reached' = Meets(bestM'),
                 pc' = IF reached' \/ TooManyMisses(misses')
                       THEN "neutralEnd" ELSE "neutral"
          PROVE  HpTypeOK' /\ Counters'
      <4>1. [cur EXCEPT !.x = x] \in Point
        BY DEF HpTypeOK, Point
      <4>2. best' \in Point /\ bestM' \in Reading /\ changed' \in BOOLEAN
        BY <3>2, <4>1, RetainType, ImprovesBoolean DEF HpTypeOK
      <4>3. reached' \in BOOLEAN
        BY <3>2, MeetsBoolean
      <4>4. misses' \in 0 .. MaxMisses /\ (pc' = "neutral" => misses' < MaxMisses)
        BY <3>2, <4>3 DEF HpTypeOK, Counters, TooManyMisses
      <4> QED
        BY <3>2, <4>1, <4>2, <4>3, <4>4 DEF HpTypeOK, Counters, PCs, callVars
    <3> QED
      BY <3>1, <3>2
  <2>7. CASE EndNeutral
    <3>1. start' \in Point
      BY <2>7 DEF EndNeutral, NeutralHandoff, HpTypeOK, Point
    <3> QED
      BY <2>7, <3>1 DEF EndNeutral, HpTypeOK, Counters, PCs, callVars, bestVars
  <2>8. CASE SkipCertificate
    BY <2>8 DEF SkipCertificate, HpTypeOK, Counters, PCs, callVars, searchVars, bestVars
  <2>9. CASE BeginCertificate
    <3> USE <2>9 DEF BeginCertificate
    <3>1. cur' \in Point
      BY DEF HpTypeOK, Point
    <3>2. best' \in Point /\ bestM' \in Reading /\ changed' \in BOOLEAN
      BY <3>1, RetainType, ImprovesBoolean DEF HpTypeOK
    <3>3. reached' \in BOOLEAN
      OBVIOUS
    <3>4. until' \in Nat
      <4>1. PICK r \in Int : r = IterationLimit - total /\ until' = total + CertificateBudget(r)
        BY BudgetNat DEF HpTypeOK
      <4>2. r + total \in Nat /\ total \in Nat
        BY <4>1, BudgetNat DEF HpTypeOK
      <4> QED
        BY <4>1, <4>2 DEF CertificateBudget, Larger
    <3> QED
      BY <3>1, <3>2, <3>3, <3>4 DEF HpTypeOK, Counters, PCs, callVars
  <2>10. CASE CertificateBlock
    <3> USE <2>10 DEF CertificateBlock
    <3>1. cur' \in Point
      BY DEF HpTypeOK, Point
    <3>2. best' \in Point /\ bestM' \in Reading /\ changed' \in BOOLEAN
      BY <3>1, RetainType, ImprovesBoolean DEF HpTypeOK
    <3>3. reached' \in BOOLEAN
      BY MeetsBoolean
    <3>4. total' \in Nat /\ count' \in Nat /\ phaseUp' \in BOOLEAN
      BY BlockBounds DEF HpTypeOK, Searching
    <3>5. halvings' \in {halvings, halvings + 1} /\ halvings <= MaxHalvings
      BY DEF Counters, Searching
    <3>6. /\ pc' \in {"handoff", "certificate"}
          /\ pc' = "certificate" => halvings' <= MaxHalvings
      BY <3>5 DEF HpTypeOK
    <3> QED
      BY <3>1, <3>2, <3>3, <3>4, <3>5, <3>6 DEF HpTypeOK, Counters, PCs, callVars
  <2>11. CASE HandOff
    <3>1. start' \in Point
      BY <2>11 DEF HandOff, HpTypeOK, Point
    <3> QED
      BY <2>11, <3>1 DEF HandOff, HpTypeOK, Counters, PCs, callVars, bestVars
  <2>12. CASE JointBlock
    <3> USE <2>12 DEF JointBlock
    <3>1. cur' \in Point /\ start' \in Point
      BY DEF HpTypeOK
    <3>2. best' \in Point /\ bestM' \in Reading /\ changed' \in BOOLEAN
      BY <3>1, RetainType, ImprovesBoolean, MeetsBoolean DEF HpTypeOK
    <3>3. total' \in Nat
      BY BlockBounds, BudgetNat DEF HpTypeOK, Continuing
    <3>4. baseline' \in {"none", "due", "measured"} /\ pc' \in {"leave", "joint"}
      BY DEF HpTypeOK
    <3> QED
      BY <3>1, <3>2, <3>3, <3>4 DEF HpTypeOK, Counters, PCs, callVars
  <2>13. CASE Leave
    <3>1. Nowhere \in Point /\ Nowhere.x \in Primals
      BY NowherePoint DEF HpTypeOK, Point
    <3>2. result' \in Point /\ used' \in Nat
      BY <2>13 DEF Leave, HpTypeOK
    <3>3. Counters'
      BY <2>13 DEF Leave, After, Counters
    <3>4. pc' \in PCs /\ model' \in {"working", "original"} /\ reported' \in Reading
      BY <2>13 DEF Leave, After, HpTypeOK, PCs
    <3>5. timeUp' \in BOOLEAN /\ phaseUp' \in BOOLEAN /\ changed' \in BOOLEAN /\ reached' \in BOOLEAN
      BY <2>13 DEF Leave, HpTypeOK
    <3>6. misses' \in 0 .. MaxMisses /\ halvings' \in 0 .. MaxHalvings + 1
      BY <2>13 DEF Leave
    <3>7. total' \in Nat /\ until' \in Nat /\ count' \in Nat /\ baseline' \in {"none", "due", "measured"}
      BY <2>13 DEF Leave
    <3>8. start' \in Point /\ cur' \in Point /\ top' \in Primals /\ best' \in Point
      BY <2>13, <3>1 DEF Leave
    <3>9. bestM' \in Reading /\ entry' \in Reading
      BY <2>13 DEF Leave, HpTypeOK, Reading
    <3> QED
      BY <3>2, <3>3, <3>4, <3>5, <3>6, <3>7, <3>8, <3>9 DEF HpTypeOK
  <2>14. CASE ClockAdvances
    BY <2>14 DEF ClockAdvances, HpTypeOK, Counters, callVars, searchVars, bestVars
  <2>15. CASE UNCHANGED vars
    BY <2>15 DEF vars, HpTypeOK, Counters, callVars, searchVars, bestVars
  <2> QED
    BY <2>1, <2>2, <2>3, <2>4, <2>5, <2>6, <2>7, <2>8, <2>9, <2>10, <2>11, <2>12,
       <2>13, <2>14, <2>15 DEF Next, Step, Returned
<1> QED
  BY <1>1, <1>2, PTL DEF Spec

------------------------------------------------------------------------------
(* The budget of both continuations and its division among the phases.     *)

LEMMA LimitLeft ==
    ASSUME used \in Nat, used <= Limit
    PROVE  IterationLimit = Limit - used
BY PolishAssumption DEF IterationLimit, Larger

LEMMA CertificateShare ==
    ASSUME NEW r \in Nat
    PROVE  /\ CertificateBudget(r) \in Nat /\ CertificateBudget(r) <= r
           /\ r >= 2 => 2 * CertificateBudget(r) <= r
<1>1. CASE r <= 1
  BY <1>1 DEF CertificateBudget
<1>2. CASE r >= 2
  <2>1. r \div 2 \in Nat /\ 2 * (r \div 2) <= r /\ r \div 2 >= 1
    BY <1>2
  <2> QED
    BY <1>2, <2>1 DEF CertificateBudget, Larger
<1> QED
  BY <1>1, <1>2

\* What the phases may still use, and how the certificate's share of what
\* was left when it began divides into spent and unspent iterations.
Shares ==
    /\ pc = "neutral" => until <= IterationLimit
    /\ pc \in {"neutral", "neutralEnd", "choose"} => count = 0
    /\ pc \in {"certificate", "handoff"} =>
          /\ total <= until /\ until <= IterationLimit
          /\ until - total + count = CertificateBudget(IterationLimit - total + count)

LEMMA BudgetKept == Spec => [](SharedBudget /\ Shares)
<1> USE PolishAssumption, Caps
<1>1. Init => SharedBudget /\ Shares
  BY DEF Init, SharedBudget, InPhase, Shares
<1>2. HpTypeOK /\ SharedBudget /\ Shares /\ [Next]_vars => (SharedBudget /\ Shares)'
  <2> SUFFICES ASSUME HpTypeOK, SharedBudget, Shares, [Next]_vars
               PROVE  SharedBudget' /\ Shares'
    OBVIOUS
  <2>1. /\ used \in Nat /\ used <= Limit /\ IterationLimit = Limit - used
        /\ total \in Nat /\ until \in Nat /\ count \in Nat
    <3>1. used \in Nat /\ total \in Nat /\ until \in Nat /\ count \in Nat
      BY DEF HpTypeOK
    <3>2. used <= Limit
      BY <3>1 DEF SharedBudget
    <3> QED
      BY <3>1, <3>2, LimitLeft
  <2>2. InPhase => total <= IterationLimit
    BY <2>1 DEF SharedBudget
  <2>3. CASE Audit \/ ApplyPostsolve \/ Skip \/ Refuse
    <3>1. used' = used /\ pc' \in {"polish", "returned", "postsolve", "audit", "reaudit"}
      BY <2>3 DEF Audit, ApplyPostsolve, Skip, Refuse, After, callVars
    <3> QED
      BY <3>1, <2>1 DEF SharedBudget, InPhase, Shares
  <2>4. CASE Begin
    <3>1. /\ used' = used /\ total' = 0 /\ count' = 0
          /\ pc' \in {"neutral", "choose"} /\ IterationLimit' = IterationLimit
      BY <2>4 DEF Begin, IterationLimit
    <3>2. IterationLimit > 0 /\ until' <= IterationLimit
      <4>1. IterationLimit > 0 /\ until' = Smaller(NeutralCap, Larger(1, IterationLimit \div 2))
        BY <2>4 DEF Begin
      <4>2. IterationLimit \in Nat /\ IterationLimit \div 2 <= IterationLimit
        BY <2>1
      <4> QED
        BY <4>1, <4>2 DEF Smaller, Larger
    <3> QED
      BY <2>1, <3>1, <3>2 DEF SharedBudget, InPhase, Shares
  <2>5. CASE NeutralIteration
    <3>1. /\ pc = "neutral" /\ total < until /\ total' = total + 1
          /\ used' = used /\ until' = until /\ count' = count
          /\ pc' \in {"neutral", "neutralEnd"}
      BY <2>5 DEF NeutralIteration, callVars
    <3>2. IterationLimit' = IterationLimit
      BY <3>1 DEF IterationLimit
    <3> QED
      BY <2>1, <3>1, <3>2 DEF SharedBudget, InPhase, Shares
  <2>6. CASE EndNeutral \/ SkipCertificate
    <3>1. /\ pc \in {"neutral", "neutralEnd", "choose"} /\ pc' \in {"choose", "joint"}
          /\ used' = used /\ total' = total /\ count' = count
      BY <2>6 DEF EndNeutral, SkipCertificate, callVars, searchVars
    <3> QED
      BY <3>1 DEF SharedBudget, InPhase, Shares
  <2>7. CASE BeginCertificate
    <3>1. /\ pc = "choose" /\ pc' = "certificate"
          /\ used' = used /\ total' = total /\ count' = count
          /\ until' = total + CertificateBudget(IterationLimit - total)
      BY <2>7 DEF BeginCertificate, callVars
    <3>2. IterationLimit' = IterationLimit /\ count = 0 /\ total <= IterationLimit
      BY <2>2, <3>1 DEF IterationLimit, InPhase, Shares
    <3>3. PICK r \in Nat : r = IterationLimit - total
      BY <2>1, <3>2
    <3>4. CertificateBudget(r) \in Nat /\ CertificateBudget(r) <= r
      BY CertificateShare
    <3>5. IterationLimit - total + count = r
      BY <2>1, <3>2, <3>3
    <3>6. SharedBudget'
      BY <3>1 DEF SharedBudget, InPhase
    <3> QED
      BY <2>1, <3>1, <3>2, <3>3, <3>4, <3>5, <3>6 DEF Shares
  <2>8. CASE CertificateBlock
    <3>1. PICK done \in 0 .. Block(until - total) :
            total' = total + done /\ count' = count + done
      BY <2>8 DEF CertificateBlock
    <3>2. /\ pc = "certificate" /\ total < until /\ until' = until /\ used' = used
          /\ pc' \in {"certificate", "handoff"}
      BY <2>8 DEF CertificateBlock, Searching, callVars
    <3>3. done \in Nat /\ total + done <= until
      BY <2>1, <3>1, <3>2, BlockBounds
    <3>4. IterationLimit' = IterationLimit
      BY <3>2 DEF IterationLimit
    <3>5. /\ until' - total' + count' = until - total + count
          /\ IterationLimit' - total' + count' = IterationLimit - total + count
      BY <2>1, <3>1, <3>2, <3>3, <3>4
    <3> QED
      BY <2>1, <3>1, <3>2, <3>3, <3>4, <3>5 DEF SharedBudget, InPhase, Shares
  <2>9. CASE HandOff
    BY <2>9 DEF HandOff, callVars, SharedBudget, InPhase, Shares
  <2>10. CASE JointBlock
    <3>1. /\ pc = "joint" /\ total < IterationLimit /\ used' = used
          /\ total' = total + Block(IterationLimit - total)
          /\ pc' \in {"joint", "leave"}
      BY <2>10 DEF JointBlock, Continuing, callVars
    <3>2. total' \in Nat /\ total' <= IterationLimit
      BY <2>1, <3>1, BlockBounds
    <3> QED
      BY <2>1, <3>1, <3>2 DEF SharedBudget, InPhase, Shares
  <2>11. CASE Leave
    <3>1. /\ pc \in {"leave", "joint"} /\ used' = used + total
          /\ pc' \in {"postsolve", "reaudit"}
      BY <2>11 DEF Leave, After
    <3> QED
      BY <2>1, <2>2, <3>1 DEF SharedBudget, InPhase, Shares
  <2>12. CASE ClockAdvances \/ UNCHANGED vars
    BY <2>12 DEF ClockAdvances, vars, callVars, searchVars, SharedBudget, InPhase,
                 Shares, IterationLimit
  <2> QED
    BY <2>3, <2>4, <2>5, <2>6, <2>7, <2>8, <2>9, <2>10, <2>11, <2>12
       DEF Next, Step, Returned
<1> QED
  BY <1>1, <1>2, PolishTypeCorrect, PTL DEF Spec

(***************************************************************************)
(* Both continuations together stay within the iteration limit, for every  *)
(* limit, cadence and cap of the phases.                                   *)
(***************************************************************************)
THEOREM PolishWithinBudget == Spec => []SharedBudget
BY BudgetKept, PTL

(***************************************************************************)
(* With two iterations left or more, the dual certificate leaves at least  *)
(* half of them to joint PDHG.                                             *)
(***************************************************************************)
THEOREM JointKeepsHalf == Spec => []JointReserved
<1>1. HpTypeOK /\ SharedBudget /\ Shares => JointReserved
  <2> SUFFICES ASSUME HpTypeOK, SharedBudget, Shares,
                      pc \in {"certificate", "handoff"},
                      count + (IterationLimit - total) >= 2
               PROVE  count <= IterationLimit - total
    BY DEF JointReserved
  <2>1. /\ total \in Nat /\ until \in Nat /\ count \in Nat /\ IterationLimit \in Nat
        /\ total <= until /\ until <= IterationLimit
    BY BudgetNat DEF HpTypeOK, Shares
  <2>2. PICK r \in Nat : r = IterationLimit - total + count
    BY <2>1
  <2>3. 2 * CertificateBudget(r) <= r /\ CertificateBudget(r) \in Nat
    BY <2>1, <2>2, CertificateShare
  <2>4. until - total + count = CertificateBudget(r)
    BY <2>2 DEF Shares
  <2> QED
    BY <2>1, <2>2, <2>3, <2>4
<1> QED
  BY <1>1, BudgetKept, PolishTypeCorrect, PTL

------------------------------------------------------------------------------
(* The retained point: measured, no worse than the entry, and written back.*)

\* What the variables of one continuation say of each other.
Incumbent ==
    /\ InPhase =>
          /\ bestM = Reads(best)
          /\ reached => Meets(bestM)
          /\ ~changed => best = result
    /\ pc = "leave" => Meets(bestM) \/ total = IterationLimit

Kept(m, e) == IsFinite(m) /\ (Kkt(m) <= Kkt(e) \/ Kkt(e) >= SatFloor)

\* The last joint block may install a point only because it meets the targets.
KeptSinceEntry ==
    InPhase /\ IsFinite(entry) =>
        Kept(bestM, entry) \/ (pc = "leave" /\ IsFinite(bestM) /\ Meets(bestM))

LEMMA ImprovesKeeps ==
    ASSUME NEW m \in Reading, NEW b \in Reading, NEW e \in Metric,
           Kept(b, e), Improves(m, b)
    PROVE  Kept(m, e)
<1>1. m \in Metric /\ b \in Metric /\ IsFinite(m) /\ IsFinite(b)
  BY DEF Kept, Improves, IsFinite, Reading
<1>2. Kkt(m) \in Nat /\ Kkt(b) \in Nat /\ Kkt(e) \in Nat
  BY <1>1, KktNat
<1>3. CASE Tied(Kkt(m), Kkt(b))
  BY <1>1, <1>2, <1>3, MetricsAssumption DEF Kept, Tied
<1>4. CASE ~Tied(Kkt(m), Kkt(b))
  <2>1. Kkt(m) < Kkt(b)
    BY <1>1, <1>4 DEF Improves, BetterCheckpoint
  <2> QED
    BY <1>1, <1>2, <2>1 DEF Kept
<1> QED
  BY <1>3, <1>4

\* Any phase that retains by Improves alone keeps what Incumbent and
\* KeptSinceEntry say of the retained point.
LEMMA RetainImproving ==
    ASSUME HpTypeOK, Incumbent, InPhase, KeptSinceEntry, pc # "leave",
           NEW p \in Point, Retain(p, Improves(Reads(p), bestM)),
           result' = result, entry' = entry
    PROVE  /\ bestM' = Reads(best') /\ bestM' \in Reading
           /\ ~changed' => best' = result'
           /\ IsFinite(entry) => Kept(bestM', entry)
<1>1. bestM' = Reads(best') /\ (~changed' => best' = result')
  <2>1. CASE Improves(Reads(p), bestM)
    BY <2>1 DEF Retain, Reads, HpTypeOK
  <2>2. CASE ~Improves(Reads(p), bestM)
    BY <2>2, ImprovesBoolean DEF Retain, Reads, Incumbent, HpTypeOK
  <2> QED
    BY <2>1, <2>2
<1>2. bestM' \in Reading
  BY ReadsType DEF Retain, HpTypeOK
<1>3. ASSUME IsFinite(entry) PROVE Kept(bestM', entry)
  <2>1. Kept(bestM, entry) /\ entry \in Metric
    BY <1>3 DEF KeptSinceEntry, HpTypeOK, Reading, IsFinite
  <2>2. CASE Improves(Reads(p), bestM)
    BY <2>1, <2>2, ReadsType, ImprovesKeeps DEF Retain, HpTypeOK
  <2>3. CASE ~Improves(Reads(p), bestM)
    BY <2>1, <2>3 DEF Retain
  <2> QED
    BY <2>2, <2>3
<1> QED
  BY <1>1, <1>2, <1>3

LEMMA IncumbentKept == Spec => [](Incumbent /\ KeptSinceEntry)
<1> USE PolishAssumption, Caps
<1>1. Init => Incumbent /\ KeptSinceEntry
  BY DEF Init, Incumbent, KeptSinceEntry, InPhase
<1>2. /\ HpTypeOK /\ SharedBudget /\ Incumbent /\ KeptSinceEntry /\ [Next]_vars
      => (Incumbent /\ KeptSinceEntry)'
  <2> SUFFICES ASSUME HpTypeOK, SharedBudget, Incumbent, KeptSinceEntry, [Next]_vars
               PROVE  Incumbent' /\ KeptSinceEntry'
    OBVIOUS
  <2>1. CASE Audit \/ ApplyPostsolve \/ Skip \/ Refuse \/ Leave
    <3>1. pc' \in {"polish", "returned", "postsolve", "audit", "reaudit"}
      BY <2>1 DEF Audit, ApplyPostsolve, Skip, Refuse, Leave, After
    <3> QED
      BY <3>1 DEF Incumbent, KeptSinceEntry, InPhase
  <2>2. CASE Begin
    <3>1. Repaired \in Point /\ Reads(Repaired) \in Reading
      BY RepairedPoint, ReadsType DEF HpTypeOK
    <3>2. /\ best' = Repaired /\ bestM' = Reads(Repaired) /\ entry' = bestM'
          /\ result' = Repaired /\ reached' = FALSE /\ pc' # "leave"
      BY <2>2 DEF Begin
    <3>3. bestM' = Reads(best')
      BY <3>2
    <3>4. IsFinite(entry') => Kept(bestM', entry')
      <4>1. SUFFICES ASSUME IsFinite(entry') PROVE Kept(bestM', bestM')
        BY <3>2
      <4>2. bestM' \in Metric
        BY <3>1, <3>2, <4>1 DEF IsFinite, Reading
      <4> QED
        BY <4>2, <4>1, <3>2, KktNat DEF Kept
    <3> QED
      BY <3>2, <3>3, <3>4 DEF Incumbent, KeptSinceEntry, Reads
  <2>3. CASE NeutralIteration
    <3> USE <2>3 DEF NeutralIteration
    <3>1. /\ InPhase /\ pc = "neutral" /\ pc' \in {"neutral", "neutralEnd"}
          /\ model' = model /\ result' = result /\ entry' = entry
      BY DEF callVars, InPhase
    <3>2. TargetFeas' = TargetFeas /\ TargetOpt' = TargetOpt
      BY <3>1 DEF TargetFeas, TargetOpt
    <3>3. CASE pc' = "neutralEnd" /\ UNCHANGED <<cur, top, misses, bestVars>>
      BY <3>1, <3>2, <3>3 DEF Incumbent, KeptSinceEntry, Meets, Reads, bestVars
    <3>4. ASSUME NEW x \in Primals,
                 Retain([cur EXCEPT !.x = x], Improves(Reads([cur EXCEPT !.x = x]), bestM)),
                 reached' = Meets(bestM')
          PROVE  Incumbent' /\ KeptSinceEntry'
      <4>1. [cur EXCEPT !.x = x] \in Point
        BY DEF HpTypeOK, Point
      <4>2. /\ bestM' = Reads(best') /\ (~changed' => best' = result')
            /\ IsFinite(entry) => Kept(bestM', entry)
        BY <3>1, <3>4, <4>1, RetainImproving
      <4>3. reached' => Meets(bestM)'
        BY <3>2, <3>4 DEF Meets
      <4> QED
        BY <3>1, <4>2, <4>3 DEF Incumbent, KeptSinceEntry, Reads
    <3> QED
      BY <3>3, <3>4
  <2>4. CASE EndNeutral \/ SkipCertificate \/ HandOff \/ ClockAdvances \/ UNCHANGED vars
    <3>1. /\ InPhase' => InPhase
          /\ pc' = "leave" => pc = "leave" /\ total' = total
          /\ pc = "leave" => pc' = "leave"
          /\ UNCHANGED <<model, result, used, entry, bestVars>>
      BY <2>4 DEF EndNeutral, SkipCertificate, HandOff, ClockAdvances, vars, callVars,
                  searchVars, InPhase
    <3>2. TargetFeas' = TargetFeas /\ TargetOpt' = TargetOpt /\ IterationLimit' = IterationLimit
      BY <3>1 DEF TargetFeas, TargetOpt, IterationLimit
    <3> QED
      BY <3>1, <3>2 DEF Incumbent, KeptSinceEntry, Meets, Reads, bestVars
  <2>5. CASE BeginCertificate
    <3> USE <2>5 DEF BeginCertificate
    <3>1. /\ InPhase /\ pc = "choose" /\ pc' = "certificate"
          /\ model' = model /\ result' = result /\ entry' = entry
      BY DEF callVars, InPhase
    <3>2. TargetFeas' = TargetFeas /\ TargetOpt' = TargetOpt
      BY <3>1 DEF TargetFeas, TargetOpt
    <3>3. cur' \in Point
      BY DEF HpTypeOK, Point
    <3>4. /\ bestM' = Reads(best') /\ bestM' \in Reading /\ (~changed' => best' = result')
          /\ IsFinite(entry) => Kept(bestM', entry)
      BY <3>1, <3>3, RetainImproving
    <3>5. ~reached
      <4>1. SUFFICES ASSUME Meets(bestM), NeedsCertificate PROVE FALSE
        BY <3>1 DEF Incumbent
      <4>2. bestM \in Metric
        BY <4>1 DEF Meets, IsFinite, HpTypeOK, Reading
      <4>3. TargetFeas \in Nat /\ TargetOpt \in Nat
        BY MetricsAssumption DEF TargetFeas, TargetOpt, Smaller
      <4> QED
        BY <4>1, <4>2, <4>3 DEF Meets, NeedsCertificate, Feas, Larger, Metric
    <3>6. reached' => Meets(bestM)'
      BY <3>2, <3>5 DEF Meets
    <3> QED
      BY <3>1, <3>4, <3>6 DEF Incumbent, KeptSinceEntry, Reads
  <2>6. CASE CertificateBlock
    <3> USE <2>6 DEF CertificateBlock
    <3>1. /\ InPhase /\ pc = "certificate" /\ pc' \in {"certificate", "handoff"}
          /\ model' = model /\ result' = result /\ entry' = entry
      BY DEF callVars, InPhase, Searching
    <3>2. TargetFeas' = TargetFeas /\ TargetOpt' = TargetOpt
      BY <3>1 DEF TargetFeas, TargetOpt
    <3>3. cur' \in Point
      BY DEF HpTypeOK, Point
    <3>4. /\ bestM' = Reads(best') /\ (~changed' => best' = result')
          /\ IsFinite(entry) => Kept(bestM', entry)
      BY <3>1, <3>3, RetainImproving
    <3>5. reached' => Meets(bestM)'
      BY <3>2 DEF Meets
    <3> QED
      BY <3>1, <3>4, <3>5 DEF Incumbent, KeptSinceEntry, Reads
  <2>7. CASE JointBlock
    <3> USE <2>7 DEF JointBlock
    <3>1. /\ InPhase /\ pc = "joint" /\ ~reached /\ reached' = reached
          /\ total < IterationLimit /\ used' = used /\ pc' \in {"joint", "leave"}
          /\ model' = model /\ result' = result /\ entry' = entry
      BY DEF callVars, InPhase, Continuing
    <3>2. TargetFeas' = TargetFeas /\ TargetOpt' = TargetOpt /\ IterationLimit' = IterationLimit
      BY <3>1 DEF TargetFeas, TargetOpt, IterationLimit
    <3>3. cur' \in Point
      BY DEF HpTypeOK
    <3>4. CASE Meets(Reads(cur'))
      <4>1. bestM' = Reads(cur') /\ best' = cur' /\ changed' /\ pc' = "leave"
        BY <3>4 DEF Retain
      <4>2. Meets(bestM)' /\ IsFinite(bestM')
        BY <3>2, <3>4, <4>1 DEF Meets
      <4> QED
        BY <3>1, <4>1, <4>2 DEF Incumbent, KeptSinceEntry, Reads
    <3>5. CASE ~Meets(Reads(cur'))
      <4>1. /\ bestM' = Reads(best') /\ (~changed' => best' = result')
            /\ IsFinite(entry) => Kept(bestM', entry)
        <5>1. Retain(cur', Improves(Reads(cur'), bestM))
          BY <3>5, ImprovesBoolean DEF Retain
        <5> QED
          BY <3>1, <3>3, <5>1, RetainImproving
      <4>2. pc' = "leave" => total' = IterationLimit
        <5>1. SUFFICES ASSUME pc' = "leave" PROVE total' = IterationLimit
          OBVIOUS
        <5>2. PICK r \in Nat \ {0} : r = IterationLimit - total
          BY <3>1, BudgetNat DEF HpTypeOK
        <5>3. Block(r) < Freq /\ total' = total + Block(r)
          BY <3>5, <5>1, <5>2 DEF PartialBlockEnds
        <5> QED
          BY <5>2, <5>3, BudgetNat DEF Block, Smaller, HpTypeOK
      <4> QED
        BY <3>1, <3>2, <4>1, <4>2 DEF Incumbent, KeptSinceEntry, Reads
    <3> QED
      BY <3>4, <3>5
  <2> QED
    BY <2>1, <2>2, <2>3, <2>4, <2>5, <2>6, <2>7 DEF Next, Step, Returned
<1> QED
  BY <1>1, <1>2, PolishTypeCorrect, PolishWithinBudget, PTL DEF Spec

(***************************************************************************)
(* The metrics every phase compares with are those of the retained vectors.*)
(***************************************************************************)
THEOREM PolishMeasuresIncumbent == Spec => []IncumbentMeasured
<1>1. Incumbent => IncumbentMeasured
  BY DEF Incumbent, IncumbentMeasured
<1> QED
  BY <1>1, IncumbentKept, PTL

(***************************************************************************)
(* A continuation retains nothing worse than what it first measured, save  *)
(* a point that meets every target.                                        *)
(***************************************************************************)
THEOREM PolishNeverLoses == Spec => []RetainedNoWorse
<1>1. KeptSinceEntry => RetainedNoWorse
  BY DEF KeptSinceEntry, Kept, RetainedNoWorse, NoWorse
<1> QED
  BY <1>1, IncumbentKept, PTL

(***************************************************************************)
(* An admitted continuation gives up only at its target or with its        *)
(* iterations or its time spent.                                           *)
(***************************************************************************)
THEOREM PolishGivesUpSpent == Spec => GivesUpOnlySpent
<1>1. /\ HpTypeOK /\ SharedBudget /\ Incumbent /\ [Next]_vars
      => [Leave => Meets(bestM) \/ total = IterationLimit \/ timeUp]_vars
  <2> SUFFICES ASSUME HpTypeOK, SharedBudget, Incumbent, Leave
               PROVE  Meets(bestM) \/ total = IterationLimit \/ timeUp
    OBVIOUS
  <2>1. CASE pc = "leave"
    BY <2>1 DEF Incumbent
  <2>2. CASE pc = "joint" /\ ~Continuing
    <3>1. InPhase /\ (reached \/ ~(total < IterationLimit) \/ timeUp)
      BY <2>2 DEF Continuing, InPhase
    <3>2. total <= IterationLimit
      BY <3>1, LimitLeft, PolishAssumption DEF SharedBudget, HpTypeOK
    <3> QED
      BY <3>1, <3>2, BudgetNat DEF Incumbent, HpTypeOK
  <2> QED
    BY <2>1, <2>2 DEF Leave
<1> QED
  BY <1>1, IncumbentKept, PolishTypeCorrect, PolishWithinBudget, PTL
     DEF Spec, GivesUpOnlySpent

------------------------------------------------------------------------------
(* What the solver returns.                                                *)

\* The last audit may replace the reduced costs.
LEMMA RefinedNoWorse ==
    ASSUME NEW p \in Point, NEW e \in Metric, FeasTol <= OptTol,
           IsFinite(Reads(p)), NoWorse(Reads(p), e)
    PROVE  NoWorse(Reads(Refined(p)), e)
<1> DEFINE q == [p EXCEPT !.d = Exact[p.d]]
<1>1. SUFFICES ASSUME Refined(p) = q, IsFinite(Reads(q)),
                      Larger(Reads(q).dual, Reads(q).gap) < Larger(Reads(p).dual, Reads(p).gap)
               PROVE  NoWorse(Reads(q), e)
  BY DEF Refined
<1>2. /\ q \in Point /\ q.x = p.x /\ q.d = Exact[p.d]
      /\ p.x \in Primals /\ p.d \in Duals
  BY PolishAssumption DEF Point
<1>3. Reads(p) \in Metric /\ Reads(q) \in Metric
  BY <1>1, <1>2, ReadsType DEF IsFinite, Reading
<1> DEFINE a == Reads(p)  b == Reads(q)
<1>4. b.primal = a.primal /\ b.dual <= a.dual
  BY <1>1, <1>2, ExactIsNearest DEF Reads
<1>5. Larger(b.dual, b.gap) < Larger(a.dual, a.gap)
  BY <1>1
<1> HIDE DEF a, b, q
<1>6. /\ a.primal \in Nat /\ a.dual \in Nat /\ a.gap \in Nat
      /\ b.primal \in Nat /\ b.dual \in Nat /\ b.gap \in Nat
  BY <1>3 DEF a, b, Metric
<1>7. Kkt(b) <= Kkt(a) /\ Kkt(a) \in Nat /\ Kkt(b) \in Nat /\ Kkt(e) \in Nat
  <2>1. Kkt(b) <= Kkt(a)
    BY <1>4, <1>5, <1>6 DEF Kkt, Feas, Larger
  <2> QED
    BY <2>1, <1>3, KktNat DEF a, b
<1>8. Meets(a) => Meets(b)
  <2>1. SUFFICES ASSUME Feas(a) < TargetFeas, a.gap < TargetOpt
                 PROVE  Feas(b) < TargetFeas /\ b.gap < TargetOpt
    BY <1>1 DEF Meets, b
  <2>2. TargetFeas \in Nat /\ TargetOpt \in Nat /\ TargetFeas <= TargetOpt
    BY MetricsAssumption, PolishAssumption DEF TargetFeas, TargetOpt, Smaller
  <2> QED
    BY <2>1, <2>2, <1>4, <1>5, <1>6 DEF Feas, Larger
<1>9. NoWorse(a, e)
  BY DEF a
<1>10. NoWorse(b, e)
  BY <1>7, <1>8, <1>9 DEF NoWorse
<1> QED
  BY <1>10 DEF b

\* A continuation's entry reading lives from its start to the next audit.
Outcome ==
    /\ pc \in {"polish", "audit"} => entry = NonFinite
    /\ pc = "reaudit" /\ IsFinite(entry) =>
          IsFinite(Reads(result)) /\ NoWorse(Reads(result), entry)

(***************************************************************************)
(* The returned residuals are those of the returned vectors, and no worse  *)
(* than what the continuation on the original model began with.            *)
(***************************************************************************)
THEOREM ResultDescribed == Spec => []ReportedDescribesResult
<1>1. Init => Outcome /\ ReportedDescribesResult
  BY DEF Init, Outcome, ReportedDescribesResult
<1>2. /\ HpTypeOK /\ Incumbent /\ KeptSinceEntry
      /\ Outcome /\ ReportedDescribesResult /\ [Next]_vars
      => (Outcome /\ ReportedDescribesResult)'
  <2> SUFFICES ASSUME HpTypeOK, Incumbent, KeptSinceEntry,
                      Outcome, ReportedDescribesResult, [Next]_vars
               PROVE  Outcome' /\ ReportedDescribesResult'
    OBVIOUS
  <2>1. CASE Audit
    <3>1. /\ pc = "audit" => pc' = "polish"
          /\ pc = "reaudit" => pc' = "returned"
          /\ pc \in {"audit", "reaudit"}
          /\ result' = Refined(result) /\ reported' = Reads(result')
          /\ entry' = entry /\ model' = model
      BY <2>1 DEF Audit
    <3>2. Outcome'
      BY <3>1 DEF Outcome
    <3>3. ASSUME pc = "reaudit", IsFinite(entry), FeasTol <= OptTol
          PROVE  NoWorse(reported', entry)
      <4>1. entry \in Metric /\ result \in Point
        BY <3>3 DEF HpTypeOK, IsFinite, Reading
      <4>2. IsFinite(Reads(result)) /\ NoWorse(Reads(result), entry)
        BY <3>3 DEF Outcome
      <4> QED
        BY <3>1, <3>3, <4>1, <4>2, RefinedNoWorse
    <3>4. TargetFeas' = TargetFeas /\ TargetOpt' = TargetOpt
      BY <3>1 DEF TargetFeas, TargetOpt
    <3>5. pc' = "returned" => (reported = Reads(result))'
      BY <3>1 DEF Reads
    <3>6. (IsFinite(entry) /\ FeasTol <= OptTol => NoWorse(reported, entry))' \/ pc' # "returned"
      BY <3>1, <3>3, <3>4 DEF NoWorse, Meets
    <3> QED
      BY <3>2, <3>5, <3>6 DEF ReportedDescribesResult
  <2>2. CASE ApplyPostsolve
    BY <2>2 DEF ApplyPostsolve, Outcome, ReportedDescribesResult, IsFinite
  <2>3. CASE Skip \/ Refuse
    <3>1. pc = "polish" /\ pc' \in {"postsolve", "reaudit"} /\ entry' = entry
      BY <2>3 DEF Skip, Refuse, After
    <3> QED
      BY <3>1 DEF Outcome, ReportedDescribesResult, IsFinite
  <2>4. CASE Leave
    <3>1. /\ InPhase /\ pc' \in {"postsolve", "reaudit"}
          /\ entry' = entry /\ model' = model
          /\ result' = IF changed THEN best ELSE result
      BY <2>4 DEF Leave, After, InPhase
    <3>2. result' = best /\ Reads(best) = bestM
      BY <3>1 DEF Incumbent, HpTypeOK
    <3>3. IsFinite(entry) => IsFinite(bestM) /\ NoWorse(bestM, entry)
      BY <3>1 DEF KeptSinceEntry, Kept, NoWorse
    <3>4. TargetFeas' = TargetFeas /\ TargetOpt' = TargetOpt
      BY <3>1 DEF TargetFeas, TargetOpt
    <3>5. (IsFinite(entry) => IsFinite(Reads(result)) /\ NoWorse(Reads(result), entry))'
      BY <3>1, <3>2, <3>3, <3>4 DEF NoWorse, Meets, Reads
    <3> QED
      BY <3>1, <3>5 DEF Outcome, ReportedDescribesResult
  <2>5. CASE \/ Begin \/ NeutralIteration \/ EndNeutral \/ SkipCertificate
             \/ BeginCertificate \/ CertificateBlock \/ HandOff \/ JointBlock
             \/ ClockAdvances
    <3>1. pc' \in {"neutral", "neutralEnd", "choose", "certificate", "handoff", "joint", "leave"}
      BY <2>5 DEF Begin, NeutralIteration, EndNeutral, SkipCertificate, BeginCertificate,
                  CertificateBlock, HandOff, JointBlock, ClockAdvances
    <3> QED
      BY <3>1 DEF Outcome, ReportedDescribesResult
  <2>6. CASE UNCHANGED vars
    BY <2>6 DEF vars, callVars, Outcome, ReportedDescribesResult, NoWorse, Meets,
                TargetFeas, TargetOpt, Reads
  <2> QED
    BY <2>1, <2>2, <2>3, <2>4, <2>5, <2>6 DEF Next, Step, Returned
<1> QED
  BY <1>1, <1>2, IncumbentKept, PolishTypeCorrect, PTL DEF Spec

------------------------------------------------------------------------------
(* The x the certificate search holds.                                     *)

\* The reading of the neutral phase's own checkpoint.
AtTop == Reads([start EXCEPT !.x = top])

\* The neutral phase compares KKT errors alone, the retained point breaks
\* ties of saturated errors by feasibility: below saturation they agree.
NeutralAgrees ==
    /\ best.d = start.d /\ cur.d = start.d
    /\ IsFinite(bestM) /\ IsFinite(Reads(start)) /\ IsFinite(AtTop)
    /\ Kkt(bestM) < SatFloor => top = best.x
    /\ Kkt(bestM) >= SatFloor => Kkt(AtTop) >= SatFloor
    /\ top = start.x \/ Kkt(AtTop) < Kkt(Reads(start))

Held ==
    /\ pc \in {"neutral", "neutralEnd"} => NeutralAgrees
    /\ pc \in {"choose", "certificate", "handoff"} =>
          (IsFinite(bestM) /\ Kkt(bestM) < SatFloor => start.x = best.x)
    /\ pc \in {"certificate", "handoff"} => IsFinite(bestM) /\ cur.x = start.x

\* One candidate p, the retained reading b and the neutral checkpoint's t.
LEMMA NeutralCandidate ==
    ASSUME NEW p \in Metric, NEW b \in Metric, NEW t \in Metric,
           Kkt(b) < SatFloor => t = b,
           Kkt(b) >= SatFloor => Kkt(t) >= SatFloor
    PROVE  /\ Improves(p, b) /\ Kkt(p) < SatFloor => Kkt(p) < Kkt(t)
           /\ Improves(p, b) /\ Kkt(p) >= SatFloor => Kkt(t) >= SatFloor
           /\ ~Improves(p, b) /\ Kkt(b) < SatFloor => ~(Kkt(p) < Kkt(t))
           /\ ~Improves(p, b) /\ Kkt(b) >= SatFloor => Kkt(p) >= SatFloor
<1>1. Kkt(p) \in Nat /\ Kkt(b) \in Nat /\ Kkt(t) \in Nat
  BY KktNat
<1>2. IsFinite(p) /\ IsFinite(b)
  BY MetricsAssumption DEF IsFinite
<1>3. CASE Tied(Kkt(p), Kkt(b))
  BY <1>1, <1>3, MetricsAssumption DEF Tied
<1>4. CASE ~Tied(Kkt(p), Kkt(b))
  <2>1. Improves(p, b) <=> Kkt(p) < Kkt(b)
    BY <1>2, <1>4 DEF Improves, BetterCheckpoint
  <2> QED
    BY <1>1, <2>1, MetricsAssumption
<1> QED
  BY <1>3, <1>4

LEMMA HeldThroughout == Spec => []Held
<1> USE PolishAssumption, Caps
<1>1. Init => Held
  BY DEF Init, Held
<1>2. HpTypeOK /\ Incumbent /\ Held /\ [Next]_vars => Held'
  <2> SUFFICES ASSUME HpTypeOK, Incumbent, Held, [Next]_vars PROVE Held'
    OBVIOUS
  <2>1. CASE \/ Audit \/ ApplyPostsolve \/ Skip \/ Refuse \/ Leave \/ JointBlock
             \/ HandOff \/ SkipCertificate
    <3>1. pc' \in {"polish", "returned", "postsolve", "audit", "reaudit", "joint", "leave"}
      BY <2>1 DEF Audit, ApplyPostsolve, Skip, Refuse, Leave, JointBlock, HandOff,
                  SkipCertificate, After
    <3> QED
      BY <3>1 DEF Held
  <2>2. CASE Begin
    <3>1. Repaired \in Point /\ Reads(Repaired) \in Reading /\ Repaired.x \in Primals
      BY RepairedPoint, ReadsType DEF HpTypeOK, Point
    <3>2. /\ start' = Repaired /\ cur' = Repaired /\ best' = Repaired
          /\ top' = Repaired.x /\ bestM' = Reads(Repaired)
          /\ pc' = IF NeedsNeutral(bestM') THEN "neutral" ELSE "choose"
      BY <2>2 DEF Begin
    <3>3. CASE pc' = "choose"
      BY <3>2, <3>3 DEF Held
    <3>4. CASE pc' = "neutral"
      <4>1. IsFinite(bestM') /\ bestM' \in Metric
        BY <3>1, <3>2, <3>4 DEF NeedsNeutral, IsFinite, Reading
      <4>2. [start EXCEPT !.x = top]' = Repaired
        BY <3>1, <3>2 DEF Point
      <4>3. AtTop' = bestM' /\ Reads(start)' = bestM'
        BY <3>2, <4>2 DEF AtTop, Reads
      <4>4. NeutralAgrees'
        BY <3>2, <4>1, <4>3, KktNat, MetricsAssumption DEF NeutralAgrees
      <4> QED
        BY <3>4, <4>4 DEF Held
    <3> QED
      BY <3>2, <3>3, <3>4
  <2>3. CASE NeutralIteration
    <3> USE <2>3 DEF NeutralIteration
    <3>1. /\ pc = "neutral" /\ pc' \in {"neutral", "neutralEnd"} /\ start' = start
          /\ NeutralAgrees
      BY DEF Held
    <3>2. CASE UNCHANGED <<cur, top, misses, bestVars>>
      BY <3>1, <3>2 DEF Held, NeutralAgrees, AtTop, Reads, bestVars
    <3>3. ASSUME NEW x \in Primals, NEW p \in Point, NEW gains \in BOOLEAN,
                 p = [cur EXCEPT !.x = x],
                 gains <=> /\ IsFinite(Reads(p))
                           /\ Kkt(Reads(p)) < Kkt(Reads([cur EXCEPT !.x = top])),
                 cur' = p, top' = IF gains THEN x ELSE top,
                 Retain(p, Improves(Reads(p), bestM))
          PROVE  Held'
      <4>1. /\ p.d = start.d /\ p.x = x
            /\ [cur EXCEPT !.x = top] = [start EXCEPT !.x = top]
            /\ [start EXCEPT !.x = top] \in Point
            /\ p = [start EXCEPT !.x = x]
        BY <3>1, <3>3 DEF NeutralAgrees, HpTypeOK, Point
      <4>2. Reads([cur EXCEPT !.x = top]) = AtTop /\ AtTop \in Metric /\ bestM \in Metric
        BY <3>1, <4>1, ReadsType DEF NeutralAgrees, AtTop, HpTypeOK, Reading, IsFinite
      <4>3. (Kkt(bestM) < SatFloor => AtTop = bestM) /\ bestM = Reads(best)
        <5>1. bestM = Reads(best)
          BY <3>1 DEF Incumbent, InPhase
        <5>2. top = best.x => [start EXCEPT !.x = top] = best
          BY <3>1 DEF NeutralAgrees, HpTypeOK, Point
        <5> QED
          BY <3>1, <5>1, <5>2 DEF NeutralAgrees, AtTop
      <4>4. /\ best'.d = start'.d /\ cur'.d = start'.d /\ Reads(start)' = Reads(start)
        BY <3>1, <3>3, <4>1 DEF Retain, NeutralAgrees, Reads
      <4>5. AtTop' = IF gains THEN Reads(p) ELSE AtTop
        BY <3>1, <3>3, <4>1 DEF AtTop, Reads
      <4>6. CASE ~IsFinite(Reads(p))
        <5>1. ~gains /\ ~Improves(Reads(p), bestM)
          BY <3>3, <4>6 DEF Improves
        <5>2. best' = best /\ bestM' = bestM /\ top' = top /\ AtTop' = AtTop
          BY <3>3, <4>5, <5>1 DEF Retain
        <5>3. NeutralAgrees'
          BY <3>1, <4>4, <5>2 DEF NeutralAgrees
        <5> QED
          BY <3>1, <5>3 DEF Held
      <4>7. CASE IsFinite(Reads(p))
        <5> DEFINE r == Reads(p)
        <5>1. r \in Metric
          BY <4>7, ReadsType DEF IsFinite, Reading
        <5>2. /\ Improves(r, bestM) /\ Kkt(r) < SatFloor => Kkt(r) < Kkt(AtTop)
              /\ Improves(r, bestM) /\ Kkt(r) >= SatFloor => Kkt(AtTop) >= SatFloor
              /\ ~Improves(r, bestM) /\ Kkt(bestM) < SatFloor => ~(Kkt(r) < Kkt(AtTop))
              /\ ~Improves(r, bestM) /\ Kkt(bestM) >= SatFloor => Kkt(r) >= SatFloor
          BY <3>1, <4>2, <4>3, <5>1, NeutralCandidate DEF NeutralAgrees
        <5>3. gains <=> Kkt(r) < Kkt(AtTop)
          BY <3>3, <4>2, <4>7
        <5>4. /\ Kkt(r) \in Nat /\ Kkt(AtTop) \in Nat /\ Kkt(bestM) \in Nat
              /\ Kkt(Reads(start)) \in Nat /\ SatFloor \in Nat
          <6>1. Reads(start) \in Metric
            BY <3>1, ReadsType DEF NeutralAgrees, HpTypeOK, Reading, IsFinite
          <6> QED
            BY <6>1, <5>1, <4>2, KktNat, MetricsAssumption
        <5>5. top' = start.x \/ Kkt(AtTop') < Kkt(Reads(start))
          <6>1. CASE gains
            <7>1. Kkt(AtTop) <= Kkt(Reads(start))
              <8>1. top = start.x => [start EXCEPT !.x = top] = start
                BY DEF HpTypeOK, Point
              <8> QED
                BY <3>1, <5>4, <8>1 DEF NeutralAgrees, AtTop
            <7> QED
              BY <6>1, <7>1, <5>3, <5>4, <4>5
          <6>2. CASE ~gains
            BY <6>2, <3>1, <3>3, <4>5 DEF NeutralAgrees
          <6> QED
            BY <6>1, <6>2
        <5>6. /\ IsFinite(bestM') /\ IsFinite(AtTop')
              /\ Kkt(bestM') < SatFloor => top' = best'.x
              /\ Kkt(bestM') >= SatFloor => Kkt(AtTop') >= SatFloor
          <6>1. CASE Improves(r, bestM)
            <7>1. bestM' = r /\ best'.x = x
              BY <6>1, <3>3, <4>1 DEF Retain
            <7> QED
              BY <6>1, <7>1, <3>1, <3>3, <4>5, <4>7, <5>2, <5>3, <5>4 DEF NeutralAgrees
          <6>2. CASE ~Improves(r, bestM)
            <7>1. bestM' = bestM /\ best' = best
              BY <6>2, <3>3 DEF Retain
            <7> QED
              BY <6>2, <7>1, <3>1, <3>3, <4>5, <4>7, <5>2, <5>3, <5>4 DEF NeutralAgrees
          <6> QED
            BY <6>1, <6>2
        <5>7. NeutralAgrees'
          BY <4>4, <5>5, <5>6, <3>1 DEF NeutralAgrees
        <5> QED
          BY <3>1, <5>7 DEF Held
      <4> QED
        BY <4>6, <4>7
    <3>4. ASSUME NEW x \in Primals PROVE [cur EXCEPT !.x = x] \in Point
      BY DEF HpTypeOK, Point
    <3> QED
      BY <3>2, <3>3, <3>4
  <2>4. CASE EndNeutral
    <3>1. /\ NeutralAgrees /\ pc' = "choose" /\ start' = NeutralHandoff
          /\ best' = best /\ bestM' = bestM
      BY <2>4 DEF EndNeutral, Held, bestVars
    <3>2. bestM \in Metric
      BY <3>1 DEF NeutralAgrees, HpTypeOK, Reading, IsFinite
    <3>3. Kkt(bestM) < SatFloor => start'.x = best'.x
      BY <3>1 DEF NeutralAgrees, NeutralHandoff, AtTop, HpTypeOK, Point
    <3> QED
      BY <3>1, <3>3 DEF Held
  <2>5. CASE BeginCertificate
    <3>1. PICK d \in Duals : /\ cur' = [start EXCEPT !.d = d]
                             /\ Retain(cur', Improves(Reads(cur'), bestM))
      BY <2>5 DEF BeginCertificate
    <3>2. /\ pc = "choose" /\ pc' = "certificate" /\ start' = start /\ IsFinite(bestM)
      BY <2>5 DEF BeginCertificate, NeedsCertificate
    <3>3. cur'.x = start.x
      BY <3>1 DEF HpTypeOK, Point
    <3> QED
      BY <3>1, <3>2, <3>3 DEF Held, Retain, Improves
  <2>6. CASE CertificateBlock
    <3>1. /\ cur' = cur \/ (\E d \in Duals : cur' = [start EXCEPT !.d = d])
          /\ Retain(cur', Improves(Reads(cur'), bestM))
      BY <2>6 DEF CertificateBlock
    <3>2. /\ pc = "certificate" /\ pc' \in {"certificate", "handoff"} /\ start' = start
      BY <2>6 DEF CertificateBlock, Searching
    <3>3. cur'.x = start.x
      BY <3>1, <3>2 DEF Held, HpTypeOK, Point
    <3> QED
      BY <3>1, <3>2, <3>3 DEF Held, Retain, Improves
  <2>7. CASE ClockAdvances \/ UNCHANGED vars
    BY <2>7 DEF ClockAdvances, vars, callVars, searchVars, bestVars, Held, NeutralAgrees,
                AtTop, Reads
  <2> QED
    BY <2>1, <2>2, <2>3, <2>4, <2>5, <2>6, <2>7 DEF Next, Step, Returned
<1> QED
  BY <1>1, <1>2, IncumbentKept, PolishTypeCorrect, PTL DEF Spec

(***************************************************************************)
(* The certificate search and the retained point share their x, unless     *)
(* every KKT error seen so far is saturated.                               *)
(***************************************************************************)
THEOREM CertificateHoldsIncumbent == Spec => []HeldPrimalIsIncumbent
<1>1. Held => HeldPrimalIsIncumbent
  BY DEF Held, HeldPrimalIsIncumbent
<1> QED
  BY <1>1, HeldThroughout, PTL

------------------------------------------------------------------------------
(* How many steps the extraction takes.                                    *)

\* The way from a location to the end of a continuation on the original model,
\* or, 13 further away, of one on the working model and what follows it.
Place == [polish |-> 12, neutral |-> 10, neutralEnd |-> 9, choose |-> 8,
          certificate |-> 6, handoff |-> 5, joint |-> 4, leave |-> 3,
          postsolve |-> 1, audit |-> 13, reaudit |-> 1, returned |-> 0]

Position == Place[pc] + (IF model = "working" THEN 13 ELSE 0)

Spent == used + (IF InPhase THEN total ELSE 0)

\* The deadlines, of the call and of the phase, that may still pass.
Deadlines == (IF timeUp THEN 0 ELSE 1) + (IF phaseUp THEN 0 ELSE 1)

\* Bound on the steps still to come.
StepsLeft == (Limit - Spent) + Position + Deadlines

\* Postsolve follows the working model, the audits belong to the original one.
Route ==
    /\ pc = "postsolve" => model = "working"
    /\ pc \in {"audit", "reaudit", "returned"} => model = "original"

LEMMA RouteKept == Spec => []Route
<1>1. Init => Route
  BY DEF Init, Route
<1>2. HpTypeOK /\ Route /\ [Next]_vars => Route'
  <2> SUFFICES ASSUME HpTypeOK, Route, [Next]_vars PROVE Route'
    OBVIOUS
  <2>1. CASE Audit \/ ApplyPostsolve
    BY <2>1 DEF Audit, ApplyPostsolve, Route
  <2>2. CASE Skip \/ Refuse \/ Leave
    <3>1. model' = model /\ pc' = After /\ model \in {"working", "original"}
      BY <2>2 DEF Skip, Refuse, Leave, callVars, HpTypeOK
    <3> QED
      BY <3>1 DEF After, Route
  <2>3. CASE \/ Begin \/ NeutralIteration \/ EndNeutral \/ SkipCertificate
             \/ BeginCertificate \/ CertificateBlock \/ HandOff \/ JointBlock
             \/ ClockAdvances
    <3>1. pc' \in {"neutral", "neutralEnd", "choose", "certificate", "handoff", "joint", "leave"}
      BY <2>3 DEF Begin, NeutralIteration, EndNeutral, SkipCertificate, BeginCertificate,
                  CertificateBlock, HandOff, JointBlock, ClockAdvances
    <3> QED
      BY <3>1 DEF Route
  <2>4. CASE UNCHANGED vars
    BY <2>4 DEF vars, callVars, Route
  <2> QED
    BY <2>1, <2>2, <2>3, <2>4 DEF Next, Step, Returned
<1> QED
  BY <1>1, <1>2, PolishTypeCorrect, PTL DEF Spec

LEMMA SpentType ==
    ASSUME HpTypeOK, SharedBudget
    PROVE  Spent \in 0 .. Limit /\ Deadlines \in 0 .. 2 /\ Place[pc] \in 0 .. 13
<1>1. Spent \in 0 .. Limit
  BY PolishAssumption DEF HpTypeOK, SharedBudget, Spent
<1>2. Deadlines \in 0 .. 2
  BY DEF HpTypeOK, Deadlines
<1>3. Place[pc] \in 0 .. 13
  BY DEF HpTypeOK, PCs, Place
<1> QED
  BY <1>1, <1>2, <1>3

\* Outside the phases, and into and out of them, nothing of the budget is
\* spent; a phase's deadline is only reset where the location falls by two.
LEMMA OutsidePhases ==
    ASSUME HpTypeOK, Route, Audit \/ ApplyPostsolve \/ Skip \/ Refuse \/ Begin \/ Leave
    PROVE  Spent' = Spent /\ Position' + Deadlines' < Position + Deadlines
<1>0. used \in Nat /\ total \in Nat /\ timeUp \in BOOLEAN /\ phaseUp \in BOOLEAN
  BY DEF HpTypeOK
<1>1. CASE Audit \/ ApplyPostsolve
  <2>1. UNCHANGED <<used, timeUp, phaseUp>>
    BY <1>1 DEF Audit, ApplyPostsolve
  <2>2. \/ pc = "audit" /\ pc' = "polish" /\ model = "original" /\ model' = "original"
        \/ pc = "reaudit" /\ pc' = "returned" /\ model = "original" /\ model' = "original"
        \/ pc = "postsolve" /\ pc' = "audit" /\ model = "working" /\ model' = "original"
    BY <1>1 DEF Audit, ApplyPostsolve, Route
  <2>3. Position' < Position
    BY <2>2 DEF Position, Place
  <2>4. Spent' = Spent /\ Deadlines' = Deadlines /\ Deadlines \in 0 .. 2
    BY <1>0, <2>1, <2>2 DEF Spent, InPhase, Deadlines
  <2>5. Position \in Nat /\ Position' \in Nat
    BY <2>2 DEF Position, Place
  <2> QED
    BY <2>3, <2>4, <2>5 DEF Position, Deadlines, Spent
<1>2. CASE Skip \/ Refuse
  <2>1. UNCHANGED <<used, timeUp, phaseUp, model>> /\ pc = "polish" /\ pc' = After
    BY <1>2 DEF Skip, Refuse, callVars
  <2>2. pc' \in {"postsolve", "reaudit"}
    BY <2>1 DEF After
  <2>3. Spent' = Spent /\ Deadlines' = Deadlines /\ Deadlines \in 0 .. 2
    BY <1>0, <2>1, <2>2 DEF Spent, InPhase, Deadlines
  <2>4. Position' < Position /\ Position \in Nat /\ Position' \in Nat
    BY <2>1, <2>2 DEF Position, Place
  <2> QED
    BY <2>3, <2>4 DEF Position, Deadlines, Spent
<1>3. CASE Begin
  <2>1. /\ UNCHANGED <<used, timeUp, model>> /\ total' = 0
        /\ pc = "polish" /\ pc' \in {"neutral", "choose"}
    BY <1>3 DEF Begin
  <2>2. Spent' = Spent
    BY <1>0, <2>1 DEF Spent, InPhase
  <2>3. Deadlines' \in 0 .. Deadlines + 1 /\ Deadlines \in 0 .. 2
    BY <1>0, <2>1 DEF Deadlines
  <2>4. Position' + 2 <= Position /\ Position \in Nat /\ Position' \in Nat
    BY <2>1 DEF Position, Place
  <2> QED
    BY <2>2, <2>3, <2>4 DEF Position, Deadlines, Spent
<1>4. CASE Leave
  <2>1. /\ UNCHANGED <<timeUp, model>> /\ used' = used + total
        /\ pc \in {"leave", "joint"} /\ pc' = After
    BY <1>4 DEF Leave
  <2>2. pc' \in {"postsolve", "reaudit"}
    BY <2>1 DEF After
  <2>3. Spent' = Spent
    BY <1>0, <2>1, <2>2 DEF Spent, InPhase
  <2>4. Deadlines' \in 0 .. Deadlines + 1 /\ Deadlines \in 0 .. 2
    BY <1>0, <2>1 DEF Deadlines
  <2>5. Position' + 2 <= Position /\ Position \in Nat /\ Position' \in Nat
    BY <2>1, <2>2 DEF Position, Place
  <2> QED
    BY <2>3, <2>4, <2>5 DEF Position, Deadlines, Spent
<1> QED
  BY <1>1, <1>2, <1>3, <1>4

\* Within the phases a step either moves on or spends an iteration in place; a
\* certificate block that ran none of its iterations ends the search.
LEMMA InsidePhases ==
    ASSUME HpTypeOK, SharedBudget, Shares,
           \/ NeutralIteration \/ EndNeutral \/ SkipCertificate \/ BeginCertificate
           \/ CertificateBlock \/ HandOff \/ JointBlock
    PROVE  /\ Spent' \in Nat
           /\ Position' + Deadlines' + Spent < Position + Deadlines + Spent'
<1> USE PolishAssumption, Caps
<1>0. /\ used \in Nat /\ total \in Nat /\ until \in Nat
      /\ timeUp \in BOOLEAN /\ phaseUp \in BOOLEAN
  BY DEF HpTypeOK
<1>1. CASE NeutralIteration
  <2>1. /\ UNCHANGED <<used, timeUp, phaseUp, model>> /\ total' = total + 1
        /\ pc = "neutral" /\ pc' \in {"neutral", "neutralEnd"}
    BY <1>1 DEF NeutralIteration, callVars
  <2>2. Spent \in Nat /\ Spent' = Spent + 1
    BY <1>0, <2>1 DEF Spent, InPhase
  <2>3. Deadlines' = Deadlines /\ Deadlines \in 0 .. 2
    BY <1>0, <2>1 DEF Deadlines
  <2>4. Position' <= Position /\ Position \in Nat /\ Position' \in Nat
    BY <2>1 DEF Position, Place
  <2> QED
    BY <2>2, <2>3, <2>4 DEF Position, Deadlines, Spent
<1>2. CASE EndNeutral \/ SkipCertificate \/ HandOff
  <2>1. /\ UNCHANGED <<used, timeUp, phaseUp, model, total>>
        /\ \/ pc \in {"neutral", "neutralEnd"} /\ pc' = "choose"
           \/ pc = "choose" /\ pc' = "joint"
           \/ pc \in {"handoff", "certificate"} /\ pc' = "joint"
    BY <1>2 DEF EndNeutral, SkipCertificate, HandOff, callVars
  <2>2. Spent \in Nat /\ Spent' = Spent
    BY <1>0, <2>1 DEF Spent, InPhase
  <2>3. Deadlines' = Deadlines /\ Deadlines \in 0 .. 2
    BY <1>0, <2>1 DEF Deadlines
  <2>4. Position' < Position /\ Position \in Nat /\ Position' \in Nat
    BY <2>1 DEF Position, Place
  <2> QED
    BY <2>2, <2>3, <2>4 DEF Position, Deadlines, Spent
<1>3. CASE BeginCertificate
  <2>1. /\ UNCHANGED <<used, timeUp, model, total>>
        /\ pc = "choose" /\ pc' = "certificate"
    BY <1>3 DEF BeginCertificate, callVars
  <2>2. Spent \in Nat /\ Spent' = Spent
    BY <1>0, <2>1 DEF Spent, InPhase
  <2>3. Deadlines' \in 0 .. Deadlines + 1 /\ Deadlines \in 0 .. 2
    BY <1>0, <2>1 DEF Deadlines
  <2>4. Position' + 2 <= Position /\ Position \in Nat /\ Position' \in Nat
    BY <2>1 DEF Position, Place
  <2> QED
    BY <2>2, <2>3, <2>4 DEF Position, Deadlines, Spent
<1>4. CASE CertificateBlock
  <2>1. PICK done \in 0 .. Block(until - total) :
          /\ total' = total + done /\ phaseUp' = (done < Block(until - total))
          /\ done < Block(until - total) => pc' = "handoff"
    BY <1>4 DEF CertificateBlock
  <2>2. /\ UNCHANGED <<used, timeUp, model>> /\ ~phaseUp /\ total < until
        /\ pc = "certificate" /\ pc' \in {"handoff", "certificate"}
    BY <1>4 DEF CertificateBlock, Searching, callVars
  <2>3. Block(until - total) \in Nat \ {0}
    BY <1>0, <2>2, BlockBounds
  <2>4. done \in Nat /\ (done = 0 => pc' = "handoff")
    BY <2>1, <2>3
  <2>5. Spent \in Nat /\ Spent' = Spent + done
    BY <1>0, <2>1, <2>2, <2>4 DEF Spent, InPhase
  <2>6. Deadlines' \in 0 .. Deadlines /\ Deadlines \in 0 .. 2
    BY <1>0, <2>2 DEF Deadlines
  <2>7. \/ pc' = "handoff"
        \/ pc' = "certificate" /\ done > 0
    BY <2>2, <2>4
  <2>8. /\ Position \in Nat /\ Position' \in Nat /\ Position' <= Position
        /\ Position' < Position \/ done > 0
    <3>1. CASE pc' = "handoff"
      BY <2>2, <3>1 DEF Position, Place
    <3>2. CASE pc' = "certificate" /\ done > 0
      BY <2>2, <3>2 DEF Position, Place
    <3> QED
      BY <2>7, <3>1, <3>2
  <2>9. done \in Nat /\ (Position' < Position \/ done > 0)
    BY <2>4, <2>8
  <2> QED
    BY <2>5, <2>6, <2>8, <2>9 DEF Position, Deadlines, Spent
<1>5. CASE JointBlock
  <2>1. /\ UNCHANGED <<used, timeUp, phaseUp, model>> /\ total < IterationLimit
        /\ total' = total + Block(IterationLimit - total)
        /\ pc = "joint" /\ pc' \in {"joint", "leave"}
    BY <1>5 DEF JointBlock, Continuing, callVars
  <2>2. PICK done \in Nat \ {0} : done = Block(IterationLimit - total)
    BY <1>0, <2>1, BlockBounds, BudgetNat
  <2>3. Spent \in Nat /\ Spent' = Spent + done
    BY <1>0, <2>1, <2>2 DEF Spent, InPhase
  <2>4. Deadlines' = Deadlines /\ Deadlines \in 0 .. 2
    BY <1>0, <2>1 DEF Deadlines
  <2>5. Position' <= Position /\ Position \in Nat /\ Position' \in Nat
    BY <2>1 DEF Position, Place
  <2>6. done \in Nat /\ done > 0
    BY <2>2
  <2>7. Deadlines' \in 0 .. Deadlines
    BY <2>4
  <2> QED
    BY <2>3, <2>4, <2>5, <2>6, <2>7 DEF Position, Deadlines, Spent
<1> QED
  BY <1>1, <1>2, <1>3, <1>4, <1>5

(***************************************************************************)
(* Nothing makes an extraction run on: phases that hand over to each       *)
(* other, blocks that are rolled back, searches without a step and both    *)
(* continuations take at most the iteration limit and 28 steps, since each *)
(* step spends an iteration of the shared budget or moves on.              *)
(***************************************************************************)
THEOREM ExtractionStepsBounded ==
    Spec => /\ [](StepsLeft \in 0 .. Limit + 28)
            /\ [][StepsLeft' < StepsLeft]_vars
<1>1. HpTypeOK /\ SharedBudget => StepsLeft \in 0 .. Limit + 28
  <2> SUFFICES ASSUME HpTypeOK, SharedBudget PROVE StepsLeft \in 0 .. Limit + 28
    OBVIOUS
  <2>1. Position \in 0 .. 26
    BY SpentType DEF Position
  <2> QED
    BY <2>1, SpentType, PolishAssumption DEF StepsLeft
<1>2. ASSUME HpTypeOK, SharedBudget, Shares, Route, HpTypeOK', SharedBudget',
             Next, ~UNCHANGED vars
      PROVE  StepsLeft' < StepsLeft
  <2>1. /\ Spent \in 0 .. Limit /\ Deadlines \in 0 .. 2 /\ Place[pc] \in 0 .. 13
        /\ Spent' \in 0 .. Limit /\ Deadlines' \in 0 .. 2 /\ Place[pc'] \in 0 .. 13
    <3>1. Spent \in 0 .. Limit /\ Deadlines \in 0 .. 2 /\ Place[pc] \in 0 .. 13
      BY <1>2, SpentType
    <3>2. (Spent \in 0 .. Limit /\ Deadlines \in 0 .. 2 /\ Place[pc] \in 0 .. 13)'
      BY <1>2, SpentType, PTL
    <3> QED
      BY <3>1, <3>2
  <2>2. Position \in Nat /\ Position' \in Nat
    BY <2>1 DEF Position
  <2>3. CASE Audit \/ ApplyPostsolve \/ Skip \/ Refuse \/ Begin \/ Leave
    <3>1. Spent' = Spent /\ Position' + Deadlines' < Position + Deadlines
      BY <1>2, <2>3, OutsidePhases
    <3> QED
      BY <2>1, <2>2, <3>1, PolishAssumption DEF StepsLeft, Position, Deadlines, Spent
  <2>4. CASE \/ NeutralIteration \/ EndNeutral \/ SkipCertificate \/ BeginCertificate
             \/ CertificateBlock \/ HandOff \/ JointBlock
    <3>1. Position' + Deadlines' + Spent < Position + Deadlines + Spent'
      BY <1>2, <2>4, InsidePhases
    <3> QED
      BY <2>1, <2>2, <3>1, PolishAssumption DEF StepsLeft, Position, Deadlines, Spent
  <2>5. CASE ClockAdvances
    <3>1. /\ UNCHANGED <<pc, model, used, total>> /\ phaseUp' = TRUE
          /\ timeUp' \in {timeUp, TRUE}
          /\ timeUp' # timeUp \/ phaseUp' # phaseUp
      BY <1>2, <2>5 DEF ClockAdvances, vars, callVars
    <3>2. Spent' = Spent /\ Position' = Position
      BY <3>1 DEF Spent, InPhase, Position
    <3>3. timeUp \in BOOLEAN /\ phaseUp \in BOOLEAN
      BY <1>2 DEF HpTypeOK
    <3>4. \/ timeUp' /\ ~timeUp /\ phaseUp'
          \/ timeUp' = timeUp /\ ~phaseUp /\ phaseUp'
      BY <3>1, <3>3
    <3>5. Deadlines' < Deadlines
      BY <3>3, <3>4 DEF Deadlines
    <3> QED
      BY <2>1, <2>2, <3>2, <3>5, PolishAssumption DEF StepsLeft
  <2> QED
    BY <1>2, <2>3, <2>4, <2>5 DEF Next, Step, Returned
<1>3. HpTypeOK /\ SharedBudget /\ Shares /\ Route /\ HpTypeOK' /\ SharedBudget' /\ [Next]_vars
        => [StepsLeft' < StepsLeft]_vars
  BY <1>2
<1> QED
  BY <1>1, <1>3, PolishTypeCorrect, BudgetKept, RouteKept, PTL DEF Spec
==============================================================================
