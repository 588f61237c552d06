--------------------------- MODULE SolveMpsProofs -----------------------------
(***************************************************************************)
(* For any file, wherever reading it fails: every block of the loader is   *)
(* freed once by its one owner.  For any matrix the solver accepts: its    *)
(* transpose holds every entry once, in the row of its column.  And for    *)
(* any file that spells its meaning: the problem loaded is that meaning.   *)
(***************************************************************************)
EXTENDS SolveMps, FiniteSetTheorems, SequenceTheorems, TLAPS

ParserBlocks ==
    {"rowMap", "colMap", "buffered", "objRow", "current", "coo", "types"} \union Arrays

\* Who owns what, at every point of the loader.
HeapInv ==
    /\ holds \in [Owners -> SUBSET (ParserBlocks \union {"prob", "csr", "handle"})]
    /\ ~badFree
    /\ pc \in {"open", "reading", "parsed"} =>
          holds["problem"] = {} /\ holds["handle"] = {} /\ holds["parser"] \subseteq ParserBlocks
    /\ pc = "open" => heap = {}
    /\ pc = "reading" => heap = {"reader"} \union holds["parser"]
    /\ pc = "parsed" => heap = holds["parser"]
    /\ pc = "built" => heap = holds["problem"] /\ holds["handle"] = {}
    /\ pc = "loaded" => heap = holds["problem"] \union holds["handle"]
    /\ pc \in {"null", "freed"} => heap = {}

heapVars == <<pc, heap, holds, badFree>>

LEMMA PointsToBlocks == \A t : PointsTo(t) \subseteq ParserBlocks
BY DEF PointsTo, ParserBlocks, Arrays

\* A line read may allocate what the parser state points to, and nothing else.
LEMMA ReadsHeap ==
    ASSUME HeapInv, pc = "reading", NEW t, Reads(t)
    PROVE  HeapInv'
<1>1. PointsTo(t) \subseteq ParserBlocks
  BY PointsToBlocks
<1>2. /\ holds' = [holds EXCEPT !["parser"] = holds["parser"] \union PointsTo(t)]
      /\ heap' = heap \union PointsTo(t) /\ UNCHANGED <<pc, badFree>>
  BY DEF Reads
<1>3. /\ holds' \in [Owners -> SUBSET (ParserBlocks \union {"prob", "csr", "handle"})]
      /\ holds'["problem"] = {} /\ holds'["handle"] = {}
      /\ holds'["parser"] = holds["parser"] \union PointsTo(t)
      /\ holds["parser"] \subseteq ParserBlocks
  BY <1>1, <1>2 DEF HeapInv, Owners
<1>4. heap' = {"reader"} \union holds'["parser"]
  BY <1>2, <1>3 DEF HeapInv
<1> QED
  BY <1>1, <1>2, <1>3, <1>4 DEF HeapInv

LEMMA MpsStepHeap ==
    ASSUME HeapInv, MpsNext
    PROVE  HeapInv'
<1>1. CASE OpenFails
  BY <1>1 DEF OpenFails, HeapInv
<1>2. CASE Open
  <2>1. PointsTo(InitialState) \subseteq ParserBlocks
    BY PointsToBlocks
  <2>2. /\ pc' = "reading" /\ badFree' = badFree
        /\ heap' = {"reader"} \union PointsTo(InitialState)
        /\ holds' = [holds EXCEPT !["parser"] = PointsTo(InitialState)]
    BY <1>2 DEF Open
  <2>3. /\ holds' \in [Owners -> SUBSET (ParserBlocks \union {"prob", "csr", "handle"})]
        /\ holds'["problem"] = {} /\ holds'["handle"] = {}
        /\ holds'["parser"] = PointsTo(InitialState)
    BY <1>2, <2>1, <2>2 DEF Open, HeapInv, Owners
  <2> QED
    BY <2>1, <2>2, <2>3 DEF HeapInv
<1>3. CASE SkipLine
  BY <1>3, ReadsHeap DEF SkipLine
<1>4. CASE HeaderLine
  <2>1. pc = "reading" /\ \E t : Reads(t)
    BY <1>4 DEF HeaderLine
  <2> QED
    BY <2>1, ReadsHeap
<1>5. CASE RecordLine
  <2>1. pc = "reading" /\ \E t : Reads(t)
    BY <1>5 DEF RecordLine
  <2> QED
    BY <2>1, ReadsHeap
<1>6. CASE CloseReader
  <2>1. /\ pc = "reading" /\ pc' = "parsed" /\ holds' = holds
        /\ heap' = heap \ {"reader"} /\ badFree' = (badFree \/ ~({"reader"} \subseteq heap))
    BY <1>6 DEF CloseReader, Free
  <2>2. "reader" \in heap /\ "reader" \notin holds["parser"]
    BY <2>1 DEF HeapInv, ParserBlocks, Arrays
  <2>3. heap' = holds'["parser"] /\ ~badFree'
    BY <2>1, <2>2 DEF HeapInv
  <2> QED
    BY <2>1, <2>3 DEF HeapInv
<1>7. CASE Reject
  <2>1. /\ pc = "parsed" /\ pc' = "null" /\ holds' = holds /\ heap' = heap \ holds["parser"]
        /\ badFree' = (badFree \/ ~(holds["parser"] \subseteq heap))
    BY <1>7 DEF Reject, Free
  <2>2. heap' = {} /\ ~badFree'
    BY <2>1 DEF HeapInv
  <2> QED
    BY <2>1, <2>2 DEF HeapInv
<1>8. CASE Build
  <2>1. /\ pc = "parsed" /\ pc' = "built" /\ holds' = TakeOver
        /\ heap' = (heap \union {"prob", "csr"}) \ TakeOver["parser"]
        /\ badFree' = (badFree \/ ~(TakeOver["parser"] \subseteq heap))
    BY <1>8 DEF Build
  <2>2. /\ holds \in [Owners -> SUBSET (ParserBlocks \union {"prob", "csr", "handle"})]
        /\ heap = holds["parser"] /\ ~badFree
        /\ holds["handle"] = {} /\ holds["parser"] \subseteq ParserBlocks
    BY <2>1 DEF HeapInv
  <2>3. /\ TakeOver \in [Owners -> SUBSET (ParserBlocks \union {"prob", "csr", "handle"})]
        /\ TakeOver["parser"] = holds["parser"] \ Arrays
        /\ TakeOver["problem"] = {"prob", "csr"} \union (holds["parser"] \intersect Arrays)
        /\ TakeOver["handle"] = {}
    BY <2>2 DEF TakeOver, Owners
  <2>4. "prob" \notin holds["parser"] /\ "csr" \notin holds["parser"]
    BY <2>2 DEF ParserBlocks, Arrays
  <2>5. heap' = TakeOver["problem"] /\ ~badFree'
    BY <2>1, <2>2, <2>3, <2>4
  <2> QED
    BY <2>1, <2>3, <2>5 DEF HeapInv
<1>9. CASE Wrap
  <2>1. /\ pc = "built" /\ pc' = "loaded" /\ badFree' = badFree
        /\ heap' = heap \union {"handle"}
        /\ holds' = [holds EXCEPT !["handle"] = {"handle"}]
    BY <1>9 DEF Wrap
  <2>2. /\ holds' \in [Owners -> SUBSET (ParserBlocks \union {"prob", "csr", "handle"})]
        /\ holds'["problem"] = holds["problem"] /\ holds'["handle"] = {"handle"}
    BY <2>1 DEF HeapInv, Owners
  <2> QED
    BY <2>1, <2>2 DEF HeapInv
<1>10. CASE WrapFails
  <2>1. /\ pc = "built" /\ pc' = "null" /\ holds' = holds /\ heap' = heap \ holds["problem"]
        /\ badFree' = (badFree \/ ~(holds["problem"] \subseteq heap))
    BY <1>10 DEF WrapFails, Free
  <2>2. heap' = {} /\ ~badFree'
    BY <2>1 DEF HeapInv
  <2> QED
    BY <2>1, <2>2 DEF HeapInv
<1>11. CASE FreeProblem
  <2>1. /\ pc = "loaded" /\ pc' = "freed" /\ holds' = holds
        /\ heap' = heap \ (holds["problem"] \union holds["handle"])
        /\ badFree' = (badFree \/ ~((holds["problem"] \union holds["handle"]) \subseteq heap))
    BY <1>11 DEF FreeProblem, Free
  <2>2. heap' = {} /\ ~badFree'
    BY <2>1 DEF HeapInv
  <2> QED
    BY <2>1, <2>2 DEF HeapInv
<1> QED
  BY <1>1, <1>2, <1>3, <1>4, <1>5, <1>6, <1>7, <1>8, <1>9, <1>10, <1>11 DEF MpsNext

(***************************************************************************)
(* Whatever the file holds and wherever its loading fails or stops, every  *)
(* block of the parser, of the problem and of the handle is freed exactly  *)
(* once (mps_parser.c's cleanup paths, mlxpdlp_mps_problem_free), and none *)
(* that a loaded problem points to before the problem is.                  *)
(***************************************************************************)
THEOREM MpsHeapExact == Spec => []HeapExact
<1>1. Init => HeapInv
  BY DEF Init, MpsInit, HeapInv, Owners
<1>2. HeapInv /\ [Next]_vars => HeapInv'
  <2> SUFFICES ASSUME HeapInv, [Next]_vars PROVE HeapInv'
    OBVIOUS
  <2>1. CASE UNCHANGED heapVars
    BY <2>1 DEF heapVars, HeapInv
  <2>2. CASE Load
    BY <2>2, MpsStepHeap DEF Load
  <2>3. CASE Raise \/ CopyModel \/ Construct \/ Solve \/ Return \/ Rests
    <3>1. UNCHANGED heapVars
      BY <2>3 DEF Raise, CopyModel, Construct, Solve, Return, Rests, vars, mpsVars, heapVars
    <3> QED
      BY <2>1, <3>1
  <2>4. CASE UNCHANGED vars
    BY <2>1, <2>4 DEF vars, mpsVars, heapVars
  <2> QED
    BY <2>2, <2>3, <2>4 DEF Next
<1>3. HeapInv => HeapExact
  BY DEF HeapInv, HeapExact
<1> QED
  BY <1>1, <1>2, <1>3, PTL DEF Spec

------------------------------------------------------------------------------
(* The counting sort of keys 1 .. n: a bucket for each key, where it ends,  *)
(* and how many entries of it come no later than entry k.                   *)

Upto(keys, i) == {k \in DOMAIN keys : keys[k] <= i}
Bucket(keys, i) == {k \in DOMAIN keys : keys[k] = i}
SoFar(keys, k) == {j \in 1 .. k : keys[j] = keys[k]}

LEMMA BucketFacts ==
    ASSUME NEW N \in Nat, NEW n \in Nat, NEW keys \in [1 .. N -> 1 .. n], NEW i \in Int
    PROVE  /\ IsFiniteSet(Upto(keys, i)) /\ IsFiniteSet(Bucket(keys, i))
           /\ Cardinality(Upto(keys, i)) \in Nat /\ Cardinality(Upto(keys, i)) <= N
           /\ Cardinality(Bucket(keys, i)) \in Nat
           /\ Cardinality(Upto(keys, i)) = Cardinality(Upto(keys, i - 1)) + Cardinality(Bucket(keys, i))
           /\ \A j \in Int : i <= j => Cardinality(Upto(keys, i)) <= Cardinality(Upto(keys, j))
<1>1. IsFiniteSet(1 .. N) /\ Cardinality(1 .. N) = N
  BY FS_Interval
<1>2. \A j \in Int : Upto(keys, j) \in SUBSET (1 .. N)
  BY DEF Upto
<1>3. Bucket(keys, i) \in SUBSET (1 .. N)
  BY DEF Bucket
<1>4. \A j \in Int : IsFiniteSet(Upto(keys, j)) /\ Cardinality(Upto(keys, j)) <= N
  BY <1>1, <1>2, FS_Subset
<1>5. \A j \in Int : Cardinality(Upto(keys, j)) \in Nat
  BY <1>4, FS_CardinalityType
<1>6. IsFiniteSet(Bucket(keys, i)) /\ Cardinality(Bucket(keys, i)) \in Nat
  BY <1>1, <1>3, FS_Subset, FS_CardinalityType
<1>7. Cardinality(Upto(keys, i)) = Cardinality(Upto(keys, i - 1)) + Cardinality(Bucket(keys, i))
  <2>1. \A k \in 1 .. N : keys[k] \in Int /\ (keys[k] <= i <=> keys[k] <= i - 1 \/ keys[k] = i)
    OBVIOUS
  <2>2. /\ Upto(keys, i) = Upto(keys, i - 1) \cup Bucket(keys, i)
        /\ Upto(keys, i - 1) \cap Bucket(keys, i) = {}
    BY <2>1 DEF Upto, Bucket
  <2>3. IsFiniteSet(Upto(keys, i - 1)) /\ Cardinality(Upto(keys, i - 1)) \in Nat
    BY <1>4, <1>5
  <2>4. Cardinality(Upto(keys, i - 1) \cap Bucket(keys, i)) = 0
    BY <2>2, FS_EmptySet
  <2>5. Cardinality(Upto(keys, i - 1) \cup Bucket(keys, i))
          = Cardinality(Upto(keys, i - 1)) + Cardinality(Bucket(keys, i))
              - Cardinality(Upto(keys, i - 1) \cap Bucket(keys, i))
    BY <1>6, <2>3, FS_Union
  <2> QED
    BY <1>6, <2>2, <2>3, <2>4, <2>5
<1>8. ASSUME NEW j \in Int, i <= j
      PROVE  Cardinality(Upto(keys, i)) <= Cardinality(Upto(keys, j))
  <2>1. Upto(keys, i) \subseteq Upto(keys, j)
    BY <1>8 DEF Upto
  <2> QED
    BY <1>4, <2>1, FS_Subset
<1> QED
  BY <1>4, <1>5, <1>6, <1>7, <1>8

LEMMA SoFarFacts ==
    ASSUME NEW N \in Nat, NEW n \in Nat, NEW keys \in [1 .. N -> 1 .. n], NEW k \in 1 .. N
    PROVE  /\ IsFiniteSet(SoFar(keys, k)) /\ Cardinality(SoFar(keys, k)) \in Nat
           /\ 1 <= Cardinality(SoFar(keys, k))
           /\ Cardinality(SoFar(keys, k)) <= Cardinality(Bucket(keys, keys[k]))
           /\ \A l \in 1 .. N : l < k /\ keys[l] = keys[k] =>
                 Cardinality(SoFar(keys, l)) < Cardinality(SoFar(keys, k))
<1>1. keys[k] \in Int
  OBVIOUS
<1>2. IsFiniteSet(Bucket(keys, keys[k])) /\ Cardinality(Bucket(keys, keys[k])) \in Nat
  BY <1>1, BucketFacts
<1>3. \A l \in 1 .. N : SoFar(keys, l) \subseteq Bucket(keys, keys[l])
  BY DEF SoFar, Bucket
<1>4. IsFiniteSet(SoFar(keys, k)) /\ Cardinality(SoFar(keys, k)) <= Cardinality(Bucket(keys, keys[k]))
  BY <1>2, <1>3, FS_Subset
<1>5. Cardinality(SoFar(keys, k)) \in Nat
  BY <1>4, FS_CardinalityType
<1>6. k \in SoFar(keys, k)
  BY DEF SoFar
<1>7. Cardinality(SoFar(keys, k)) # 0
  BY <1>4, <1>6, FS_EmptySet
<1>8. ASSUME NEW l \in 1 .. N, l < k, keys[l] = keys[k]
      PROVE  Cardinality(SoFar(keys, l)) < Cardinality(SoFar(keys, k))
  <2>1. SoFar(keys, l) \subseteq SoFar(keys, k) /\ k \notin SoFar(keys, l)
    BY <1>8 DEF SoFar
  <2>2. /\ Cardinality(SoFar(keys, l)) <= Cardinality(SoFar(keys, k))
        /\ Cardinality(SoFar(keys, k)) = Cardinality(SoFar(keys, l)) => SoFar(keys, k) = SoFar(keys, l)
        /\ IsFiniteSet(SoFar(keys, l))
    BY <1>4, <2>1, FS_Subset
  <2>3. Cardinality(SoFar(keys, l)) \in Nat
    BY <2>2, FS_CardinalityType
  <2> QED
    BY <1>5, <1>6, <2>1, <2>2, <2>3
<1> QED
  BY <1>4, <1>5, <1>7, <1>8

LEMMA PlaceFacts ==
    ASSUME NEW N \in Nat, NEW n \in Nat, NEW keys \in [1 .. N -> 1 .. n], NEW k \in 1 .. N
    PROVE  /\ Place(keys, k) = Cardinality(Upto(keys, keys[k] - 1)) + Cardinality(SoFar(keys, k))
           /\ Place(keys, k) \in 1 .. N
           /\ Cardinality(Upto(keys, keys[k] - 1)) < Place(keys, k)
           /\ Place(keys, k) <= Cardinality(Upto(keys, keys[k]))
<1>1. keys[k] \in 1 .. n /\ keys[k] \in Int /\ keys[k] - 1 \in 0 .. keys[k] /\ DOMAIN keys = 1 .. N
  OBVIOUS
<1>2. Place(keys, k) = Cardinality(Upto(keys, keys[k] - 1)) + Cardinality(SoFar(keys, k))
  BY <1>1 DEF Place, Pointers, Upto, SoFar
<1>3. /\ Cardinality(Upto(keys, keys[k])) \in Nat /\ Cardinality(Upto(keys, keys[k])) <= N
      /\ Cardinality(Upto(keys, keys[k]))
           = Cardinality(Upto(keys, keys[k] - 1)) + Cardinality(Bucket(keys, keys[k]))
      /\ Cardinality(Bucket(keys, keys[k])) \in Nat
  BY <1>1, BucketFacts
<1>4. Cardinality(Upto(keys, keys[k] - 1)) \in Nat
  <2>1. keys[k] - 1 \in Int
    BY <1>1
  <2> QED
    BY <2>1, BucketFacts
<1>5. /\ Cardinality(SoFar(keys, k)) \in Nat /\ 1 <= Cardinality(SoFar(keys, k))
      /\ Cardinality(SoFar(keys, k)) <= Cardinality(Bucket(keys, keys[k]))
  BY SoFarFacts
<1> QED
  BY <1>2, <1>3, <1>4, <1>5

LEMMA PlacesApart ==
    ASSUME NEW N \in Nat, NEW n \in Nat, NEW keys \in [1 .. N -> 1 .. n],
           NEW k \in 1 .. N, NEW l \in 1 .. N, k # l
    PROVE  Place(keys, k) # Place(keys, l)
<1>1. /\ Place(keys, k) = Cardinality(Upto(keys, keys[k] - 1)) + Cardinality(SoFar(keys, k))
      /\ Cardinality(Upto(keys, keys[k] - 1)) < Place(keys, k)
      /\ Place(keys, k) <= Cardinality(Upto(keys, keys[k])) /\ Place(keys, k) \in 1 .. N
  BY PlaceFacts
<1>2. /\ Place(keys, l) = Cardinality(Upto(keys, keys[l] - 1)) + Cardinality(SoFar(keys, l))
      /\ Cardinality(Upto(keys, keys[l] - 1)) < Place(keys, l)
      /\ Place(keys, l) <= Cardinality(Upto(keys, keys[l])) /\ Place(keys, l) \in 1 .. N
  BY PlaceFacts
<1>3. keys[k] \in Int /\ keys[l] \in Int /\ keys[k] - 1 \in Int /\ keys[l] - 1 \in Int
  OBVIOUS
<1>4. /\ Cardinality(Upto(keys, keys[k])) \in Nat /\ Cardinality(Upto(keys, keys[k] - 1)) \in Nat
      /\ Cardinality(Upto(keys, keys[l])) \in Nat /\ Cardinality(Upto(keys, keys[l] - 1)) \in Nat
  BY <1>3, BucketFacts
<1>5. /\ \A j \in Int : keys[k] <= j => Cardinality(Upto(keys, keys[k])) <= Cardinality(Upto(keys, j))
      /\ \A j \in Int : keys[l] <= j => Cardinality(Upto(keys, keys[l])) <= Cardinality(Upto(keys, j))
  BY <1>3, BucketFacts
<1>6. CASE keys[k] < keys[l]
  <2>1. Cardinality(Upto(keys, keys[k])) <= Cardinality(Upto(keys, keys[l] - 1))
    BY <1>3, <1>5, <1>6
  <2> QED
    BY <1>1, <1>2, <1>4, <2>1
<1>7. CASE keys[l] < keys[k]
  <2>1. Cardinality(Upto(keys, keys[l])) <= Cardinality(Upto(keys, keys[k] - 1))
    BY <1>3, <1>5, <1>7
  <2> QED
    BY <1>1, <1>2, <1>4, <2>1
<1>8. CASE keys[k] = keys[l]
  <2>1. Cardinality(SoFar(keys, k)) # Cardinality(SoFar(keys, l))
    <3>1. Cardinality(SoFar(keys, k)) \in Nat /\ Cardinality(SoFar(keys, l)) \in Nat
      BY SoFarFacts
    <3>2. CASE k < l
      <4>1. Cardinality(SoFar(keys, k)) < Cardinality(SoFar(keys, l))
        BY <1>8, <3>2, SoFarFacts
      <4> QED
        BY <3>1, <4>1
    <3>3. CASE l < k
      <4>1. Cardinality(SoFar(keys, l)) < Cardinality(SoFar(keys, k))
        BY <1>8, <3>3, SoFarFacts
      <4> QED
        BY <3>1, <4>1
    <3> QED
      BY <3>2, <3>3
  <2>2. Cardinality(SoFar(keys, k)) \in Nat /\ Cardinality(SoFar(keys, l)) \in Nat
    BY SoFarFacts
  <2> QED
    BY <1>1, <1>2, <1>4, <1>8, <2>1, <2>2
<1> QED
  BY <1>3, <1>6, <1>7, <1>8

\* The places are a permutation, and Source undoes it.
LEMMA PlacesOnto ==
    ASSUME NEW N \in Nat, NEW n \in Nat, NEW keys \in [1 .. N -> 1 .. n], NEW q \in 1 .. N
    PROVE  \E k \in 1 .. N : Place(keys, k) = q
<1> DEFINE f == [k \in 1 .. N |-> Place(keys, k)]
<1>1. \A k \in 1 .. N : Place(keys, k) \in 1 .. N
  BY PlaceFacts
<1>2. f \in [1 .. N -> 1 .. N]
  BY <1>1
<1>3. \A k, l \in 1 .. N : f[k] = f[l] => k = l
  BY PlacesApart
<1>4. f \in Injection(1 .. N, 1 .. N)
  BY <1>2, <1>3 DEF Injection, IsInjective
<1>5. f \in Surjection(1 .. N, 1 .. N)
  BY <1>4, FS_Interval, FS_Injection
<1> QED
  BY <1>5 DEF Surjection

LEMMA SourceOf ==
    ASSUME NEW N \in Nat, NEW n \in Nat, NEW keys \in [1 .. N -> 1 .. n], NEW q \in 1 .. N
    PROVE  Source(keys, q) \in 1 .. N /\ Place(keys, Source(keys, q)) = q
<1>1. \E k \in DOMAIN keys : Place(keys, k) = q
  BY PlacesOnto
<1> QED
  BY <1>1 DEF Source

LEMMA PlaceOf ==
    ASSUME NEW N \in Nat, NEW n \in Nat, NEW keys \in [1 .. N -> 1 .. n], NEW k \in 1 .. N
    PROVE  Place(keys, k) \in 1 .. N /\ Source(keys, Place(keys, k)) = k
<1>1. PICK q \in 1 .. N : q = Place(keys, k)
  BY PlaceFacts
<1>2. PICK l \in 1 .. N : l = Source(keys, q) /\ Place(keys, l) = q
  BY SourceOf
<1>3. l = k
  BY <1>1, <1>2, PlacesApart
<1> QED
  BY <1>1, <1>2, <1>3

------------------------------------------------------------------------------
(* The transpose of a matrix whose entries have columns 1 .. n.            *)

LEMMA PointersFacts ==
    ASSUME NEW N \in Nat, NEW n \in Nat, NEW keys \in [1 .. N -> 1 .. n]
    PROVE  /\ \A i \in 0 .. n : Pointers(keys, n)[i] = Cardinality(Upto(keys, i))
           /\ \A i \in 0 .. n : Pointers(keys, n)[i] \in 0 .. N
           /\ \A i \in 1 .. n : Pointers(keys, n)[i - 1] <= Pointers(keys, n)[i]
           /\ Pointers(keys, n)[n] = N
<1>1. \A i \in 0 .. n : Pointers(keys, n)[i] = Cardinality(Upto(keys, i))
  BY DEF Pointers, Upto
<1>2. \A i \in 0 .. n : Cardinality(Upto(keys, i)) \in 0 .. N
  <2> SUFFICES ASSUME NEW i \in 0 .. n PROVE Cardinality(Upto(keys, i)) \in 0 .. N
    OBVIOUS
  <2>1. i \in Int
    OBVIOUS
  <2>2. Cardinality(Upto(keys, i)) \in Nat /\ Cardinality(Upto(keys, i)) <= N
    BY <2>1, BucketFacts
  <2> QED
    BY <2>2
<1>3. ASSUME NEW i \in 1 .. n
      PROVE  Pointers(keys, n)[i - 1] <= Pointers(keys, n)[i]
  <2>1. i - 1 \in Int /\ i \in Int /\ i - 1 <= i /\ i - 1 \in 0 .. n /\ i \in 0 .. n
    OBVIOUS
  <2>2. Cardinality(Upto(keys, i - 1)) <= Cardinality(Upto(keys, i))
    BY <2>1, BucketFacts
  <2> QED
    BY <1>1, <2>1, <2>2
<1>4. Upto(keys, n) = 1 .. N
  BY DEF Upto
<1>5. Pointers(keys, n)[n] = N
  BY <1>1, <1>4, FS_Interval
<1> QED
  BY <1>1, <1>2, <1>3, <1>5

\* An entry sorted into the range of a bucket has that bucket's key.
LEMMA BucketOfPlace ==
    ASSUME NEW N \in Nat, NEW n \in Nat, NEW keys \in [1 .. N -> 1 .. n], NEW j \in 1 .. n,
           NEW k \in 1 .. N, Cardinality(Upto(keys, j - 1)) < Place(keys, k),
           Place(keys, k) <= Cardinality(Upto(keys, j))
    PROVE  keys[k] = j
<1>1. keys[k] \in Int /\ keys[k] - 1 \in Int /\ j \in Int /\ j - 1 \in Int
  OBVIOUS
<1>2. /\ Cardinality(Upto(keys, keys[k] - 1)) < Place(keys, k)
      /\ Place(keys, k) <= Cardinality(Upto(keys, keys[k])) /\ Place(keys, k) \in 1 .. N
  BY PlaceFacts
<1>3. /\ Cardinality(Upto(keys, j)) \in Nat /\ Cardinality(Upto(keys, j - 1)) \in Nat
      /\ Cardinality(Upto(keys, keys[k])) \in Nat /\ Cardinality(Upto(keys, keys[k] - 1)) \in Nat
  BY <1>1, BucketFacts
<1>4. ASSUME keys[k] < j PROVE FALSE
  <2>1. keys[k] <= j - 1
    BY <1>1, <1>4
  <2>2. Cardinality(Upto(keys, keys[k])) <= Cardinality(Upto(keys, j - 1))
    BY <1>1, <2>1, BucketFacts
  <2> QED
    BY <1>2, <1>3, <2>2
<1>5. ASSUME j < keys[k] PROVE FALSE
  <2>1. j <= keys[k] - 1
    BY <1>1, <1>5
  <2>2. Cardinality(Upto(keys, j)) <= Cardinality(Upto(keys, keys[k] - 1))
    BY <1>1, <2>1, BucketFacts
  <2> QED
    BY <1>2, <1>3, <2>2
<1> QED
  BY <1>1, <1>4, <1>5

(***************************************************************************)
(* capture_sparse_matrix, for every matrix in CSR, repeated entries and    *)
(* empty rows and columns included: A^T has each entry of A exactly once,  *)
(* in the row of its column, with the row it came from.                    *)
(***************************************************************************)
THEOREM TransposeOfAnyMatrix ==
    ASSUME NEW N \in Nat, NEW n \in Nat, NEW keys \in [1 .. N -> 1 .. n],
           NEW p, p.n = n, p.colInd = keys, DOMAIN p.values = 1 .. N
    PROVE  Transposes(Transposed(p), p)
<1>0. /\ \A i \in 0 .. n : Pointers(keys, n)[i] = Cardinality(Upto(keys, i))
      /\ \A i \in 0 .. n : Pointers(keys, n)[i] \in 0 .. N
  BY ONLY PointersFacts, N \in Nat, n \in Nat, keys \in [1 .. N -> 1 .. n]
<1>1. p.n = n /\ p.colInd = keys /\ DOMAIN keys = 1 .. N
  OBVIOUS
<1> DEFINE t == Transposed(p)
<1>2. /\ t.rowPtr = Pointers(keys, n)
      /\ t.source = [q \in 1 .. N |-> Source(keys, q)]
      /\ t.colInd = [q \in 1 .. N |-> RowAt(p, Source(keys, q))]
  BY <1>1 DEF Transposed
<1> HIDE DEF t
<1>3. ASSUME NEW q \in 1 .. N
      PROVE  Source(keys, q) \in 1 .. N /\ Place(keys, Source(keys, q)) = q
  BY ONLY SourceOf, N \in Nat, n \in Nat, keys \in [1 .. N -> 1 .. n], <1>3
<1>6. ASSUME NEW k \in 1 .. N
      PROVE  Place(keys, k) \in 1 .. N /\ Source(keys, Place(keys, k)) = k
  BY ONLY PlaceOf, N \in Nat, n \in Nat, keys \in [1 .. N -> 1 .. n], <1>6
<1>4. ToSet(t.source) = DOMAIN p.values
  <2>1. ToSet(t.source) = {Source(keys, q) : q \in 1 .. N}
    BY <1>2 DEF ToSet
  <2>2. \A k \in 1 .. N : k = Source(keys, Place(keys, k)) /\ Place(keys, k) \in 1 .. N
    BY <1>6
  <2>3. \A q \in 1 .. N : Source(keys, q) \in 1 .. N
    BY <1>3
  <2>4. 1 .. N \subseteq {Source(keys, q) : q \in 1 .. N}
    BY <2>2
  <2> QED
    BY <2>1, <2>3, <2>4
<1>5. ASSUME NEW j \in 1 .. n, NEW q \in t.rowPtr[j - 1] + 1 .. t.rowPtr[j]
      PROVE  p.colInd[t.source[q]] = j /\ t.colInd[q] = RowAt(p, t.source[q])
  <2>1. j \in 0 .. n /\ j - 1 \in 0 .. n
    OBVIOUS
  <2>2. /\ t.rowPtr[j] = Cardinality(Upto(keys, j)) /\ t.rowPtr[j] \in 0 .. N
        /\ t.rowPtr[j - 1] = Cardinality(Upto(keys, j - 1)) /\ t.rowPtr[j - 1] \in 0 .. N
    BY <1>0, <1>2, <2>1
  <2>3. q \in 1 .. N /\ Cardinality(Upto(keys, j - 1)) < q /\ q <= Cardinality(Upto(keys, j))
    BY <2>2
  <2>4. t.source[q] = Source(keys, q) /\ t.colInd[q] = RowAt(p, Source(keys, q))
    BY <1>2, <2>3
  <2>5. Source(keys, q) \in 1 .. N /\ Place(keys, Source(keys, q)) = q
    BY <1>3, <2>3
  <2>6. keys[Source(keys, q)] = j
    <3>1. PICK k \in 1 .. N : k = Source(keys, q) /\ Place(keys, k) = q
      BY <2>5
    <3>2. keys[k] = j
      BY ONLY <2>3, <3>1, N \in Nat, n \in Nat, keys \in [1 .. N -> 1 .. n], j \in 1 .. n,
              BucketOfPlace
    <3> QED
      BY <3>1, <3>2
  <2> QED
    BY <1>1, <2>4, <2>6
<1> QED
  BY <1>1, <1>4, <1>5 DEF Transposes, t

------------------------------------------------------------------------------
(* The folds of a line's pairs and of a vector's terms.  A library fold is *)
(* a function of the subsets of its positions; what it computes is shown   *)
(* by induction, as the absence of a least exception.                      *)

LEMMA LeastNumber ==
    ASSUME NEW T \in SUBSET Nat, T # {}
    PROVE  \E n \in T : \A m \in T : n <= m
<1> DEFINE R == OpToRel(<, Nat)
<1>1. IsWellFoundedOn(R, Nat)
  BY NatLessThanWellFounded DEF OpToRel
<1>2. PICK n \in T : \A m \in T : ~(<<m, n>> \in R)
  <2> HIDE DEF R
  <2> QED
    BY <1>1, WFMin
<1>3. \A m \in T : ~(m < n)
  BY <1>2 DEF OpToRel
<1> QED
  BY <1>3

LEMMA Induction ==
    ASSUME NEW B \in SUBSET Nat, 0 \in B, \A n \in B : n + 1 \in B
    PROVE  B = Nat
<1> SUFFICES ASSUME B # Nat PROVE FALSE
  OBVIOUS
<1>1. (Nat \ B) \in SUBSET Nat /\ Nat \ B # {}
  OBVIOUS
<1>2. PICK n \in Nat \ B : \A m \in Nat \ B : n <= m
  BY <1>1, LeastNumber
<1>3. n # 0 /\ n - 1 \in Nat /\ n - 1 \in B
  BY <1>2
<1>4. (n - 1) + 1 \in B
  BY <1>3
<1> QED
  BY <1>2, <1>4

\* What one step of each fold does with the item at a position.
FoldStep(kind, seq, of, t, i) ==
    CASE kind = "field" -> IF seq[i] = None THEN t ELSE Append(t, seq[i])
      [] kind = "row" -> AddRow(t, seq[i])
      [] kind = "entry" -> AddEntry(t, of, seq[i])
      [] kind = "rhs" -> SetRhs(t, seq[i][1], Value(seq[i][2]))
      [] kind = "range" -> SetRange(t, seq[i][1], Value(seq[i][2]))
      [] kind = "term" -> of[i] * seq[i] + t
      [] kind = "sum" -> of[i] + t

\* The subsets of D with up to n elements, and a fold over them that takes
\* the element p[s] of a subset s last.
Small(D, n) == {s \in SUBSET D : Cardinality(s) <= n}
FoldOver(D, p, base, kind, seq, of, f) ==
    f = [s \in D |-> IF s = {} THEN base ELSE FoldStep(kind, seq, of, f[s \ {p[s]}], p[s])]

LEMMA FoldExists ==
    ASSUME NEW D, IsFiniteSet(D), NEW p, \A s \in SUBSET D : s # {} => p[s] \in s,
           NEW base, NEW kind, NEW seq, NEW of
    PROVE  \E f : FoldOver(SUBSET D, p, base, kind, seq, of, f)
<1> DEFINE B == {n \in Nat : \E f : FoldOver(Small(D, n), p, base, kind, seq, of, f)}
<1>1. \A s \in SUBSET D : IsFiniteSet(s) /\ Cardinality(s) \in Nat /\ Cardinality(s) <= Cardinality(D)
  BY FS_Subset, FS_CardinalityType
<1>2. 0 \in B
  <2>1. \A s \in Small(D, 0) : s = {}
    BY <1>1, FS_EmptySet DEF Small
  <2>2. FoldOver(Small(D, 0), p, base, kind, seq, of, [s \in Small(D, 0) |-> base])
    BY <2>1 DEF FoldOver
  <2> QED
    BY <2>2
<1>3. ASSUME NEW n \in B PROVE n + 1 \in B
  <2>1. n \in Nat /\ \E f : FoldOver(Small(D, n), p, base, kind, seq, of, f)
    OBVIOUS
  <2>2. PICK f : FoldOver(Small(D, n), p, base, kind, seq, of, f)
    BY <2>1
  <2> DEFINE g == [s \in Small(D, n + 1) |->
                      IF s = {} THEN base ELSE FoldStep(kind, seq, of, f[s \ {p[s]}], p[s])]
  <2>3. ASSUME NEW s \in Small(D, n + 1), s # {}
        PROVE  /\ s \ {p[s]} \in Small(D, n) /\ s \ {p[s]} \in Small(D, n + 1)
    <3>1. s \in SUBSET D /\ Cardinality(s) <= n + 1 /\ p[s] \in s
      BY <2>3 DEF Small
    <3>2. IsFiniteSet(s) /\ Cardinality(s) \in Nat
      BY <1>1, <3>1
    <3>3. Cardinality(s \ {p[s]}) = Cardinality(s) - 1
      BY <3>1, <3>2, FS_RemoveElement
    <3>4. s \ {p[s]} \in SUBSET D
      BY <3>1
    <3> QED
      BY <2>1, <3>1, <3>2, <3>3, <3>4 DEF Small
  <2>4. ASSUME NEW s \in Small(D, n) PROVE s \in Small(D, n + 1) /\ g[s] = f[s]
    <3>1. s \in Small(D, n + 1)
      BY <1>1, <2>1 DEF Small
    <3>2. f[s] = IF s = {} THEN base ELSE FoldStep(kind, seq, of, f[s \ {p[s]}], p[s])
      BY <2>2 DEF FoldOver
    <3>3. g[s] = IF s = {} THEN base ELSE FoldStep(kind, seq, of, f[s \ {p[s]}], p[s])
      BY <3>1
    <3> QED
      BY <3>1, <3>2, <3>3
  <2>5. \A s \in Small(D, n + 1) : s # {} => g[s \ {p[s]}] = f[s \ {p[s]}]
    BY <2>3, <2>4
  <2>6. g = [s \in Small(D, n + 1) |->
               IF s = {} THEN base ELSE FoldStep(kind, seq, of, g[s \ {p[s]}], p[s])]
    <3>1. \A s \in Small(D, n + 1) :
             (IF s = {} THEN base ELSE FoldStep(kind, seq, of, f[s \ {p[s]}], p[s]))
               = (IF s = {} THEN base ELSE FoldStep(kind, seq, of, g[s \ {p[s]}], p[s]))
      <4> HIDE DEF g
      <4> QED
        BY <2>5
    <3>2. [s \in Small(D, n + 1) |->
              IF s = {} THEN base ELSE FoldStep(kind, seq, of, f[s \ {p[s]}], p[s])]
            = [s \in Small(D, n + 1) |->
                 IF s = {} THEN base ELSE FoldStep(kind, seq, of, g[s \ {p[s]}], p[s])]
      <4> HIDE DEF g
      <4> QED
        BY <3>1
    <3> QED
      BY <3>2
  <2>7. FoldOver(Small(D, n + 1), p, base, kind, seq, of, g)
    <3> HIDE DEF g
    <3> QED
      BY <2>6 DEF FoldOver
  <2> QED
    BY <2>1, <2>7
<1>4. B = Nat
  <2>1. B \in SUBSET Nat
    OBVIOUS
  <2> HIDE DEF B
  <2> QED
    BY <1>2, <1>3, <2>1, Induction
<1>5. Cardinality(D) \in B
  BY <1>4, FS_CardinalityType
<1>6. Small(D, Cardinality(D)) = SUBSET D
  BY <1>1 DEF Small
<1>7. \E f : FoldOver(Small(D, Cardinality(D)), p, base, kind, seq, of, f)
  BY <1>5
<1> QED
  BY <1>6, <1>7

LEMMA MaxFacts ==
    ASSUME NEW n \in Nat, NEW s \in SUBSET (1 .. n), s # {}
    PROVE  Max(s) \in s /\ \A y \in s : y <= Max(s)
<1> DEFINE T == {n - x : x \in s}
<1>1. T \in SUBSET Nat /\ T # {}
  <2>1. \A x \in s : n - x \in Nat
    OBVIOUS
  <2>2. PICK x \in s : TRUE
    OBVIOUS
  <2>3. n - x \in T
    OBVIOUS
  <2> QED
    BY <2>1, <2>3
<1>2. PICK d \in T : \A m \in T : d <= m
  <2> HIDE DEF T
  <2> QED
    BY <1>1, LeastNumber
<1>3. PICK x \in s : d = n - x
  BY <1>2
<1>4. ASSUME NEW y \in s PROVE x >= y
  <2>1. n - y \in T
    OBVIOUS
  <2>2. n - x <= n - y
    BY <1>2, <1>3, <2>1
  <2> QED
    BY <2>2
<1>5. Max(s) \in s /\ \A y \in s : Max(s) >= y
  BY <1>4 DEF Max
<1> QED
  BY <1>5

LEMMA MinFacts ==
    ASSUME NEW s \in SUBSET Nat, s # {}
    PROVE  Min(s) \in s /\ \A y \in s : Min(s) <= y
  BY LeastNumber DEF Min

LastOf(D) == [s \in SUBSET D |-> Max(s)]

LEMMA LeftExists ==
    ASSUME NEW n \in Nat, NEW base, NEW kind, NEW seq, NEW of
    PROVE  \E f : FoldOver(SUBSET (1 .. n), LastOf(1 .. n), base, kind, seq, of, f)
<1>1. IsFiniteSet(1 .. n)
  BY FS_Interval
<1>2. \A s \in SUBSET (1 .. n) : s # {} => LastOf(1 .. n)[s] \in s
  BY MaxFacts DEF LastOf
<1> QED
  BY <1>1, <1>2, FoldExists

\* The states a fold from the left passes, item after item.
Passes(n, base, kind, seq, of, end) ==
    \E g : /\ g[0] = base /\ g[n] = end
           /\ \A i \in 1 .. n : g[i] = FoldStep(kind, seq, of, g[i - 1], i)

LEMMA PassesAll ==
    ASSUME NEW n \in Nat, NEW base, NEW kind, NEW seq, NEW of, NEW f,
           FoldOver(SUBSET (1 .. n), LastOf(1 .. n), base, kind, seq, of, f)
    PROVE  Passes(n, base, kind, seq, of, f[1 .. n])
<1>1. f = [s \in SUBSET (1 .. n) |->
             IF s = {} THEN base
             ELSE FoldStep(kind, seq, of, f[s \ {LastOf(1 .. n)[s]}], LastOf(1 .. n)[s])]
  BY DEF FoldOver
<1>2. f[1 .. 0] = base
  <2>1. 1 .. 0 = {} /\ {} \in SUBSET (1 .. n)
    OBVIOUS
  <2>2. f[{}] = base
    BY <1>1, <2>1
  <2> QED
    BY <2>1, <2>2
<1>3. ASSUME NEW i \in 1 .. n
      PROVE  f[1 .. i] = FoldStep(kind, seq, of, f[1 .. (i - 1)], i)
  <2>1. 1 .. i \in SUBSET (1 .. n) /\ 1 .. i # {}
    OBVIOUS
  <2>2. Max(1 .. i) = i
    <3>1. i \in Nat /\ 1 .. i \in SUBSET (1 .. i) /\ i \in 1 .. i
      OBVIOUS
    <3>2. Max(1 .. i) \in 1 .. i /\ \A y \in 1 .. i : y <= Max(1 .. i)
      BY <2>1, <3>1, MaxFacts
    <3> QED
      BY <3>1, <3>2
  <2>3. LastOf(1 .. n)[1 .. i] = i
    BY <2>1, <2>2 DEF LastOf
  <2>4. (1 .. i) \ {i} = 1 .. (i - 1)
    OBVIOUS
  <2>5. f[1 .. i] = FoldStep(kind, seq, of, f[(1 .. i) \ {LastOf(1 .. n)[1 .. i]}], LastOf(1 .. n)[1 .. i])
    BY <1>1, <2>1
  <2> QED
    BY <2>3, <2>4, <2>5
<1> DEFINE g == [i \in 0 .. n |-> f[1 .. i]]
<1>4. g[0] = base /\ g[n] = f[1 .. n]
  BY <1>2
<1>5. \A i \in 1 .. n : g[i] = FoldStep(kind, seq, of, g[i - 1], i)
  BY <1>3
<1> HIDE DEF g
<1> QED
  BY <1>4, <1>5 DEF Passes

\* The folds over the pairs of a record.
RowsOf(base, seq) == FoldLeft(AddRow, base, seq)
EntriesOf(base, col, seq) == FoldLeft(LAMBDA t, pair : AddEntry(t, col, pair), base, seq)
RhsOf(base, seq) == FoldLeft(LAMBDA t, pair : SetRhs(t, pair[1], Value(pair[2])), base, seq)
RangesOf(base, seq) == FoldLeft(LAMBDA t, pair : SetRange(t, pair[1], Value(pair[2])), base, seq)

LEMMA RowsPass ==
    ASSUME NEW n \in Nat, NEW seq, DOMAIN seq = 1 .. n, NEW base
    PROVE  Passes(n, base, "row", seq, 0, RowsOf(base, seq))
<1> DEFINE D == 1 .. n
<1>1. \E f : FoldOver(SUBSET D, LastOf(D), base, "row", seq, 0, f)
  BY LeftExists
<1>2. \A f : FoldOver(SUBSET D, LastOf(D), base, "row", seq, 0, f)
           <=> f = [s \in SUBSET D |-> IF s = {} THEN base ELSE AddRow(f[s \ {Max(s)}], seq[Max(s)])]
  BY DEF FoldOver, FoldStep, LastOf
<1>3. \E f : /\ f = [s \in SUBSET D |-> IF s = {} THEN base ELSE AddRow(f[s \ {Max(s)}], seq[Max(s)])]
             /\ RowsOf(base, seq) = f[D]
  <2> HIDE DEF D
  <2>1. DOMAIN seq = D
    BY DEF D
  <2>2. \E f : f = [s \in SUBSET D |-> IF s = {} THEN base ELSE AddRow(f[s \ {Max(s)}], seq[Max(s)])]
    BY <1>1, <1>2
  <2> QED
    BY <2>1, <2>2 DEF RowsOf, FoldLeft, MapThenFoldSet
<1>4. PICK f : FoldOver(SUBSET D, LastOf(D), base, "row", seq, 0, f) /\ RowsOf(base, seq) = f[D]
  BY <1>2, <1>3
<1>5. Passes(n, base, "row", seq, 0, f[1 .. n])
  BY <1>4, PassesAll
<1> QED
  BY <1>4, <1>5

LEMMA FieldsPass ==
    ASSUME NEW n \in Nat, NEW seq, DOMAIN seq = 1 .. n
    PROVE  Passes(n, <<>>, "field", seq, 0, Nonblank(seq))
<1> DEFINE D == 1 .. n
<1>1. \E f : FoldOver(SUBSET D, LastOf(D), <<>>, "field", seq, 0, f)
  BY LeftExists
<1>2. \A f : FoldOver(SUBSET D, LastOf(D), <<>>, "field", seq, 0, f)
           <=> f = [s \in SUBSET D |-> IF s = {} THEN <<>> ELSE IF seq[Max(s)] = None THEN f[s \ {Max(s)}] ELSE Append(f[s \ {Max(s)}], seq[Max(s)])]
  <2>1. \A r, i : FoldStep("field", seq, 0, r, i) = IF seq[i] = None THEN r ELSE Append(r, seq[i])
    BY DEF FoldStep
  <2>2. \A s \in SUBSET D : s # {} => LastOf(D)[s] = Max(s)
    BY DEF LastOf
  <2>3. ASSUME NEW f
        PROVE  [s \in SUBSET D |-> IF s = {} THEN <<>>
                                   ELSE FoldStep("field", seq, 0, f[s \ {LastOf(D)[s]}], LastOf(D)[s])]
               = [s \in SUBSET D |-> IF s = {} THEN <<>>
                                     ELSE IF seq[Max(s)] = None THEN f[s \ {Max(s)}]
                                     ELSE Append(f[s \ {Max(s)}], seq[Max(s)])]
    <3> HIDE DEF D
    <3> QED
      BY ONLY <2>1, <2>2
  <2> QED
    BY <2>3 DEF FoldOver
<1>3. \E f : /\ f = [s \in SUBSET D |-> IF s = {} THEN <<>> ELSE IF seq[Max(s)] = None THEN f[s \ {Max(s)}] ELSE Append(f[s \ {Max(s)}], seq[Max(s)])]
             /\ Nonblank(seq) = f[D]
  <2> HIDE DEF D
  <2>1. DOMAIN seq = D
    BY DEF D
  <2>2. \E f : f = [s \in SUBSET D |-> IF s = {} THEN <<>> ELSE IF seq[Max(s)] = None THEN f[s \ {Max(s)}] ELSE Append(f[s \ {Max(s)}], seq[Max(s)])]
    BY <1>1, <1>2
  <2> QED
    BY <2>1, <2>2 DEF Nonblank, FoldLeft, MapThenFoldSet
<1>4. PICK f : /\ FoldOver(SUBSET D, LastOf(D), <<>>, "field", seq, 0, f)
               /\ Nonblank(seq) = f[D]
  BY <1>2, <1>3
<1>5. Passes(n, <<>>, "field", seq, 0, f[1 .. n])
  BY <1>4, PassesAll
<1> QED
  BY <1>4, <1>5

LEMMA EntriesPass ==
    ASSUME NEW n \in Nat, NEW seq, DOMAIN seq = 1 .. n, NEW base, NEW col
    PROVE  Passes(n, base, "entry", seq, col, EntriesOf(base, col, seq))
<1> DEFINE D == 1 .. n
<1>1. \E f : FoldOver(SUBSET D, LastOf(D), base, "entry", seq, col, f)
  BY LeftExists
<1>2. \A f : FoldOver(SUBSET D, LastOf(D), base, "entry", seq, col, f)
           <=> f = [s \in SUBSET D |-> IF s = {} THEN base ELSE AddEntry(f[s \ {Max(s)}], col, seq[Max(s)])]
  BY DEF FoldOver, FoldStep, LastOf
<1>3. \E f : /\ f = [s \in SUBSET D |-> IF s = {} THEN base ELSE AddEntry(f[s \ {Max(s)}], col, seq[Max(s)])]
             /\ EntriesOf(base, col, seq) = f[D]
  <2> HIDE DEF D
  <2>1. DOMAIN seq = D
    BY DEF D
  <2>2. \E f : f = [s \in SUBSET D |-> IF s = {} THEN base ELSE AddEntry(f[s \ {Max(s)}], col, seq[Max(s)])]
    BY <1>1, <1>2
  <2> QED
    BY <2>1, <2>2 DEF EntriesOf, FoldLeft, MapThenFoldSet
<1>4. PICK f : /\ FoldOver(SUBSET D, LastOf(D), base, "entry", seq, col, f)
               /\ EntriesOf(base, col, seq) = f[D]
  BY <1>2, <1>3
<1>5. Passes(n, base, "entry", seq, col, f[1 .. n])
  BY <1>4, PassesAll
<1> QED
  BY <1>4, <1>5

LEMMA RhsPasses ==
    ASSUME NEW n \in Nat, NEW seq, DOMAIN seq = 1 .. n, NEW base
    PROVE  Passes(n, base, "rhs", seq, 0, RhsOf(base, seq))
<1> DEFINE D == 1 .. n
<1>1. \E f : FoldOver(SUBSET D, LastOf(D), base, "rhs", seq, 0, f)
  BY LeftExists
<1>2. \A f : FoldOver(SUBSET D, LastOf(D), base, "rhs", seq, 0, f)
           <=> f = [s \in SUBSET D |-> IF s = {} THEN base ELSE SetRhs(f[s \ {Max(s)}], seq[Max(s)][1], Value(seq[Max(s)][2]))]
  BY DEF FoldOver, FoldStep, LastOf
<1>3. \E f : /\ f = [s \in SUBSET D |-> IF s = {} THEN base ELSE SetRhs(f[s \ {Max(s)}], seq[Max(s)][1], Value(seq[Max(s)][2]))]
             /\ RhsOf(base, seq) = f[D]
  <2> HIDE DEF D
  <2>1. DOMAIN seq = D
    BY DEF D
  <2>2. \E f : f = [s \in SUBSET D |-> IF s = {} THEN base ELSE SetRhs(f[s \ {Max(s)}], seq[Max(s)][1], Value(seq[Max(s)][2]))]
    BY <1>1, <1>2
  <2> QED
    BY <2>1, <2>2 DEF RhsOf, FoldLeft, MapThenFoldSet
<1>4. PICK f : /\ FoldOver(SUBSET D, LastOf(D), base, "rhs", seq, 0, f)
               /\ RhsOf(base, seq) = f[D]
  BY <1>2, <1>3
<1>5. Passes(n, base, "rhs", seq, 0, f[1 .. n])
  BY <1>4, PassesAll
<1> QED
  BY <1>4, <1>5

LEMMA RangesPass ==
    ASSUME NEW n \in Nat, NEW seq, DOMAIN seq = 1 .. n, NEW base
    PROVE  Passes(n, base, "range", seq, 0, RangesOf(base, seq))
<1> DEFINE D == 1 .. n
<1>1. \E f : FoldOver(SUBSET D, LastOf(D), base, "range", seq, 0, f)
  BY LeftExists
<1>2. \A f : FoldOver(SUBSET D, LastOf(D), base, "range", seq, 0, f)
           <=> f = [s \in SUBSET D |-> IF s = {} THEN base ELSE SetRange(f[s \ {Max(s)}], seq[Max(s)][1], Value(seq[Max(s)][2]))]
  BY DEF FoldOver, FoldStep, LastOf
<1>3. \E f : /\ f = [s \in SUBSET D |-> IF s = {} THEN base ELSE SetRange(f[s \ {Max(s)}], seq[Max(s)][1], Value(seq[Max(s)][2]))]
             /\ RangesOf(base, seq) = f[D]
  <2> HIDE DEF D
  <2>1. DOMAIN seq = D
    BY DEF D
  <2>2. \E f : f = [s \in SUBSET D |-> IF s = {} THEN base ELSE SetRange(f[s \ {Max(s)}], seq[Max(s)][1], Value(seq[Max(s)][2]))]
    BY <1>1, <1>2
  <2> QED
    BY <2>1, <2>2 DEF RangesOf, FoldLeft, MapThenFoldSet
<1>4. PICK f : /\ FoldOver(SUBSET D, LastOf(D), base, "range", seq, 0, f)
               /\ RangesOf(base, seq) = f[D]
  BY <1>2, <1>3
<1>5. Passes(n, base, "range", seq, 0, f[1 .. n])
  BY <1>4, PassesAll
<1> QED
  BY <1>4, <1>5

------------------------------------------------------------------------------
(* ------------------------------------------- what the parser state keeps *)
Fields == {"buffered", "rows", "cols", "coo", "types", "obj", "var", "con", "objRow", "current",
           "constant", "maximize", "errorFlag"}

\* A map from names to indices: no name has two, and they are in range.
Table(map) == Len(map) <= Limit /\ \A i, j \in DOMAIN map : map[i] = map[j] => i = j

\* Every coordinate has a row and a column, every column a cost.
Parsed(t) ==
    /\ DOMAIN t = Fields
    /\ t.buffered \in Seq([type : STRING, name : STRING])
    /\ t.rows \in Seq(STRING) /\ t.cols \in Seq(STRING)
    /\ t.coo \in Seq([row : STRING, col : STRING, value : Int])
    /\ \A k \in DOMAIN t.coo : t.coo[k].row \in ToSet(t.rows) /\ t.coo[k].col \in ToSet(t.cols)
    /\ t.obj \in [ToSet(t.cols) -> Int]
    /\ t.current # None => t.current \in STRING
    /\ t.constant \in Int /\ t.maximize \in BOOLEAN
    /\ t.errorFlag \in BOOLEAN
    /\ Table(t.rows) /\ Table(t.cols) /\ Len(t.coo) <= Limit

LEMMA AppendFacts ==
    ASSUME NEW S, NEW s \in Seq(S), NEW e \in S
    PROVE  /\ Append(s, e) \in Seq(S) /\ DOMAIN Append(s, e) = DOMAIN s \union {Len(s) + 1}
           /\ Append(s, e)[Len(s) + 1] = e /\ \A i \in DOMAIN s : Append(s, e)[i] = s[i]
           /\ ToSet(Append(s, e)) = ToSet(s) \union {e}
<1>1. Append(s, e) \in Seq(S) /\ DOMAIN Append(s, e) = DOMAIN s \union {Len(s) + 1}
  OBVIOUS
<1>2. Append(s, e)[Len(s) + 1] = e /\ \A i \in DOMAIN s : Append(s, e)[i] = s[i]
  OBVIOUS
<1>3. ToSet(Append(s, e)) = ToSet(s) \union {e}
  BY <1>1, <1>2 DEF ToSet
<1> QED
  BY <1>1, <1>2, <1>3

LEMMA PutFacts ==
    ASSUME NEW S, NEW map \in Seq(S), NEW name \in S
    PROVE  Put(map, name) \in Seq(S) /\ ToSet(Put(map, name)) = ToSet(map) \union {name}
<1>1. CASE Known(map, name)
  BY <1>1 DEF Put, Known
<1>2. CASE ~Known(map, name)
  <2>1. Put(map, name) = Append(map, name)
    BY <1>2 DEF Put
  <2>2. Append(map, name) \in Seq(S) /\ ToSet(Append(map, name)) = ToSet(map) \union {name}
    BY AppendFacts
  <2> QED
    BY <2>1, <2>2
<1> QED
  BY <1>1, <1>2

\* namemap_put gives a new name the next index, if there is one left.
LEMMA PutTable ==
    ASSUME NEW S, NEW map \in Seq(S), NEW name \in S, Table(map), ~CannotPut(map, name)
    PROVE  Table(Put(map, name))
<1>1. CASE Known(map, name)
  BY <1>1 DEF Put
<1>2. CASE ~Known(map, name)
  <2>1. PICK a : a = Append(map, name)
    OBVIOUS
  <2>2. PICK n \in Nat : n = Len(map) /\ DOMAIN map = 1 .. n
    OBVIOUS
  <2>3. DOMAIN a = 1 .. n + 1 /\ Len(a) = n + 1 /\ a[n + 1] = name /\ \A i \in 1 .. n : a[i] = map[i]
    BY <2>1, <2>2
  <2>4. n + 1 <= Limit
    BY <1>2, <2>2, MpsAssumption DEF CannotPut
  <2>5. \A i \in 1 .. n : a[i] # name
    BY <1>2, <2>2, <2>3 DEF Known, ToSet
  <2>6. \A i, j \in 1 .. n : a[i] = a[j] => i = j
    BY <2>2, <2>3 DEF Table
  <2>7. \A i \in 1 .. n + 1 : i \in 1 .. n \/ i = n + 1
    BY <2>2
  <2>8. \A i, j \in DOMAIN a : a[i] = a[j] => i = j
    BY <2>3, <2>5, <2>6, <2>7
  <2>9. Put(map, name) = a
    BY <1>2, <2>1 DEF Put
  <2> QED
    BY <2>3, <2>4, <2>8, <2>9 DEF Table
<1> QED
  BY <1>1, <1>2

LEMMA ValueIsInt == \A t : Value(t) \in Int
BY MpsAssumption DEF Value, Numeric

LEMMA AddRowKeeps ==
    ASSUME NEW t, Parsed(t), NEW row \in [type : STRING, name : STRING]
    PROVE  Parsed(AddRow(t, row)) /\ AddRow(t, row).cols = t.cols
<1>1. CASE AddRow(t, row) = t
  BY <1>1
<1>2. CASE AddRow(t, row) = [t EXCEPT !.errorFlag = TRUE]
  BY <1>2 DEF Parsed, Fields
<1>3. CASE /\ ~CannotPut(t.rows, row.name)
           /\ AddRow(t, row) =
                [t EXCEPT !.rows = Put(@, row.name), !.types = Extended(@, row.name, row.type)]
  <2> DEFINE types == Extended(t.types, row.name, row.type)
             r == [t EXCEPT !.rows = Put(t.rows, row.name), !.types = types]
  <2>1. Put(t.rows, row.name) \in Seq(STRING) /\ ToSet(t.rows) \subseteq ToSet(Put(t.rows, row.name))
    BY PutFacts DEF Parsed
  <2>4. Table(Put(t.rows, row.name))
    <3>1. t.rows \in Seq(STRING) /\ row.name \in STRING /\ Table(t.rows)
      BY DEF Parsed
    <3> QED
      BY <1>3, <3>1, PutTable
  <2>2. AddRow(t, row) = r
    BY <1>3
  <2> HIDE DEF types
  <2>3. /\ DOMAIN r = Fields /\ r.rows = Put(t.rows, row.name)
        /\ r.buffered = t.buffered /\ r.cols = t.cols /\ r.coo = t.coo /\ r.obj = t.obj
        /\ r.current = t.current /\ r.constant = t.constant /\ r.maximize = t.maximize
        /\ r.errorFlag = t.errorFlag
    BY DEF Parsed, Fields
  <2> HIDE DEF r
  <2> QED
    BY <2>1, <2>2, <2>3, <2>4 DEF Parsed
<1> QED
  BY <1>1, <1>2, <1>3 DEF AddRow

LEMMA AddEntryKeeps ==
    ASSUME NEW t, Parsed(t), NEW col \in ToSet(t.cols), NEW pair \in STRING \X STRING
    PROVE  Parsed(AddEntry(t, col, pair)) /\ AddEntry(t, col, pair).cols = t.cols
<1>1. CASE AddEntry(t, col, pair) = t
  BY <1>1
<1>2. CASE AddEntry(t, col, pair) = [t EXCEPT !.errorFlag = TRUE]
  BY <1>2 DEF Parsed, Fields
<1>3. CASE AddEntry(t, col, pair) = [t EXCEPT !.obj[col] = @ + Value(pair[2])]
  <2> DEFINE obj == [t.obj EXCEPT ![col] = t.obj[col] + Value(pair[2])]
             r == [t EXCEPT !.obj = obj]
  <2>1. obj \in [ToSet(t.cols) -> Int]
    BY ValueIsInt DEF Parsed
  <2>2. AddEntry(t, col, pair) = r
    BY <1>3
  <2> HIDE DEF obj
  <2>3. /\ DOMAIN r = Fields /\ r.rows = t.rows
        /\ r.buffered = t.buffered /\ r.cols = t.cols /\ r.coo = t.coo /\ r.obj = obj
        /\ r.current = t.current /\ r.constant = t.constant /\ r.maximize = t.maximize
        /\ r.errorFlag = t.errorFlag
    BY DEF Parsed, Fields
  <2> HIDE DEF r
  <2> QED
    BY <2>1, <2>2, <2>3 DEF Parsed
<1>4. CASE /\ Known(t.rows, pair[1]) /\ ~(Len(t.coo) >= Limit)
           /\ AddEntry(t, col, pair) =
                [t EXCEPT !.coo = Append(@, [row |-> pair[1], col |-> col, value |-> Value(pair[2])])]
  <2> DEFINE e == [row |-> pair[1], col |-> col, value |-> Value(pair[2])]
             coo == Append(t.coo, e)
             r == [t EXCEPT !.coo = coo]
  <2>1. e \in [row : STRING, col : STRING, value : Int] /\ e.row \in ToSet(t.rows) /\ e.col \in ToSet(t.cols)
    BY <1>4, ValueIsInt DEF Parsed, Known, ToSet
  <2>2. /\ coo \in Seq([row : STRING, col : STRING, value : Int])
        /\ \A k \in DOMAIN coo : coo[k].row \in ToSet(t.rows) /\ coo[k].col \in ToSet(t.cols)
        /\ Len(coo) <= Limit
    <3> DEFINE Triple == [row : STRING, col : STRING, value : Int]
    <3>1. t.coo \in Seq(Triple) /\ e \in Triple
      BY <2>1 DEF Parsed
    <3> HIDE DEF Triple, e
    <3>2. /\ coo \in Seq(Triple) /\ DOMAIN coo = DOMAIN t.coo \union {Len(t.coo) + 1}
          /\ coo[Len(t.coo) + 1] = e /\ \A k \in DOMAIN t.coo : coo[k] = t.coo[k]
      BY <3>1, AppendFacts
    <3> HIDE DEF coo
    <3>3. \A k \in DOMAIN coo : coo[k].row \in ToSet(t.rows) /\ coo[k].col \in ToSet(t.cols)
      BY <2>1, <3>2 DEF Parsed
    <3>4. Len(coo) <= Limit
      <4>1. Len(t.coo) \in Nat /\ Len(coo) = Len(t.coo) + 1
        BY <3>1 DEF coo
      <4> QED
        BY <1>4, <4>1, MpsAssumption
    <3> QED
      BY <3>2, <3>3, <3>4 DEF Triple
  <2>3. AddEntry(t, col, pair) = r
    BY <1>4
  <2> HIDE DEF coo
  <2>4. /\ DOMAIN r = Fields /\ r.rows = t.rows
        /\ r.buffered = t.buffered /\ r.cols = t.cols /\ r.coo = coo /\ r.obj = t.obj
        /\ r.current = t.current /\ r.constant = t.constant /\ r.maximize = t.maximize
        /\ r.errorFlag = t.errorFlag
    BY DEF Parsed, Fields
  <2> HIDE DEF r
  <2> QED
    BY <2>2, <2>3, <2>4 DEF Parsed
<1> QED
  BY <1>1, <1>2, <1>3, <1>4 DEF AddEntry

LEMMA NonblankIsSeq ==
    ASSUME NEW S, NEW fields \in Seq(S)
    PROVE  Nonblank(fields) \in Seq(S)
<1>1. PICK n \in Nat : n = Len(fields) /\ DOMAIN fields = 1 .. n
  OBVIOUS
<1>2. Passes(n, <<>>, "field", fields, 0, Nonblank(fields))
  BY <1>1, FieldsPass
<1>3. PICK g : /\ g[0] = <<>> /\ g[n] = Nonblank(fields)
               /\ \A i \in 1 .. n : g[i] = FoldStep("field", fields, 0, g[i - 1], i)
  BY <1>2 DEF Passes
<1> DEFINE B == {i \in Nat : i <= n => g[i] \in Seq(S)}
<1>4. 0 \in B
  <2>1. g[0] \in Seq(S)
    BY <1>3
  <2> QED
    BY <2>1
<1>5. ASSUME NEW i \in B PROVE i + 1 \in B
  <2> SUFFICES ASSUME i + 1 <= n PROVE g[i + 1] \in Seq(S)
    OBVIOUS
  <2>1. i \in Nat /\ i + 1 \in 1 .. n /\ (i + 1) - 1 = i /\ g[i] \in Seq(S)
    OBVIOUS
  <2>2. g[i + 1] = FoldStep("field", fields, 0, g[i], i + 1)
    BY <1>3, <2>1
  <2>3. g[i + 1] = (IF fields[i + 1] = None THEN g[i] ELSE Append(g[i], fields[i + 1]))
    BY <2>2 DEF FoldStep
  <2>4. fields[i + 1] \in S
    BY <1>1, <2>1
  <2> HIDE DEF B
  <2> QED
    BY <2>1, <2>3, <2>4, AppendFacts
<1>6. B = Nat
  <2>1. B \in SUBSET Nat
    OBVIOUS
  <2> HIDE DEF B
  <2> QED
    BY <1>4, <1>5, <2>1, Induction
<1>7. n \in B
  BY <1>6
<1> QED
  BY <1>3, <1>7

\* The parser state stays sound from item to item of a fold; a record's
\* column has been added, unless that failed.
Sound(kind, of, t) == Parsed(t) /\ (kind = "entry" => t.errorFlag \/ of \in ToSet(t.cols))

LEMMA PassesKeep ==
    ASSUME NEW n \in Nat, NEW base, NEW kind, NEW seq, NEW of, NEW end,
           Passes(n, base, kind, seq, of, end), Sound(kind, of, base),
           \A t : \A i \in 1 .. n : Sound(kind, of, t) => Sound(kind, of, FoldStep(kind, seq, of, t, i))
    PROVE  Parsed(end)
<1>1. PICK g : /\ g[0] = base /\ g[n] = end
               /\ \A i \in 1 .. n : g[i] = FoldStep(kind, seq, of, g[i - 1], i)
  BY DEF Passes
<1> DEFINE B == {i \in Nat : i <= n => Sound(kind, of, g[i])}
<1>2. 0 \in B
  BY <1>1
<1>3. ASSUME NEW i \in B PROVE i + 1 \in B
  <2> SUFFICES ASSUME i + 1 <= n PROVE Sound(kind, of, g[i + 1])
    OBVIOUS
  <2>1. i \in Nat /\ i + 1 \in 1 .. n /\ (i + 1) - 1 = i /\ Sound(kind, of, g[i])
    OBVIOUS
  <2>2. g[i + 1] = FoldStep(kind, seq, of, g[i], i + 1)
    BY <1>1, <2>1
  <2> HIDE DEF B
  <2> QED
    BY <2>1, <2>2
<1>4. B = Nat
  <2>1. B \in SUBSET Nat
    OBVIOUS
  <2> HIDE DEF B
  <2> QED
    BY <1>2, <1>3, <2>1, Induction
<1>5. Sound(kind, of, g[n])
  BY <1>4
<1> QED
  BY <1>1, <1>5 DEF Sound

Buffered == [type : STRING, name : STRING]

LEMMA RowsKeep ==
    ASSUME NEW base, Parsed(base), NEW seq \in Seq(Buffered)
    PROVE  Parsed(RowsOf(base, seq))
<1>1. PICK n \in Nat : n = Len(seq) /\ DOMAIN seq = 1 .. n
  OBVIOUS
<1>2. Passes(n, base, "row", seq, 0, RowsOf(base, seq))
  BY <1>1, RowsPass
<1>3. ASSUME NEW t, NEW i \in 1 .. n, Sound("row", 0, t)
      PROVE  Sound("row", 0, FoldStep("row", seq, 0, t, i))
  <2>1. seq[i] \in Buffered
    BY <1>1
  <2>2. Parsed(AddRow(t, seq[i]))
    BY <1>3, <2>1, AddRowKeeps DEF Buffered, Sound
  <2>3. FoldStep("row", seq, 0, t, i) = AddRow(t, seq[i])
    BY DEF FoldStep
  <2> QED
    BY <2>2, <2>3 DEF Sound
<1>4. Sound("row", 0, base)
  BY DEF Sound
<1> QED
  BY <1>2, <1>3, <1>4, PassesKeep

LEMMA EntriesKeep ==
    ASSUME NEW base, Parsed(base), NEW col, base.errorFlag \/ col \in ToSet(base.cols),
           NEW seq \in Seq(STRING \X STRING)
    PROVE  Parsed(EntriesOf(base, col, seq))
<1>1. PICK n \in Nat : n = Len(seq) /\ DOMAIN seq = 1 .. n
  OBVIOUS
<1>2. Passes(n, base, "entry", seq, col, EntriesOf(base, col, seq))
  BY <1>1, EntriesPass
<1>3. ASSUME NEW t, NEW i \in 1 .. n, Sound("entry", col, t)
      PROVE  Sound("entry", col, FoldStep("entry", seq, col, t, i))
  <2>1. seq[i] \in STRING \X STRING
    BY <1>1
  <2>2. FoldStep("entry", seq, col, t, i) = AddEntry(t, col, seq[i])
    BY DEF FoldStep
  <2>3. Parsed(t) /\ (t.errorFlag \/ col \in ToSet(t.cols))
    BY <1>3 DEF Sound
  <2>4. CASE t.errorFlag
    <3>1. AddEntry(t, col, seq[i]) = t
      BY <2>4 DEF AddEntry
    <3> QED
      BY <1>3, <2>2, <3>1
  <2>5. CASE col \in ToSet(t.cols)
    <3>1. Parsed(AddEntry(t, col, seq[i])) /\ AddEntry(t, col, seq[i]).cols = t.cols
      BY <2>1, <2>3, <2>5, AddEntryKeeps
    <3> QED
      BY <2>2, <2>5, <3>1 DEF Sound
  <2> QED
    BY <2>3, <2>4, <2>5
<1>4. Sound("entry", col, base)
  BY DEF Sound
<1> QED
  BY <1>2, <1>3, <1>4, PassesKeep

\* A side or a range changes an interval of the parser's, or the constant.
LEMMA IntervalKeeps ==
    ASSUME NEW t, Parsed(t), NEW v, NEW r,
           \/ r = [t EXCEPT !.con = v] \/ r = [t EXCEPT !.var = v]
           \/ v \in Int /\ r = [t EXCEPT !.constant = v]
    PROVE  Parsed(r)
<1>1. CASE r = [t EXCEPT !.con = v]
  BY <1>1 DEF Parsed, Fields
<1>2. CASE r = [t EXCEPT !.var = v]
  BY <1>2 DEF Parsed, Fields
<1>3. CASE v \in Int /\ r = [t EXCEPT !.constant = v]
  BY <1>3 DEF Parsed, Fields
<1> QED
  BY <1>1, <1>2, <1>3

LEMMA SetRhsKeeps ==
    ASSUME NEW t, Parsed(t), NEW row, NEW k \in Int
    PROVE  Parsed(SetRhs(t, row, k))
<1>1. CASE row = t.objRow
  <2>1. -k \in Int /\ SetRhs(t, row, k) = [t EXCEPT !.constant = -k]
    BY <1>1 DEF SetRhs
  <2> QED
    BY <2>1, IntervalKeeps
<1>2. CASE row # t.objRow /\ ~Known(t.rows, row)
  BY <1>2 DEF SetRhs
<1>3. CASE row # t.objRow /\ Known(t.rows, row)
  <2>1. PICK v : SetRhs(t, row, k) = [t EXCEPT !.con = v]
    BY <1>3 DEF SetRhs
  <2> QED
    BY <2>1, IntervalKeeps
<1> QED
  BY <1>1, <1>2, <1>3

LEMMA SetRangeKeeps ==
    ASSUME NEW t, Parsed(t), NEW row, NEW k
    PROVE  Parsed(SetRange(t, row, k))
<1>1. CASE ~Known(t.rows, row)
  BY <1>1 DEF SetRange
<1>2. CASE Known(t.rows, row)
  <2>1. PICK v : SetRange(t, row, k) = [t EXCEPT !.con = v]
    BY <1>2 DEF SetRange
  <2> QED
    BY <2>1, IntervalKeeps
<1> QED
  BY <1>1, <1>2

LEMMA RhsKeep ==
    ASSUME NEW base, Parsed(base), NEW seq, NEW S, seq \in Seq(S)
    PROVE  Parsed(RhsOf(base, seq))
<1>1. PICK n \in Nat : n = Len(seq) /\ DOMAIN seq = 1 .. n
  OBVIOUS
<1>2. Passes(n, base, "rhs", seq, 0, RhsOf(base, seq))
  BY <1>1, RhsPasses
<1>3. ASSUME NEW t, NEW i \in 1 .. n, Sound("rhs", 0, t)
      PROVE  Sound("rhs", 0, FoldStep("rhs", seq, 0, t, i))
  <2>1. Value(seq[i][2]) \in Int
    BY ValueIsInt
  <2>2. Parsed(SetRhs(t, seq[i][1], Value(seq[i][2])))
    BY <1>3, <2>1, SetRhsKeeps DEF Sound
  <2>3. FoldStep("rhs", seq, 0, t, i) = SetRhs(t, seq[i][1], Value(seq[i][2]))
    BY DEF FoldStep
  <2> QED
    BY <2>2, <2>3 DEF Sound
<1>4. Sound("rhs", 0, base)
  BY DEF Sound
<1> QED
  BY <1>2, <1>3, <1>4, PassesKeep

LEMMA RangesKeep ==
    ASSUME NEW base, Parsed(base), NEW seq, NEW S, seq \in Seq(S)
    PROVE  Parsed(RangesOf(base, seq))
<1>1. PICK n \in Nat : n = Len(seq) /\ DOMAIN seq = 1 .. n
  OBVIOUS
<1>2. Passes(n, base, "range", seq, 0, RangesOf(base, seq))
  BY <1>1, RangesPass
<1>3. ASSUME NEW t, NEW i \in 1 .. n, Sound("range", 0, t)
      PROVE  Sound("range", 0, FoldStep("range", seq, 0, t, i))
  <2>1. Parsed(SetRange(t, seq[i][1], Value(seq[i][2])))
    BY <1>3, SetRangeKeeps DEF Sound
  <2>2. FoldStep("range", seq, 0, t, i) = SetRange(t, seq[i][1], Value(seq[i][2]))
    BY DEF FoldStep
  <2> QED
    BY <2>1, <2>2 DEF Sound
<1>4. Sound("range", 0, base)
  BY DEF Sound
<1> QED
  BY <1>2, <1>3, <1>4, PassesKeep

LEMMA SubSeqFacts ==
    ASSUME NEW S, NEW s \in Seq(S), NEW a \in Nat \ {0}, NEW b \in Nat, b <= Len(s)
    PROVE  SubSeq(s, a, b) \in Seq(S)
  OBVIOUS

LEMMA ConcatFacts ==
    ASSUME NEW S, NEW s \in Seq(S), NEW t \in Seq(S)
    PROVE  s \o t \in Seq(S)
  OBVIOUS

LEMMA PairsAreSeq ==
    ASSUME NEW S, NEW tokens \in Seq(S), NEW start \in {0, 1}
    PROVE  Pairs(tokens, start) \in Seq(S \X S)
<1>1. PICK len \in Nat : len = Len(tokens) /\ DOMAIN tokens = 1 .. len
  OBVIOUS
<1>2. PICK q \in Int : q = (len - start) \div 2
  OBVIOUS
<1>3. 2 * q <= len - start
  BY <1>2
<1>4. ASSUME NEW k \in 1 .. q
      PROVE  start + 2 * k - 1 \in 1 .. len /\ start + 2 * k \in 1 .. len
  BY <1>3
<1>5. ASSUME NEW k \in 1 .. q
      PROVE  <<tokens[start + 2 * k - 1], tokens[start + 2 * k]>> \in S \X S
  BY <1>1, <1>4
<1>6. PICK n \in Nat : 1 .. q = 1 .. n
  <2>1. CASE q \in Nat
    BY <2>1
  <2>2. CASE q \notin Nat
    <3>1. 1 .. q = 1 .. 0
      BY <2>2
    <3> QED
      BY <3>1
  <2> QED
    BY <2>1, <2>2
<1>7. Pairs(tokens, start) = [k \in 1 .. n |-> <<tokens[start + 2 * k - 1], tokens[start + 2 * k]>>]
  BY <1>1, <1>2, <1>6 DEF Pairs
<1>8. \A k \in 1 .. n : <<tokens[start + 2 * k - 1], tokens[start + 2 * k]>> \in S \X S
  BY <1>5, <1>6
<1>9. Pairs(tokens, start) \in [1 .. n -> S \X S]
  BY <1>7, <1>8
<1> DEFINE P == S \X S
<1> HIDE DEF P
<1>10. Pairs(tokens, start) \in [1 .. n -> P]
  BY <1>9 DEF P
<1> QED
  <2>1. Pairs(tokens, start) \in Seq(P)
    BY <1>10
  <2> QED
    BY <2>1 DEF P

LEMMA SixFields ==
    ASSUME NEW S, NEW fields \in Seq(S), Len(fields) = 6
    PROVE  /\ fields[1] \in S /\ fields[2] \in S /\ fields[3] \in S
           /\ fields[4] \in S /\ fields[5] \in S /\ fields[6] \in S
  OBVIOUS

\* What the reader makes of the fields in each section.
LEMMA FixedReading ==
    ASSUME NEW t, NEW line
    PROVE  /\ line.fixed = <<>> => TokenizeFixedRecord(t, line) = <<>>
           /\ line.fixed # <<>> =>
                /\ section = "ROWS" => TokenizeFixedRecord(t, line) = FixedRow(line)
                /\ section \in {"COLUMNS", "RHS", "RANGES"} /\ ~Indented(line) =>
                      TokenizeFixedRecord(t, line) = <<>>
                /\ section = "COLUMNS" /\ Indented(line) =>
                      TokenizeFixedRecord(t, line) = FixedColumns(t, line.fixed)
                /\ section \in {"RHS", "RANGES"} /\ Indented(line) =>
                      TokenizeFixedRecord(t, line) = FixedPairs(t, line.fixed)
                /\ section = "BOUNDS" => TokenizeFixedRecord(t, line) = FixedBounds(t, line.fixed)
                /\ section \notin {"ROWS", "COLUMNS", "RHS", "RANGES", "BOUNDS"} =>
                      TokenizeFixedRecord(t, line) = <<>>
<1>1. CASE line.fixed = <<>>
  BY <1>1 DEF TokenizeFixedRecord
<1>2. CASE line.fixed # <<>>
  BY <1>2 DEF TokenizeFixedRecord
<1> QED
  BY <1>1, <1>2

LEMMA FixedTokens ==
    ASSUME NEW S, NEW line, NEW f \in Seq(S), f = line.fixed, Len(f) \in {0, 6}, NEW t
    PROVE  TokenizeFixedRecord(t, line) \in Seq(S)
<1>1. CASE Len(f) = 0
  <2>1. f = <<>>
    BY <1>1, EmptySeq
  <2>2. TokenizeFixedRecord(t, line) = <<>>
    BY <2>1, FixedReading
  <2> QED
    BY <2>2
<1>2. CASE Len(f) = 6
  <2>1. f # <<>> /\ f[1] \in S /\ f[2] \in S /\ f[3] \in S /\ f[4] \in S
    <3>1. f[1] \in S /\ f[2] \in S /\ f[3] \in S /\ f[4] \in S
      BY ONLY f \in Seq(S), <1>2, SixFields
    <3>2. f # <<>>
      <4>1. Len(<<>>) = 0
        OBVIOUS
      <4> QED
        BY ONLY <1>2, <4>1
    <3> QED
      BY <3>1, <3>2
  <2>2. SubSeq(f, 2, 6) \in Seq(S)
    <3>1. 2 \in Nat \ {0} /\ 6 \in Nat /\ 6 <= Len(f)
      BY ONLY <1>2
    <3> QED
      BY ONLY f \in Seq(S), <3>1, SubSeqFacts
  <2>3. Nonblank(SubSeq(f, 2, 6)) \in Seq(S)
    BY <2>2, NonblankIsSeq
  <2>4. Nonblank(<<f[4]>>) \in Seq(S)
    <3>1. <<f[4]>> \in Seq(S)
      BY <2>1
    <3> QED
      BY <3>1, NonblankIsSeq
  <2>5. /\ <<>> \in Seq(S) /\ <<f[1], f[2]>> \in Seq(S) /\ <<f[2], f[3]>> \in Seq(S)
        /\ <<f[1], f[2], f[3]>> \in Seq(S)
    BY <2>1
  <2>6. <<f[1], f[2], f[3]>> \o Nonblank(<<f[4]>>) \in Seq(S)
    BY <2>4, <2>5, ConcatFacts
  <2>7. FixedPairs(t, f) \in {<<>>, Nonblank(SubSeq(f, 2, 6))}
    BY DEF FixedPairs
  <2>8. FixedColumns(t, f) \in {<<>>, <<f[2], f[3]>>, FixedPairs(t, f)}
    BY DEF FixedColumns
  <2>9. FixedRow(line) \in {<<>>, <<f[1], f[2]>>}
    BY DEF FixedRow
  <2>10. FixedBounds(t, f) \in {<<>>, <<f[1], f[2], f[3]>> \o Nonblank(<<f[4]>>)}
    BY DEF FixedBounds
  <2>11. TokenizeFixedRecord(t, line) \in
            {<<>>, FixedRow(line), FixedColumns(t, f), FixedPairs(t, f), FixedBounds(t, f)}
    BY FixedReading
  <2> QED
    BY ONLY <2>3, <2>5, <2>6, <2>7, <2>8, <2>9, <2>10, <2>11
<1> QED
  BY <1>1, <1>2

LEMMA FreeTokensAreSeq ==
    ASSUME NEW S, NEW line, line.free \in Seq(S)
    PROVE  FreeTokens(line) \in Seq(S)
<1>1. PICK free \in Seq(S) : free = line.free
  OBVIOUS
<1>2. PICK s : s = {6, Len(free)}
  OBVIOUS
<1>3. s \in SUBSET Nat /\ s # {} /\ \A k \in s : k = 6 \/ k = Len(free)
  BY <1>2
<1>4. Min(s) \in s /\ \A y \in s : Min(s) <= y
  BY <1>3, MinFacts
<1>5. PICK k \in Nat : k = Min(s) /\ k <= Len(free)
  BY <1>2, <1>3, <1>4
<1>6. SubSeq(free, 1, k) \in Seq(S)
  BY <1>5, SubSeqFacts
<1> QED
  BY <1>1, <1>2, <1>5, <1>6 DEF FreeTokens

LEMMA TokensAreSeq ==
    ASSUME NEW f \in Files, NEW line \in ToSet(f.lines), NEW t
    PROVE  Tokens(t, line) \in Seq(STRING)
<1>1. line.free \in Seq(STRING) /\ line.fixed \in Seq(STRING) /\ Len(line.fixed) \in {0, 6}
  BY MpsAssumption
<1>2. TokenizeFixedRecord(t, line) \in Seq(STRING)
  BY <1>1, FixedTokens
<1>3. FreeTokens(line) \in Seq(STRING)
  BY <1>1, FreeTokensAreSeq
<1> QED
  BY <1>2, <1>3 DEF Tokens

LEMMA SetSenseKeeps ==
    ASSUME NEW t, Parsed(t), NEW token
    PROVE  Parsed(SetSense(t, token))
<1>1. SetSense(t, token) \in {t, [t EXCEPT !.maximize = TRUE], [t EXCEPT !.maximize = FALSE]}
  BY DEF SetSense
<1>2. Parsed([t EXCEPT !.maximize = TRUE])
  BY DEF Parsed, Fields
<1>3. Parsed([t EXCEPT !.maximize = FALSE])
  BY DEF Parsed, Fields
<1> QED
  BY <1>1, <1>2, <1>3

LEMMA ParseRowKeeps ==
    ASSUME NEW t, Parsed(t), NEW tokens \in Seq(STRING)
    PROVE  Parsed(ParseRow(t, tokens))
<1>1. CASE Len(tokens) < 2
  BY <1>1 DEF ParseRow
<1>2. CASE ~(Len(tokens) < 2)
  <2>1. tokens[1] \in STRING /\ tokens[2] \in STRING
    BY <1>2
  <2>2. Initial(tokens[1]) \in STRING
    BY <2>1, MpsAssumption DEF Initial
  <2>7. PICK row : row = [type |-> Initial(tokens[1]), name |-> tokens[2]]
    OBVIOUS
  <2>8. row \in Buffered
    BY <2>1, <2>2, <2>7 DEF Buffered
  <2>3. PICK b : b = Append(t.buffered, row)
    OBVIOUS
  <2>4. b \in Seq(Buffered)
    <3>1. t.buffered \in Seq(Buffered)
      BY DEF Parsed, Buffered
    <3> QED
      BY <2>3, <2>8, <3>1, AppendFacts
  <2>5. ParseRow(t, tokens) = [t EXCEPT !.buffered = b]
    BY <1>2, <2>3, <2>7 DEF ParseRow
  <2>6. Parsed([t EXCEPT !.buffered = b])
    BY <2>4 DEF Parsed, Fields, Buffered
  <2> QED
    BY <2>5, <2>6
<1> QED
  BY <1>1, <1>2

LEMMA AddColumnKeeps ==
    ASSUME NEW t, Parsed(t), NEW col \in STRING
    PROVE  /\ Parsed(AddColumn(t, col))
           /\ AddColumn(t, col).errorFlag \/ col \in ToSet(AddColumn(t, col).cols)
<1>1. CASE Known(t.cols, col)
  BY <1>1 DEF AddColumn, Known
<1>2. CASE ~Known(t.cols, col) /\ CannotPut(t.cols, col)
  <2>1. AddColumn(t, col) = [t EXCEPT !.errorFlag = TRUE]
    BY <1>2 DEF AddColumn
  <2> QED
    BY <2>1 DEF Parsed, Fields
<1>3. CASE ~Known(t.cols, col) /\ ~CannotPut(t.cols, col)
  <2>1. PICK cols : cols = Put(t.cols, col)
    OBVIOUS
  <2>2. PICK obj : obj = Extended(t.obj, col, 0)
    OBVIOUS
  <2>3. PICK var : var = Extended(t.var, col, <<0, Inf>>)
    OBVIOUS
  <2>4. PICK r : r = [t EXCEPT !.cols = cols, !.obj = obj, !.var = var]
    OBVIOUS
  <2>5. AddColumn(t, col) = r
    BY <1>3, <2>1, <2>2, <2>3, <2>4 DEF AddColumn
  <2>6. cols \in Seq(STRING) /\ ToSet(cols) = ToSet(t.cols) \union {col}
    <3>1. t.cols \in Seq(STRING)
      BY DEF Parsed
    <3>2. Put(t.cols, col) \in Seq(STRING)
      BY <3>1, PutFacts
    <3>3. ToSet(Put(t.cols, col)) = ToSet(t.cols) \union {col}
      BY <3>1, PutFacts
    <3> QED
      BY <2>1, <3>2, <3>3
  <2>7. obj \in [ToSet(cols) -> Int]
    <3>1. DOMAIN t.obj = ToSet(t.cols) /\ \A c \in ToSet(t.cols) : t.obj[c] \in Int
      BY DEF Parsed
    <3>2. obj = [c \in {col} \union ToSet(t.cols) |-> IF c = col THEN 0 ELSE t.obj[c]]
      BY <2>2, <3>1 DEF Extended
    <3> QED
      BY <2>6, <3>1, <3>2
  <2>8. /\ DOMAIN r = Fields /\ r.rows = t.rows /\ r.buffered = t.buffered
        /\ r.cols = cols /\ r.coo = t.coo /\ r.obj = obj /\ r.current = t.current
        /\ r.constant = t.constant /\ r.maximize = t.maximize /\ r.errorFlag = t.errorFlag
    BY <2>4 DEF Parsed, Fields
  <2>10. Table(cols)
    <3>1. t.cols \in Seq(STRING) /\ Table(t.cols)
      BY DEF Parsed
    <3> QED
      BY <1>3, <2>1, <3>1, PutTable
  <2>9. Parsed(r)
    BY <2>6, <2>7, <2>8, <2>10 DEF Parsed
  <2> QED
    BY <2>5, <2>6, <2>8, <2>9
<1> QED
  BY <1>1, <1>2, <1>3

LEMMA ParseColumnKeeps ==
    ASSUME NEW t, Parsed(t), NEW tokens \in Seq(STRING)
    PROVE  Parsed(ParseColumn(t, tokens))
<1> DEFINE start == Len(tokens) % 2
           named == IF start = 1 THEN [t EXCEPT !.current = tokens[1]] ELSE t
           col == named.current
<1>1. CASE Len(tokens) < 2 \/ tokens[2] = "'MARKER'"
  BY <1>1 DEF ParseColumn
<1>2. CASE ~(Len(tokens) < 2 \/ tokens[2] = "'MARKER'")
  <2>1. start \in {0, 1} /\ tokens[1] \in STRING
    BY <1>2
  <2>2. Parsed(named)
    <3>1. CASE start = 1
      <4>1. named = [t EXCEPT !.current = tokens[1]]
        BY <3>1
      <4> HIDE DEF named, start
      <4> QED
        BY <2>1, <4>1 DEF Parsed, Fields
    <3>2. CASE start # 1
      BY <3>2
    <3> QED
      BY <3>1, <3>2
  <2>3. Pairs(tokens, start) \in Seq(STRING \X STRING)
    BY <2>1, PairsAreSeq
  <2>4. CASE col = None
    <3>1. ParseColumn(t, tokens) = [t EXCEPT !.errorFlag = TRUE]
      BY <1>2, <2>4 DEF ParseColumn
    <3> QED
      BY <3>1 DEF Parsed, Fields
  <2>5. CASE col # None
    <3>1. ParseColumn(t, tokens) = EntriesOf(AddColumn(named, col), col, Pairs(tokens, start))
      BY <1>2, <2>5 DEF ParseColumn, EntriesOf
    <3> HIDE DEF named, start
    <3>2. col \in STRING
      BY <2>2, <2>5 DEF Parsed
    <3> HIDE DEF col
    <3>3. /\ Parsed(AddColumn(named, col))
          /\ AddColumn(named, col).errorFlag \/ col \in ToSet(AddColumn(named, col).cols)
      BY <2>2, <3>2, AddColumnKeeps
    <3> QED
      BY <2>3, <3>1, <3>3, EntriesKeep
  <2> QED
    BY <2>4, <2>5
<1> QED
  BY <1>1, <1>2

LEMMA ParseSidesKeep ==
    ASSUME NEW t, Parsed(t), NEW tokens \in Seq(STRING)
    PROVE  /\ Parsed(ParseRhs(t, tokens)) /\ Parsed(ParseRange(t, tokens))
           /\ Parsed(ParseBound(t, tokens))
<1>1. RowDataStart(t, tokens) \in {0, 1}
  BY DEF RowDataStart
<1>2. PICK seq \in Seq(STRING \X STRING) : seq = Pairs(tokens, RowDataStart(t, tokens))
  BY <1>1, PairsAreSeq
<1>3. ParseRhs(t, tokens) = RhsOf(t, seq) /\ ParseRange(t, tokens) = RangesOf(t, seq)
  BY <1>2 DEF ParseRhs, ParseRange, RhsOf, RangesOf
<1>4. Parsed(RhsOf(t, seq)) /\ Parsed(RangesOf(t, seq))
  BY RhsKeep, RangesKeep
<1>5. Parsed(ParseBound(t, tokens))
  <2>1. \E v : ParseBound(t, tokens) \in {t, [t EXCEPT !.var = v]}
    BY DEF ParseBound
  <2>2. PICK v : ParseBound(t, tokens) \in {t, [t EXCEPT !.var = v]}
    BY <2>1
  <2> QED
    BY <2>2, IntervalKeeps
<1> QED
  BY <1>3, <1>4, <1>5

LEMMA ParseRecordKeeps ==
    ASSUME NEW t, Parsed(t), NEW tokens \in Seq(STRING)
    PROVE  Parsed(ParseRecord(t, tokens))
<1>1. ParseRecord(t, tokens) \in {SetSense(t, tokens[1]), ParseRow(t, tokens), ParseColumn(t, tokens),
                                  ParseRhs(t, tokens), ParseRange(t, tokens),
                                  ParseBound(t, tokens), t}
  BY DEF ParseRecord
<1> QED
  BY <1>1, SetSenseKeeps, ParseRowKeeps, ParseColumnKeeps, ParseSidesKeep

LEMMA FinalizeRowsKeeps ==
    ASSUME NEW t, Parsed(t)
    PROVE  Parsed(FinalizeRows(t))
<1>1. PICK buffered \in Seq(Buffered) : buffered = t.buffered
  BY DEF Parsed, Buffered
<1>2. PICK at : at = ObjectiveIndex(buffered)
  OBVIOUS
<1>3. RemoveAt(buffered, at) \in Seq(Buffered)
  <2>1. CASE buffered = <<>>
    <3>1. at = 0
      BY <1>2, <2>1 DEF ObjectiveIndex
    <3> QED
      BY <2>1, <3>1 DEF RemoveAt
  <2>2. CASE buffered # <<>>
    <3>1. at \in 1 .. Len(buffered)
      <4>1. PICK free : free = {k \in DOMAIN buffered : buffered[k].type = "N"}
        OBVIOUS
      <4>5. free \in SUBSET Nat
        BY <4>1
      <4>2. at = IF free # {} THEN Min(free) ELSE 1
        BY <1>2, <2>2, <4>1 DEF ObjectiveIndex
      <4>3. free # {} => Min(free) \in free
        BY <4>5, MinFacts
      <4>4. Len(buffered) \in Nat \ {0} /\ DOMAIN buffered = 1 .. Len(buffered)
        BY <2>2, EmptySeq
      <4> QED
        BY <4>1, <4>2, <4>3, <4>4
    <3>2. /\ SubSeq(buffered, 1, at - 1) \in Seq(Buffered)
          /\ SubSeq(buffered, at + 1, Len(buffered)) \in Seq(Buffered)
      BY <3>1, SubSeqFacts
    <3> QED
      BY <3>2, ConcatFacts DEF RemoveAt
  <2> QED
    BY <2>1, <2>2
<1>4. PICK named : named = IF at = 0 THEN t ELSE [t EXCEPT !.objRow = buffered[at].name]
  OBVIOUS
<1>5. Parsed(named)
  BY <1>4 DEF Parsed, Fields
<1>6. PICK added : added = RowsOf(named, RemoveAt(buffered, at))
  OBVIOUS
<1>7. Parsed(added)
  BY <1>3, <1>5, <1>6, RowsKeep
<1>8. \E v : FinalizeRows(t) \in {added, [added EXCEPT !.con = v]}
  BY <1>1, <1>2, <1>4, <1>6 DEF FinalizeRows, RowsOf
<1>9. PICK v : FinalizeRows(t) \in {added, [added EXCEPT !.con = v]}
  BY <1>8
<1> QED
  BY <1>7, <1>9, IntervalKeeps

------------------------------------------------------------------------------
(* ------------------------------------------------- along the whole file *)
StateInv == file \in Files /\ pos \in Nat /\ Parsed(state)

LEMMA StateInit == Init => StateInv
<1> SUFFICES ASSUME Init PROVE StateInv
  OBVIOUS
<1>1. file \in Files /\ pos = 0 /\ state = InitialState
  BY DEF Init, MpsInit
<1>2. Parsed(InitialState)
  <2>1. /\ DOMAIN InitialState = Fields
        /\ InitialState.buffered = <<>> /\ InitialState.rows = <<>> /\ InitialState.cols = <<>>
        /\ InitialState.coo = <<>> /\ InitialState.obj = <<>> /\ InitialState.current = None
        /\ InitialState.constant = 0 /\ InitialState.maximize = FALSE
        /\ InitialState.errorFlag = FALSE
    BY DEF InitialState, Fields
  <2>2. ToSet(<<>>) = {} /\ DOMAIN <<>> = {}
    BY DEF ToSet
  <2>3. <<>> \in [{} -> Int]
    <3>1. PICK e \in Seq(Int) : e = <<>> /\ Len(e) = 0
      BY EmptySeq
    <3>2. e \in [1 .. 0 -> Int] /\ 1 .. 0 = {}
      BY <3>1, LenProperties
    <3> QED
      BY <3>1, <3>2
  <2>4. <<>> \in Seq(STRING) /\ <<>> \in Seq([type : STRING, name : STRING])
    OBVIOUS
  <2>5. <<>> \in Seq([row : STRING, col : STRING, value : Int])
    OBVIOUS
  <2>7. InitialState.obj \in [ToSet(InitialState.cols) -> Int]
    BY <2>1, <2>2, <2>3
  <2>8. \A k \in DOMAIN InitialState.coo : FALSE
    BY <2>1, <2>2
  <2>9. InitialState.current = None /\ InitialState.constant \in Int
    BY <2>1
  <2>11. InitialState.maximize \in BOOLEAN /\ InitialState.errorFlag \in BOOLEAN
    BY <2>1, Zenon
  <2>10. /\ InitialState.rows \in Seq(STRING) /\ InitialState.cols \in Seq(STRING)
         /\ InitialState.buffered \in Seq([type : STRING, name : STRING])
         /\ InitialState.coo \in Seq([row : STRING, col : STRING, value : Int])
    BY <2>1, <2>4, <2>5
  <2>12. Table(<<>>) /\ Len(<<>>) <= Limit
    BY MpsAssumption DEF Table
  <2>13. Table(InitialState.rows) /\ Table(InitialState.cols) /\ Len(InitialState.coo) <= Limit
    BY <2>1, <2>12
  <2> QED
    BY <2>1, <2>7, <2>8, <2>9, <2>10, <2>11, <2>13 DEF Parsed
<1> QED
  BY <1>1, <1>2 DEF StateInv

LEMMA LineOfFile ==
    ASSUME StateInv, ~Stops
    PROVE  Line \in ToSet(file.lines)
<1>1. pos + 1 \in 1 .. Len(file.lines)
  <2>1. PICK lines \in Seq(ToSet(file.lines)) : lines = file.lines
    BY MpsAssumption DEF StateInv
  <2>2. Len(lines) \in Nat
    OBVIOUS
  <2> QED
    BY <2>1, <2>2 DEF StateInv, Stops, Delivered
<1>2. DOMAIN file.lines = 1 .. Len(file.lines)
  BY MpsAssumption DEF StateInv
<1> QED
  BY <1>1, <1>2 DEF Line, ToSet

LEMMA ReadsKeep ==
    ASSUME StateInv, NEW t, Parsed(t), Reads(t)
    PROVE  StateInv'
<1>1. file' = file /\ pos' = pos + 1 /\ state' = t
  BY DEF Reads
<1> QED
  BY <1>1 DEF StateInv

LEMMA StateStep ==
    ASSUME StateInv, [Next]_vars
    PROVE  StateInv'
<1> USE DEF StateInv
<1>1. CASE UNCHANGED <<file, pos, state>>
  BY <1>1
<1>2. CASE SkipLine
  BY <1>2, ReadsKeep DEF SkipLine
<1>3. CASE HeaderLine
  <2>1. \E t : /\ Reads(t) /\ Parsed(state)
               /\ t \in {state, FinalizeRows(state), SetSense(state, Line.free[2]),
                         SetSense(FinalizeRows(state), Line.free[2])}
    BY <1>3 DEF HeaderLine
  <2>2. PICK t : /\ Reads(t)
                 /\ t \in {state, FinalizeRows(state), SetSense(state, Line.free[2]),
                           SetSense(FinalizeRows(state), Line.free[2])}
    BY <2>1
  <2>3. Parsed(FinalizeRows(state))
    BY FinalizeRowsKeeps
  <2>4. Parsed(SetSense(state, Line.free[2])) /\ Parsed(SetSense(FinalizeRows(state), Line.free[2]))
    BY <2>3, SetSenseKeeps
  <2> QED
    BY <2>2, <2>3, <2>4, ReadsKeep
<1>4. CASE RecordLine
  <2>1. Reads(ParseRecord(state, Tokens(state, Line))) /\ ~Stops
    BY <1>4 DEF RecordLine
  <2>2. Tokens(state, Line) \in Seq(STRING)
    BY <2>1, LineOfFile, TokensAreSeq
  <2>3. Parsed(ParseRecord(state, Tokens(state, Line)))
    BY <2>2, ParseRecordKeeps
  <2> QED
    BY <2>1, <2>3, ReadsKeep
<1>5. CASE OpenFails \/ Open \/ CloseReader \/ Reject \/ Build \/ Wrap \/ WrapFails \/ FreeProblem
  BY <1>1, <1>5 DEF OpenFails, Open, CloseReader, Reject, Build, Wrap, WrapFails, FreeProblem
<1>6. CASE Load
  BY <1>2, <1>3, <1>4, <1>5, <1>6 DEF Load, MpsNext
<1>7. CASE Raise \/ CopyModel \/ Construct \/ Solve \/ Return \/ Rests \/ UNCHANGED vars
  BY <1>1, <1>7 DEF Raise, CopyModel, Construct, Solve, Return, Rests, vars, mpsVars
<1> QED
  BY <1>6, <1>7 DEF Next

------------------------------------------------------------------------------
(* ------------------------------------ the arrays the solver is given *)
\* Every coordinate the parser keeps is of a known row and column.
EntriesKnown ==
    /\ state.rows \in Seq(STRING) /\ state.cols \in Seq(STRING)
    /\ state.coo \in Seq([row : ToSet(state.rows), col : ToSet(state.cols), value : Int])

\* The map knows an index for each of its names.
LEMMA IndexFacts ==
    ASSUME NEW map \in Seq(STRING), NEW name \in ToSet(map)
    PROVE  Index(map, name) \in 1 .. Len(map) /\ map[Index(map, name)] = name
  BY DEF Index, ToSet

\* The conversion of coordinates of known rows and columns is a CSR matrix.
LEMMA ConvertedIsCsr ==
    ASSUME EntriesKnown
    PROVE  /\ ValidCsr(Converted(state))
           /\ Converted(state).colInd \in [1 .. Len(state.coo) -> 1 .. Len(state.cols)]
           /\ Converted(state).n = Len(state.cols)
           /\ DOMAIN Converted(state).values = 1 .. Len(state.coo)
<1> DEFINE N == Len(state.coo)
           m == Len(state.rows)
           n == Len(state.cols)
           keys == [k \in DOMAIN state.coo |-> Index(state.rows, state.coo[k].row)]
           c == Converted(state)
<1>1. N \in Nat /\ m \in Nat /\ n \in Nat /\ DOMAIN state.coo = 1 .. N
  BY DEF EntriesKnown
<1>2. ASSUME NEW k \in 1 .. N
      PROVE  state.coo[k].row \in ToSet(state.rows) /\ state.coo[k].col \in ToSet(state.cols)
  <2> DEFINE Coordinate == [row : ToSet(state.rows), col : ToSet(state.cols), value : Int]
  <2>1. state.coo \in Seq(Coordinate)
    BY DEF EntriesKnown
  <2>2. state.coo[k] \in Coordinate
    <3> HIDE DEF Coordinate
    <3> QED
      BY <1>1, <2>1
  <2> QED
    BY <2>2
<1>3. ASSUME NEW k \in 1 .. N
      PROVE  /\ Index(state.rows, state.coo[k].row) \in 1 .. m
             /\ Index(state.cols, state.coo[k].col) \in 1 .. n
  <2>1. state.rows \in Seq(STRING) /\ state.cols \in Seq(STRING)
    BY DEF EntriesKnown
  <2> QED
    BY <1>2, <2>1, IndexFacts
<1>4. keys \in [1 .. N -> 1 .. m]
  BY <1>1, <1>3
<1>5. \A q \in 1 .. N : Source(keys, q) \in 1 .. N
  <2> HIDE DEF N, m, n, keys
  <2> QED
    BY <1>1, <1>4, SourceOf
<1>6. /\ c.n = n /\ c.m = m /\ c.nnz = N /\ c.rowPtr = Pointers(keys, m)
      /\ c.colInd = [q \in 1 .. N |-> Index(state.cols, state.coo[Source(keys, q)].col)]
      /\ DOMAIN c.values = 1 .. N
  BY <1>1 DEF Converted
<1>7. c.colInd \in [1 .. N -> 1 .. n]
  <2> HIDE DEF N, m, n, keys, c
  <2> QED
    BY <1>3, <1>5, <1>6
<1>8. /\ \A i \in 0 .. m : Pointers(keys, m)[i] \in 0 .. N
      /\ \A i \in 1 .. m : Pointers(keys, m)[i - 1] <= Pointers(keys, m)[i]
      /\ Pointers(keys, m)[m] = N
  <2> HIDE DEF N, m, n, keys, c
  <2> QED
    BY <1>1, <1>4, PointersFacts
<1> HIDE DEF N, m, n, keys, c
<1>9. ValidCsr(c)
  BY <1>1, <1>6, <1>7, <1>8 DEF ValidCsr
<1> QED
  BY <1>6, <1>7, <1>9 DEF N, n, c

\* The problem handed on is the conversion of the state the parser ended in,
\* the solver's model is that problem, and its A^T was built from that model.
ModelInv ==
    /\ step \in {"load", "raised", "construct", "solve", "solved", "returned"}
    /\ pc \in {"built", "loaded", "freed"} => problem = Converted(state)
    /\ step \in {"construct", "solve", "solved", "returned"} =>
          pc \in {"loaded", "freed"} /\ model = Converted(state)
    /\ step \in {"solve", "solved", "returned"} =>
          captured = (IF ValidCsr(model) THEN Transposed(model) ELSE Refused)

LEMMA LoadModel ==
    ASSUME ModelInv, Load
    PROVE  ModelInv'
<1>1. /\ MpsNext /\ (step = "load" => pc # "loaded")
      /\ step' = step /\ model' = model /\ captured' = captured
  BY DEF Load
<1>2. CASE OpenFails \/ Open \/ SkipLine \/ HeaderLine \/ RecordLine \/ CloseReader \/ Reject
  <2>1. pc \in {"open", "reading", "parsed"} /\ pc' \in {"reading", "parsed", "null"}
    BY <1>2 DEF OpenFails, Open, SkipLine, HeaderLine, RecordLine, CloseReader, Reject, Reads
  <2> QED
    BY <1>1, <2>1 DEF ModelInv
<1>3. CASE Build
  <2>1. pc = "parsed" /\ pc' = "built" /\ problem' = Converted(state) /\ state' = state
    BY <1>3 DEF Build
  <2>2. problem' = Converted(state')
    BY <2>1
  <2> QED
    BY <1>1, <2>1, <2>2 DEF ModelInv
<1>4. CASE Wrap
  <2>1. pc = "built" /\ pc' = "loaded" /\ problem' = problem /\ state' = state
    BY <1>4 DEF Wrap
  <2> QED
    BY <1>1, <2>1 DEF ModelInv
<1>5. CASE WrapFails
  <2>1. pc = "built" /\ pc' = "null" /\ problem' = problem /\ state' = state
    BY <1>5 DEF WrapFails
  <2> QED
    BY <1>1, <2>1 DEF ModelInv
<1>6. CASE FreeProblem
  <2>1. pc = "loaded" /\ pc' = "freed" /\ problem' = problem /\ state' = state
    BY <1>6 DEF FreeProblem
  <2>2. problem' = Converted(state)
    BY <2>1 DEF ModelInv
  <2> QED
    BY <1>1, <2>1, <2>2 DEF ModelInv
<1> QED
  BY <1>1, <1>2, <1>3, <1>4, <1>5, <1>6 DEF MpsNext

LEMMA StepModel ==
    ASSUME ModelInv, [Next]_vars
    PROVE  ModelInv'
<1>1. CASE Load
  BY <1>1, LoadModel
<1>2. CASE Raise
  BY <1>2 DEF Raise, ModelInv, mpsVars
<1>3. CASE CopyModel
  <2>1. /\ step = "load" /\ pc = "loaded" /\ model' = problem /\ step' = "construct"
        /\ pc' = pc /\ problem' = problem /\ state' = state
    BY <1>3 DEF CopyModel, mpsVars
  <2> QED
    BY <2>1 DEF ModelInv
<1>4. CASE Construct
  <2>1. /\ step = "construct" /\ step' = "solve" /\ model' = model
        /\ captured' = (IF ValidCsr(model) THEN Transposed(model) ELSE Refused)
        /\ pc' = pc /\ problem' = problem /\ state' = state
    BY <1>4 DEF Construct, mpsVars
  <2>2. captured' = (IF ValidCsr(model') THEN Transposed(model') ELSE Refused)
    BY <2>1
  <2> QED
    BY <2>1, <2>2 DEF ModelInv
<1>5. CASE Solve
  <2>1. /\ step = "solve" /\ step' = "solved" /\ model' = model /\ captured' = captured
        /\ pc' = pc /\ problem' = problem /\ state' = state
    BY <1>5 DEF Solve, mpsVars
  <2> QED
    BY <2>1 DEF ModelInv
<1>6. CASE Return
  <2>1. /\ step = "solved" /\ step' = "returned" /\ model' = model /\ captured' = captured
        /\ pc' = pc /\ problem' = problem /\ state' = state
    BY <1>6 DEF Return, mpsVars
  <2> QED
    BY <2>1 DEF ModelInv
<1>7. CASE UNCHANGED vars
  BY <1>7 DEF vars, mpsVars, ModelInv
<1>8. CASE Rests
  BY <1>7, <1>8 DEF Rests
<1> QED
  BY <1>1, <1>2, <1>3, <1>4, <1>5, <1>6, <1>7, <1>8 DEF Next

LEMMA KnownEntries ==
    ASSUME StateInv
    PROVE  EntriesKnown
<1>1. PICK N \in Nat : DOMAIN state.coo = 1 .. N
  BY DEF StateInv, Parsed
<1>2. ASSUME NEW k \in 1 .. N
      PROVE  state.coo[k] \in [row : ToSet(state.rows), col : ToSet(state.cols), value : Int]
  <2>0. state.coo[k] \in [row : STRING, col : STRING, value : Int]
    <3>1. state.coo \in Seq([row : STRING, col : STRING, value : Int])
      BY DEF StateInv, Parsed
    <3> DEFINE Triple == [row : STRING, col : STRING, value : Int]
    <3> HIDE DEF Triple
    <3>2. state.coo \in Seq(Triple)
      BY <3>1 DEF Triple
    <3>3. state.coo[k] \in Triple
      BY <1>1, <3>2
    <3> QED
      BY <3>3 DEF Triple
  <2>1. PICK e \in [row : STRING, col : STRING, value : Int] : e = state.coo[k]
    BY <2>0
  <2>2. e.row \in ToSet(state.rows) /\ e.col \in ToSet(state.cols)
    BY <1>1, <2>1 DEF StateInv, Parsed
  <2> QED
    BY <2>1, <2>2
<1>3. state.coo \in Seq([row : ToSet(state.rows), col : ToSet(state.cols), value : Int])
  <2> DEFINE Triple == [row : ToSet(state.rows), col : ToSet(state.cols), value : Int]
  <2>1. state.coo = [k \in 1 .. N |-> state.coo[k]]
    BY <1>1 DEF StateInv, Parsed
  <2>2. \A k \in 1 .. N : state.coo[k] \in Triple
    BY <1>2
  <2> HIDE DEF Triple
  <2>3. state.coo \in Seq(Triple)
    BY <2>1, <2>2
  <2> QED
    BY <2>3 DEF Triple
<1> QED
  BY <1>3 DEF EntriesKnown, StateInv, Parsed

(***************************************************************************)
(* Whatever was loaded, also from a file cut short, the solver accepts its *)
(* arrays, and A^T has every entry once, in the row of its column.         *)
(***************************************************************************)
THEOREM MpsTransposeExact == Spec => []TransposeExact
<1>1. Init => ModelInv /\ StateInv
  BY StateInit DEF Init, MpsInit, ModelInv
<1>2. ModelInv /\ StateInv /\ [Next]_vars => ModelInv' /\ StateInv'
  BY StepModel, StateStep
<1>3. ASSUME ModelInv, StateInv
      PROVE  TransposeExact
  <2> SUFFICES ASSUME step \notin {"load", "raised", "construct"}
               PROVE  captured # Refused /\ Transposes(captured, model)
    BY DEF TransposeExact
  <2>7. EntriesKnown
    BY <1>3, KnownEntries
  <2>1. /\ model = Converted(state)
        /\ captured = (IF ValidCsr(model) THEN Transposed(model) ELSE Refused)
    BY <1>3 DEF ModelInv
  <2>2. ValidCsr(model) /\ captured = Transposed(model)
    BY <2>1, <2>7, ConvertedIsCsr
  <2>3. captured # Refused
    <3>1. "source" \in DOMAIN Transposed(model)
      BY DEF Transposed
    <3>2. "source" \notin DOMAIN Refused
      BY DEF Refused
    <3> QED
      BY <2>2, <3>1, <3>2
  <2>4. PICK N \in Nat, n \in Nat : N = Len(state.coo) /\ n = Len(state.cols)
    <3>1. Len(state.coo) \in Nat /\ Len(state.cols) \in Nat
      BY <2>7 DEF EntriesKnown
    <3> QED
      BY <3>1
  <2>5. /\ model.colInd \in [1 .. N -> 1 .. n] /\ model.n = n
        /\ DOMAIN model.values = 1 .. N
    BY <2>1, <2>4, <2>7, ConvertedIsCsr
  <2>6. Transposes(Transposed(model), model)
    BY <2>5, TransposeOfAnyMatrix
  <2> QED
    BY <2>2, <2>3, <2>6
<1> QED
  BY <1>1, <1>2, <1>3, PTL DEF Spec

------------------------------------------------------------------------------
(* The value of an objective, a fold over the columns. *)

Chosen(s) == CHOOSE e \in s : TRUE
Picking(D) == [s \in SUBSET D |-> Chosen(s)]

\* The sum over a subset of the positions at a time.
LEMMA DotOver ==
    ASSUME NEW c, IsFiniteSet(DOMAIN c), NEW x
    PROVE  \E f : /\ f = [s \in SUBSET DOMAIN c |->
                            IF s = {} THEN 0 ELSE c[Chosen(s)] * x[Chosen(s)] + f[s \ {Chosen(s)}]]
                  /\ Dot(c, x) = f[DOMAIN c]
<1> DEFINE D == DOMAIN c
<1>1. \A s \in SUBSET D : s # {} => Picking(D)[s] \in s
  BY DEF Picking, Chosen
<1>2. \E f : FoldOver(SUBSET D, Picking(D), 0, "term", x, c, f)
  <2> HIDE DEF D
  <2>1. IsFiniteSet(D)
    BY DEF D
  <2> QED
    BY <1>1, <2>1, FoldExists
<1>3. \A f : FoldOver(SUBSET D, Picking(D), 0, "term", x, c, f)
           => f = [s \in SUBSET D |->
                     IF s = {} THEN 0 ELSE c[Chosen(s)] * x[Chosen(s)] + f[s \ {Chosen(s)}]]
  BY DEF FoldOver, FoldStep, Picking
<1>4. PICK h : h = [s \in SUBSET DOMAIN c |->
                      IF s = {} THEN 0 ELSE c[Chosen(s)] * x[Chosen(s)] + h[s \ {Chosen(s)}]]
  BY <1>2, <1>3
<1> HIDE DEF D
<1> QED
  BY <1>4 DEF Dot, MapThenSumSet, MapThenFoldSet, Chosen

\* An objective turned round has the opposite value.
LEMMA DotFacts ==
    ASSUME NEW n \in Nat, NEW c \in [1 .. n -> Int], NEW x \in [1 .. n -> Int]
    PROVE  Dot(c, x) \in Int /\ Dot(Negated(c), x) = -Dot(c, x)
<1> DEFINE D == 1 .. n
<1>1. PICK d : d = Negated(c)
  OBVIOUS
<1>2. d \in [1 .. n -> Int] /\ \A j \in 1 .. n : d[j] = -c[j]
  BY <1>1 DEF Negated
<1>3. IsFiniteSet(D) /\ DOMAIN c = D /\ DOMAIN d = D
  BY <1>2, FS_Interval
<1>4. PICK f : /\ f = [s \in SUBSET D |->
                         IF s = {} THEN 0 ELSE c[Chosen(s)] * x[Chosen(s)] + f[s \ {Chosen(s)}]]
               /\ Dot(c, x) = f[D]
  <2> HIDE DEF D
  <2>1. IsFiniteSet(D) /\ DOMAIN c = D
    BY <1>3
  <2> QED
    BY ONLY <2>1, DotOver
<1>5. PICK g : /\ g = [s \in SUBSET D |->
                         IF s = {} THEN 0 ELSE d[Chosen(s)] * x[Chosen(s)] + g[s \ {Chosen(s)}]]
               /\ Dot(d, x) = g[D]
  <2> HIDE DEF D
  <2>1. IsFiniteSet(D) /\ DOMAIN d = D
    BY <1>3
  <2> QED
    BY ONLY <2>1, DotOver
<1>6. \A s \in SUBSET D : s # {} => Chosen(s) \in s
  BY DEF Chosen
<1>7. IsFiniteSet(D) /\ Cardinality(D) \in Nat
  BY FS_Interval, FS_CardinalityType
<1>8. \A s \in SUBSET D : IsFiniteSet(s) /\ Cardinality(s) \in Nat
  <2> HIDE DEF D
  <2> QED
    BY <1>7, FS_Subset, FS_CardinalityType
<1> DEFINE Good(s) == f[s] \in Int /\ g[s] \in Int /\ f[s] + g[s] = 0
           B == {k \in Nat : \A s \in SUBSET D : Cardinality(s) <= k => Good(s)}
<1>9. 0 \in B
  <2> SUFFICES ASSUME NEW s \in SUBSET D, Cardinality(s) <= 0 PROVE Good(s)
    OBVIOUS
  <2>1. s = {}
    BY <1>8, FS_EmptySet
  <2>2. f[{}] = 0 /\ g[{}] = 0
    BY <1>4, <1>5
  <2> QED
    BY <2>1, <2>2
<1>10. ASSUME NEW k \in B PROVE k + 1 \in B
  <2> SUFFICES ASSUME NEW s \in SUBSET D, Cardinality(s) <= k + 1, s # {} PROVE Good(s)
    <3>1. Cardinality({}) = 0 /\ k \in Nat
      BY FS_EmptySet
    <3>2. Good({})
      BY <3>1
    <3>3. k + 1 \in Nat
      BY <3>1
    <3> HIDE DEF Good, D
    <3> QED
      BY <3>2, <3>3
  <2>1. Chosen(s) \in s /\ Chosen(s) \in 1 .. n
    BY <1>6
  <2>2. PICK r \in SUBSET D : r = s \ {Chosen(s)}
    OBVIOUS
  <2>3. Cardinality(r) = Cardinality(s) - 1
    BY <1>8, <2>1, <2>2, FS_RemoveElement
  <2>4. Good(r)
    BY <1>8, <2>3
  <2>5. f[s] = c[Chosen(s)] * x[Chosen(s)] + f[r] /\ g[s] = d[Chosen(s)] * x[Chosen(s)] + g[r]
    BY <1>4, <1>5, <2>2
  <2>6. PICK a \in Int, b \in Int : a = c[Chosen(s)] /\ b = x[Chosen(s)]
    BY <2>1
  <2>7. d[Chosen(s)] = -a
    BY <1>2, <2>1, <2>6
  <2>8. PICK w \in Int : w = a * b /\ (-a) * b = -w
    OBVIOUS
  <2>9. PICK u \in Int, v \in Int : u = f[r] /\ v = g[r] /\ u + v = 0
    BY <2>4
  <2>10. f[s] = w + u
    BY <2>5, <2>6, <2>8, <2>9
  <2>11. g[s] = -w + v
    BY <2>5, <2>6, <2>7, <2>8, <2>9
  <2>12. w + u \in Int /\ -w + v \in Int /\ (w + u) + (-w + v) = 0
    BY ONLY <2>9, w \in Int, u \in Int, v \in Int
  <2> QED
    BY <2>10, <2>11, <2>12
<1>11. B = Nat
  <2>1. B \in SUBSET Nat
    OBVIOUS
  <2> HIDE DEF B
  <2> QED
    BY <1>9, <1>10, <2>1, Induction
<1>12. Good(D)
  <2>1. Cardinality(D) \in B
    BY <1>7, <1>11
  <2> QED
    BY <1>7, <2>1
<1>13. PICK u \in Int, v \in Int : u = Dot(c, x) /\ v = Dot(d, x) /\ u + v = 0
  BY <1>4, <1>5, <1>12
<1>14. v = -u
  BY <1>13
<1> QED
  BY <1>1, <1>13, <1>14
------------------------------------------------------------------------------
(* The value of a point of a model in its own sense and in the solver's.   *)

Worth(p, x) == Dot(p.objective, x) + p.constant
Turned(p, x) == IF p.maximize THEN Dot(Negated(p.objective), x) + (-p.constant) ELSE Worth(p, x)
PointsOf(p) == [1 .. p.n -> Coordinates]

\* What the solver returned, and what solve_mps returns.
Minimal(p, r) ==
    /\ r.x \in PointsOf(p) /\ \A z \in PointsOf(p) : Turned(p, r.x) <= Turned(p, z)
    /\ r.primal = Turned(p, r.x)
    /\ r.dual \in {r.primal, r.primal - 1}
Optimal(p, r) ==
    /\ r.primal = Worth(p, r.x)
    /\ \A z \in PointsOf(p) : IF p.maximize THEN r.primal >= Worth(p, z) ELSE r.primal <= Worth(p, z)
    /\ IF p.maximize THEN r.dual >= r.primal ELSE r.dual <= r.primal

TypedModel(p) ==
    /\ p.n \in Nat /\ p.objective \in [1 .. p.n -> Int]
    /\ p.constant \in Int /\ p.maximize \in BOOLEAN

LEMMA ConvertedTyped ==
    ASSUME StateInv
    PROVE  TypedModel(Converted(state))
<1>1. PICK n \in Nat : DOMAIN state.cols = 1 .. n /\ Len(state.cols) = n
  BY DEF StateInv, Parsed
<1>2. \A j \in 1 .. n : state.cols[j] \in ToSet(state.cols)
  BY <1>1 DEF ToSet
<1>3. \A j \in 1 .. n : state.obj[state.cols[j]] \in Int
  BY <1>2 DEF StateInv, Parsed
<1>4. PICK c : c = Converted(state)
  OBVIOUS
<1>5. c.objective = [j \in 1 .. n |-> state.obj[state.cols[j]]]
  BY <1>1, <1>4 DEF Converted
<1>6. c.n = n /\ c.constant = state.constant /\ c.maximize = state.maximize
  BY <1>1, <1>4 DEF Converted
<1>7. state.constant \in Int /\ state.maximize \in BOOLEAN
  BY DEF StateInv, Parsed
<1> QED
  BY <1>3, <1>4, <1>5, <1>6, <1>7 DEF TypedModel

\* Turning a model round turns the value of every point round.
LEMMA TurnedFacts ==
    ASSUME NEW p, TypedModel(p), NEW x \in PointsOf(p)
    PROVE  /\ Worth(p, x) \in Int
           /\ Turned(p, x) = (IF p.maximize THEN -Worth(p, x) ELSE Worth(p, x))
<1>1. PICK n, c, k :
         /\ n = p.n /\ c = p.objective /\ k = p.constant
         /\ n \in Nat /\ c \in [1 .. n -> Int] /\ k \in Int
  BY DEF TypedModel
<1>2. x \in [1 .. n -> Int]
  BY <1>1, SolveMpsAssumption DEF PointsOf
<1>3. Dot(c, x) \in Int /\ Dot(Negated(c), x) = -Dot(c, x)
  BY <1>1, <1>2, DotFacts
<1>4. PICK v \in Int, w \in Int : v = Dot(c, x) /\ w = Dot(Negated(c), x) /\ w = -v
  BY <1>3
<1>5. Worth(p, x) = v + k
  BY <1>1, <1>4 DEF Worth
<1>6. p.maximize => Turned(p, x) = w + (-k)
  BY <1>1, <1>4 DEF Turned
<1>7. ~p.maximize => Turned(p, x) = Worth(p, x)
  BY DEF Turned
<1>8. v + k \in Int /\ w + (-k) = -(v + k)
  BY <1>1, <1>4
<1> QED
  BY <1>5, <1>6, <1>7, <1>8

\* A minimum of the model turned round, turned back, is an optimum of it.
LEMMA TurnedBack ==
    ASSUME NEW p, TypedModel(p), NEW r, Minimal(p, r), NEW s,
           s.x = r.x, s.primal = (IF p.maximize THEN -r.primal ELSE r.primal),
           s.dual = (IF p.maximize THEN -r.dual ELSE r.dual)
    PROVE  Optimal(p, s)
<1>1. PICK x \in PointsOf(p) : x = r.x
  BY DEF Minimal
<1>2. PICK v \in Int : v = Worth(p, x) /\ Turned(p, x) = (IF p.maximize THEN -v ELSE v)
  BY TurnedFacts
<1>3. r.primal = Turned(p, x) /\ r.dual \in {r.primal, r.primal - 1}
  BY <1>1 DEF Minimal
<1>4. s.primal = v
  BY <1>2, <1>3
<1>5. IF p.maximize THEN s.dual >= v ELSE s.dual <= v
  BY <1>2, <1>3
<1>6. ASSUME NEW z \in PointsOf(p)
      PROVE  IF p.maximize THEN v >= Worth(p, z) ELSE v <= Worth(p, z)
  <2>1. PICK u \in Int : u = Worth(p, z) /\ Turned(p, z) = (IF p.maximize THEN -u ELSE u)
    BY TurnedFacts
  <2>2. Turned(p, x) <= Turned(p, z)
    BY <1>1 DEF Minimal
  <2> QED
    BY <1>2, <2>1, <2>2
<1>7. s.primal = Worth(p, s.x)
  BY <1>1, <1>2, <1>4
<1> QED
  BY <1>4, <1>5, <1>6, <1>7 DEF Optimal

SolvedInv ==
    /\ step = "solved" => Minimal(model, result)
    /\ step = "returned" => Optimal(model, result)

LEMMA StepSolved ==
    ASSUME ModelInv, StateInv, SolvedInv, [Next]_vars
    PROVE  SolvedInv'
<1>1. CASE Load \/ Rests \/ UNCHANGED vars
  <2>1. step' = step /\ model' = model /\ result' = result
    BY <1>1 DEF Load, Rests, vars
  <2> QED
    BY <2>1 DEF SolvedInv
<1>2. CASE Raise \/ CopyModel \/ Construct
  <2>1. step' \in {"raised", "construct", "solve"}
    BY <1>2 DEF Raise, CopyModel, Construct
  <2> QED
    BY <2>1 DEF SolvedInv
<1>3. CASE Solve
  <2>1. PICK x \in Points, short \in {0, 1} :
           /\ \A z \in Points : MinValue(x) <= MinValue(z)
           /\ result' = [x |-> x, primal |-> MinValue(x), dual |-> MinValue(x) - short]
    BY <1>3 DEF Solve
  <2>2. step' = "solved" /\ model' = model
    BY <1>3 DEF Solve
  <2>3. Points = PointsOf(model)
    BY DEF Points, PointsOf
  <2>4. \A z : MinValue(z) = Turned(model, z)
    BY DEF MinValue, MinObjective, MinConstant, Turned, Worth
  <2>5. step = "solve" /\ TypedModel(model)
    <3>1. step = "solve"
      BY <1>3 DEF Solve
    <3>2. model = Converted(state)
      BY <3>1 DEF ModelInv
    <3> QED
      BY <3>1, <3>2, ConvertedTyped
  <2>6. MinValue(x) \in Int
    <3>1. PICK v \in Int : Turned(model, x) = (IF model.maximize THEN -v ELSE v)
      BY <2>3, <2>5, TurnedFacts
    <3> QED
      BY <2>4, <3>1
  <2>7. MinValue(x) - short \in {MinValue(x), MinValue(x) - 1}
    BY <2>6
  <2>8. PICK r : r = result'
    OBVIOUS
  <2>9. r.x = x /\ r.primal = MinValue(x) /\ r.dual = MinValue(x) - short
    BY <2>1, <2>8
  <2>10. Minimal(model, r)
    BY <2>1, <2>3, <2>4, <2>7, <2>9 DEF Minimal
  <2> QED
    BY <2>2, <2>8, <2>10 DEF SolvedInv
<1>4. CASE Return
  <2>1. step = "solved" /\ step' = "returned" /\ model' = model
    BY <1>4 DEF Return
  <2>2. TypedModel(model)
    <3>1. model = Converted(state)
      BY <2>1 DEF ModelInv
    <3> QED
      BY <3>1, ConvertedTyped
  <2>3. Minimal(model, result)
    BY <2>1 DEF SolvedInv
  <2>4. PICK s : s = result'
    OBVIOUS
  <2>5. /\ s.x = result.x
        /\ s.primal = (IF model.maximize THEN -result.primal ELSE result.primal)
        /\ s.dual = (IF model.maximize THEN -result.dual ELSE result.dual)
    BY <1>4, <2>4 DEF Return
  <2>6. Optimal(model, s)
    BY <2>2, <2>3, <2>5, TurnedBack
  <2> QED
    BY <2>1, <2>4, <2>6 DEF SolvedInv
<1> QED
  BY <1>1, <1>2, <1>3, <1>4 DEF Next

(***************************************************************************)
(* solve_mps returns the best value there is in the sense of the file, of  *)
(* the point it returns and constant included, and a dual value on the     *)
(* other side of it -- for every file, of any number of columns.           *)
(***************************************************************************)
THEOREM MpsSenseRestored == Spec => []SenseRestored
<1>1. Init => ModelInv /\ StateInv /\ SolvedInv
  BY StateInit DEF Init, MpsInit, ModelInv, SolvedInv
<1>2. ModelInv /\ StateInv /\ SolvedInv /\ [Next]_vars => ModelInv' /\ StateInv' /\ SolvedInv'
  BY StepModel, StateStep, StepSolved
<1>3. SolvedInv => SenseRestored
  <2> SUFFICES ASSUME SolvedInv, step = "returned"
               PROVE  SenseRestored
    BY DEF SenseRestored
  <2>1. Optimal(model, result)
    BY DEF SolvedInv
  <2> QED
    BY <2>1 DEF SenseRestored, Optimal, Worth, Better, Points, PointsOf
<1> QED
  BY <1>1, <1>2, <1>3, PTL DEF Spec

------------------------------------------------------------------------------
(* The arrays of the loaded problem and the coordinates they come from.    *)

\* The names and coordinates of a parser state are within the limit, and no
\* name has two indices.
TablesExact ==
    /\ Table(state.rows) /\ Table(state.cols) /\ Len(state.coo) <= Limit
    /\ \A k \in DOMAIN state.coo :
          state.coo[k].row \in ToSet(state.rows) /\ state.coo[k].col \in ToSet(state.cols)

(***************************************************************************)
(* At every line of every file, and also after an insertion has failed in  *)
(* the middle of a record: the tables have at most Limit names and         *)
(* coordinates, so that their indices fit an int, no name has two indices, *)
(* and every coordinate is of a row and a column that have one.            *)
(***************************************************************************)
THEOREM MpsTablesExact == Spec => []TablesExact
<1>1. Init => StateInv
  BY StateInit
<1>2. StateInv /\ [Next]_vars => StateInv'
  BY StateStep
<1>3. StateInv => TablesExact
  BY DEF StateInv, Parsed, TablesExact
<1> QED
  BY <1>1, <1>2, <1>3, PTL DEF Spec

\* Coordinate k is the entry q of a matrix.
Holds(p, q, rows, cols, e) ==
    /\ p.values[q] = e.value /\ cols[p.colInd[q]] = e.col
    /\ \E i \in 1 .. p.m : rows[i] = e.row /\ p.rowPtr[i - 1] < q /\ q <= p.rowPtr[i]
HoldsCoordinates(p, t) ==
    \E place \in Bijection(DOMAIN t.coo, 1 .. p.nnz) :
        \A k \in DOMAIN t.coo : Holds(p, place[k], t.rows, t.cols, t.coo[k])

LEMMA ConvertedHolds ==
    ASSUME EntriesKnown
    PROVE  HoldsCoordinates(Converted(state), state)
<1> DEFINE N == Len(state.coo)
           m == Len(state.rows)
           keys == [k \in DOMAIN state.coo |-> Index(state.rows, state.coo[k].row)]
           c == Converted(state)
           place == [k \in 1 .. N |-> Place(keys, k)]
<1>1. N \in Nat /\ m \in Nat /\ DOMAIN state.coo = 1 .. N
  BY DEF EntriesKnown
<1>2. ASSUME NEW k \in 1 .. N
      PROVE  state.coo[k].row \in ToSet(state.rows) /\ state.coo[k].col \in ToSet(state.cols)
  <2> DEFINE Coordinate == [row : ToSet(state.rows), col : ToSet(state.cols), value : Int]
  <2>1. state.coo \in Seq(Coordinate)
    BY DEF EntriesKnown
  <2>2. state.coo[k] \in Coordinate
    <3> HIDE DEF Coordinate
    <3> QED
      BY <1>1, <2>1
  <2> QED
    BY <2>2
<1>3. ASSUME NEW k \in 1 .. N
      PROVE  /\ keys[k] \in 1 .. m /\ state.rows[keys[k]] = state.coo[k].row
             /\ state.cols[Index(state.cols, state.coo[k].col)] = state.coo[k].col
  <2>1. state.rows \in Seq(STRING) /\ state.cols \in Seq(STRING)
    BY DEF EntriesKnown
  <2>2. keys[k] = Index(state.rows, state.coo[k].row)
    BY <1>1
  <2> QED
    BY <1>2, <2>1, <2>2, IndexFacts
<1>4. keys \in [1 .. N -> 1 .. m]
  BY <1>1, <1>3
<1>5. /\ c.m = m /\ c.nnz = N /\ c.rowPtr = Pointers(keys, m)
      /\ c.colInd = [q \in 1 .. N |-> Index(state.cols, state.coo[Source(keys, q)].col)]
      /\ c.values = [q \in 1 .. N |-> state.coo[Source(keys, q)].value]
  BY <1>1 DEF Converted
<1>6. \A k \in 1 .. N : place[k] = Place(keys, k)
  OBVIOUS
<1> HIDE DEF N, m, keys, c, place
<1>7. ASSUME NEW k \in 1 .. N
      PROVE  place[k] \in 1 .. N /\ Source(keys, place[k]) = k
  <2>1. Place(keys, k) \in 1 .. N /\ Source(keys, Place(keys, k)) = k
    BY ONLY <1>1, <1>4, k \in 1 .. N, PlaceOf
  <2> QED
    BY <1>6, <2>1
<1>8. place \in Bijection(1 .. N, 1 .. N)
  <2>1. place \in [1 .. N -> 1 .. N]
    BY <1>7 DEF place
  <2>2. \A k, l \in 1 .. N : place[k] = place[l] => k = l
    BY <1>7
  <2>3. place \in Injection(1 .. N, 1 .. N)
    BY <2>1, <2>2 DEF Injection, IsInjective
  <2>4. place \in Surjection(1 .. N, 1 .. N)
    BY <1>1, <2>3, FS_Interval, FS_Injection
  <2> QED
    BY <2>3, <2>4 DEF Bijection
<1>9. ASSUME NEW k \in 1 .. N
      PROVE  Holds(c, place[k], state.rows, state.cols, state.coo[k])
  <2>1. keys[k] \in 1 .. m /\ keys[k] \in 0 .. m /\ keys[k] - 1 \in 0 .. m
    BY <1>1, <1>3
  <2>2. \A i \in 0 .. m : c.rowPtr[i] = Cardinality(Upto(keys, i))
    <3>1. \A i \in 0 .. m : Pointers(keys, m)[i] = Cardinality(Upto(keys, i))
      BY ONLY <1>1, <1>4, PointersFacts
    <3> QED
      BY <1>5, <3>1
  <2>3. /\ Cardinality(Upto(keys, keys[k] - 1)) < Place(keys, k)
        /\ Place(keys, k) <= Cardinality(Upto(keys, keys[k]))
    BY <1>1, <1>4, PlaceFacts
  <2>4. c.rowPtr[keys[k] - 1] < place[k] /\ place[k] <= c.rowPtr[keys[k]]
    BY <1>6, <2>1, <2>2, <2>3
  <2>5. c.values[place[k]] = state.coo[k].value
    BY <1>5, <1>7
  <2>6. c.colInd[place[k]] = Index(state.cols, state.coo[k].col)
    BY <1>5, <1>7
  <2> QED
    BY <1>3, <1>5, <2>1, <2>4, <2>5, <2>6 DEF Holds
<1> QED
  BY <1>1, <1>5, <1>8, <1>9 DEF HoldsCoordinates, c

(***************************************************************************)
(* The problem handed to the caller, and the model the solver is given,    *)
(* hold each coordinate read once, in the row and the column of its name   *)
(* and with its value; coordinates at one place are not merged.            *)
(***************************************************************************)
THEOREM MpsCoordinatesHeld ==
    Spec => [](/\ pc \in {"built", "loaded"} => HoldsCoordinates(problem, state)
               /\ step \in {"construct", "solve", "solved", "returned"} =>
                     HoldsCoordinates(model, state))
<1> DEFINE Held == /\ pc \in {"built", "loaded"} => HoldsCoordinates(problem, state)
                   /\ step \in {"construct", "solve", "solved", "returned"} =>
                         HoldsCoordinates(model, state)
<1>1. Init => ModelInv /\ StateInv
  BY StateInit DEF Init, MpsInit, ModelInv
<1>2. ModelInv /\ StateInv /\ [Next]_vars => ModelInv' /\ StateInv'
  BY StepModel, StateStep
<1>3. ASSUME ModelInv, StateInv PROVE Held
  <2>1. HoldsCoordinates(Converted(state), state)
    BY <1>3, KnownEntries, ConvertedHolds
  <2> QED
    BY <1>3, <2>1 DEF ModelInv
<1> QED
  BY <1>1, <1>2, <1>3, PTL DEF Spec

------------------------------------------------------------------------------
(***************************************************************************)
(* From here on: LoadsWhatTheFileSays.  While the lines before line k have *)
(* been read, the tables hold what these lines say (Follows), so that at   *)
(* ENDATA they hold the whole meaning of the file, which the conversion to *)
(* CSR keeps.  First sums, ranks and the lines; then the words each record *)
(* is read as; then what each line adds; last the steps of the reader.     *)
(***************************************************************************)
(* Sums over sets, in whatever order their elements are taken.             *)

\* g[s] is the sum of v over s, for every subset s of D.
Sums(g, v, D) ==
    /\ g[{}] = 0
    /\ \A s \in SUBSET D : g[s] \in Int /\ \A e \in s : g[s] = v[e] + g[s \ {e}]

LEMMA SumOver ==
    ASSUME NEW D, IsFiniteSet(D), NEW v
    PROVE  /\ \E g : FoldOver(SUBSET D, Picking(D), 0, "sum", 0, v, g)
           /\ \A g : FoldOver(SUBSET D, Picking(D), 0, "sum", 0, v, g) =>
                 g = [s \in SUBSET D |-> IF s = {} THEN 0 ELSE v[Chosen(s)] + g[s \ {Chosen(s)}]]
<1>1. \A s \in SUBSET D : s # {} => Picking(D)[s] \in s
  BY DEF Picking, Chosen
<1>2. \E g : FoldOver(SUBSET D, Picking(D), 0, "sum", 0, v, g)
  BY <1>1, FoldExists
<1> QED
  BY <1>2 DEF FoldOver, FoldStep, Picking

\* Such a fold is the sum, whichever element is split off.
LEMMA SumIsSum ==
    ASSUME NEW D, IsFiniteSet(D), NEW v, \A e \in D : v[e] \in Int, NEW g,
           g[{}] = 0, \A s \in SUBSET D : s # {} => g[s] = v[Chosen(s)] + g[s \ {Chosen(s)}]
    PROVE  Sums(g, v, D)
<1>1. \A s \in SUBSET D : s # {} => Chosen(s) \in s
  BY DEF Chosen
<1>2. \A s \in SUBSET D : IsFiniteSet(s) /\ Cardinality(s) \in Nat
  BY FS_Subset, FS_CardinalityType
<1> DEFINE Good(s) == g[s] \in Int /\ \A e \in s : g[s] = v[e] + g[s \ {e}]
           B == {k \in Nat : \A s \in SUBSET D : Cardinality(s) <= k => Good(s)}
<1>3. g[{}] = 0
  OBVIOUS
<1>4. 0 \in B
  <2> SUFFICES ASSUME NEW s \in SUBSET D, Cardinality(s) <= 0 PROVE Good(s)
    OBVIOUS
  <2>1. s = {}
    BY <1>2, FS_EmptySet
  <2> QED
    BY <1>3, <2>1
<1>5. ASSUME NEW k \in B PROVE k + 1 \in B
  <2>1. k \in Nat /\ \A s \in SUBSET D : Cardinality(s) <= k => Good(s)
    OBVIOUS
  <2>0. Cardinality({}) = 0
    BY FS_EmptySet
  <2> SUFFICES ASSUME NEW s \in SUBSET D, Cardinality(s) <= k + 1, s # {} PROVE Good(s)
    <3> HIDE DEF Good
    <3>1. Good({})
      BY <2>0, <2>1
    <3>2. \A s \in SUBSET D : Cardinality(s) <= k + 1 => Good(s)
      BY <3>1
    <3> QED
      BY <2>1, <3>2
  <2>2. PICK c \in s : c = Chosen(s)
    BY <1>1
  <2>3. g[s] = v[c] + g[s \ {c}]
    BY <2>2
  <2>4. ASSUME NEW e \in s PROVE Good(s \ {e}) /\ s \ {e} \in SUBSET D
    <3>1. Cardinality(s \ {e}) = Cardinality(s) - 1 /\ s \ {e} \in SUBSET D
      BY <1>2, FS_RemoveElement
    <3>2. Cardinality(s) \in Nat
      BY <1>2
    <3>3. Cardinality(s \ {e}) <= k
      BY <2>1, <3>1, <3>2
    <3> HIDE DEF Good
    <3> QED
      BY <2>1, <3>1, <3>3
  <2>5. v[c] \in Int /\ g[s \ {c}] \in Int /\ g[s] \in Int
    <3>1. g[s \ {c}] \in Int /\ v[c] \in Int
      BY <2>4
    <3> QED
      BY ONLY <2>3, <3>1
  <2>6. ASSUME NEW e \in s, e # c PROVE g[s] = v[e] + g[s \ {e}]
    <3>1. PICK r : r = (s \ {c}) \ {e}
      OBVIOUS
    <3>2. r = (s \ {e}) \ {c} /\ e \in s \ {c} /\ c \in s \ {e}
      BY <2>6, <3>1
    <3>3. g[s \ {c}] = v[e] + g[r] /\ g[s \ {e}] = v[c] + g[r]
      <4>1. \A a \in s \ {c} : g[s \ {c}] = v[a] + g[(s \ {c}) \ {a}]
        BY <2>4
      <4>2. \A a \in s \ {e} : g[s \ {e}] = v[a] + g[(s \ {e}) \ {a}]
        BY <2>4
      <4> QED
        BY ONLY <3>1, <3>2, <4>1, <4>2
    <3>4. r \in SUBSET D /\ Cardinality(r) <= k
      <4>1. Cardinality(s \ {c}) = Cardinality(s) - 1 /\ IsFiniteSet(s \ {c}) /\ Cardinality(s) \in Nat
        BY <1>2, FS_RemoveElement
      <4>2. Cardinality(r) = Cardinality(s \ {c}) - 1
        <5>1. PICK w : w = s \ {c}
          OBVIOUS
        <5>2. IsFiniteSet(w) /\ e \in w /\ r = w \ {e}
          BY ONLY <3>1, <3>2, <4>1, <5>1
        <5>3. Cardinality(w \ {e}) = Cardinality(w) - 1
          BY ONLY <5>2, FS_RemoveElement
        <5> QED
          BY ONLY <5>1, <5>2, <5>3
      <4>3. k \in Nat
        OBVIOUS
      <4> QED
        BY <3>1, <4>1, <4>2, <4>3
    <3>5. PICK a \in Int, b \in Int, u \in Int : a = v[c] /\ b = v[e] /\ u = g[r]
      BY <2>1, <3>4
    <3>6. g[s] = a + (b + u) /\ v[e] + g[s \ {e}] = b + (a + u)
      BY <2>3, <3>3, <3>5
    <3>7. a + (b + u) = b + (a + u)
      OBVIOUS
    <3> QED
      BY <3>6, <3>7
  <2> QED
    BY <2>3, <2>5, <2>6
<1>6. B = Nat
  <2>1. B \in SUBSET Nat
    OBVIOUS
  <2> HIDE DEF B
  <2> QED
    BY <1>4, <1>5, <2>1, Induction
<1>7. ASSUME NEW s \in SUBSET D PROVE Good(s)
  <2>1. Cardinality(s) \in B
    BY <1>2, <1>6
  <2>2. Cardinality(s) <= Cardinality(s)
    BY <1>2
  <2> HIDE DEF Good
  <2> QED
    BY <2>1, <2>2
<1> QED
  BY <1>3, <1>7 DEF Sums

\* Renaming the terms keeps the sum.
LEMMA SumMoves ==
    ASSUME NEW D, IsFiniteSet(D), NEW E, NEW v, NEW w, NEW g, NEW h, Sums(g, v, D), Sums(h, w, E),
           NEW m, \A d \in D : m[d] \in E /\ v[d] = w[m[d]],
           \A d, e \in D : m[d] = m[e] => d = e
    PROVE  g[D] = h[{m[d] : d \in D}]
<1>1. \A s \in SUBSET D : IsFiniteSet(s) /\ Cardinality(s) \in Nat
  BY FS_Subset, FS_CardinalityType
<1> DEFINE Moved(s) == {m[d] : d \in s}
           B == {k \in Nat : \A s \in SUBSET D : Cardinality(s) <= k => g[s] = h[Moved(s)]}
<1>2. 0 \in B
  <2> SUFFICES ASSUME NEW s \in SUBSET D, Cardinality(s) <= 0 PROVE g[s] = h[Moved(s)]
    OBVIOUS
  <2>1. s = {} /\ Moved(s) = {}
    BY <1>1, FS_EmptySet
  <2> QED
    BY <2>1 DEF Sums
<1>3. ASSUME NEW k \in B PROVE k + 1 \in B
  <2>1. \A s \in SUBSET D : Cardinality(s) <= k => g[s] = h[Moved(s)]
    OBVIOUS
  <2> SUFFICES ASSUME NEW s \in SUBSET D, Cardinality(s) <= k + 1, s # {} PROVE g[s] = h[Moved(s)]
    <3>1. \A s \in SUBSET D : s = {} => Cardinality(s) = 0
      BY FS_EmptySet
    <3> QED
      BY <2>1, <3>1
  <2>2. PICK d \in s : TRUE
    OBVIOUS
  <2>3. Cardinality(s \ {d}) = Cardinality(s) - 1 /\ s \ {d} \in SUBSET D /\ Cardinality(s) \in Nat
    BY <1>1, FS_RemoveElement
  <2>4. k \in Nat /\ Cardinality(s \ {d}) <= k
    BY <2>3
  <2>5. g[s \ {d}] = h[Moved(s \ {d})]
    BY <2>1, <2>3, <2>4
  <2>6. Moved(s \ {d}) = Moved(s) \ {m[d]} /\ Moved(s) \in SUBSET E /\ m[d] \in Moved(s)
    OBVIOUS
  <2>7. g[s] = v[d] + g[s \ {d}] /\ h[Moved(s)] = w[m[d]] + h[Moved(s) \ {m[d]}]
    <3> HIDE DEF Moved
    <3> QED
      BY <2>6 DEF Sums
  <2>8. v[d] = w[m[d]]
    OBVIOUS
  <2> QED
    BY <2>5, <2>6, <2>7, <2>8
<1>4. B = Nat
  <2>1. B \in SUBSET Nat
    OBVIOUS
  <2> HIDE DEF B
  <2> QED
    BY <1>2, <1>3, <2>1, Induction
<1>5. Cardinality(D) \in B
  BY <1>1, <1>4
<1> QED
  BY <1>1, <1>5

\* The total of a set of pairs is such a sum.
LEMMA TotalOver ==
    ASSUME NEW f, NEW D, IsFiniteSet(D), \A d \in D : ValueOf(f, d) \in Int
    PROVE  \E g : Sums(g, [d \in D |-> ValueOf(f, d)], D) /\ Total(f, D) = g[D]
<1>0. PICK v : v = [d \in D |-> ValueOf(f, d)]
  OBVIOUS
<1>1. \A s \in SUBSET D : s # {} => Chosen(s) \in s
  BY DEF Chosen
<1>2. /\ \E g : FoldOver(SUBSET D, Picking(D), 0, "sum", 0, v, g)
      /\ \A g : FoldOver(SUBSET D, Picking(D), 0, "sum", 0, v, g) =>
            g = [s \in SUBSET D |-> IF s = {} THEN 0 ELSE v[Chosen(s)] + g[s \ {Chosen(s)}]]
  BY SumOver
<1>3. \A s \in SUBSET D : s # {} => v[Chosen(s)] = ValueOf(f, Chosen(s))
  BY <1>0, <1>1
<1>4. \A g : g = [s \in SUBSET D |-> IF s = {} THEN 0 ELSE v[Chosen(s)] + g[s \ {Chosen(s)}]]
           <=> g = [s \in SUBSET D |-> IF s = {} THEN 0 ELSE ValueOf(f, Chosen(s)) + g[s \ {Chosen(s)}]]
  <2> TAKE g
  <2>1. [s \in SUBSET D |-> IF s = {} THEN 0 ELSE v[Chosen(s)] + g[s \ {Chosen(s)}]]
          = [s \in SUBSET D |-> IF s = {} THEN 0 ELSE ValueOf(f, Chosen(s)) + g[s \ {Chosen(s)}]]
    BY <1>3
  <2> QED
    BY <2>1
<1>5. PICK h : h = [s \in SUBSET D |-> IF s = {} THEN 0 ELSE ValueOf(f, Chosen(s)) + h[s \ {Chosen(s)}]]
  BY <1>2, <1>4
<1>6. \E g : /\ g = [s \in SUBSET D |-> IF s = {} THEN 0 ELSE ValueOf(f, Chosen(s)) + g[s \ {Chosen(s)}]]
             /\ Total(f, D) = g[D]
  BY <1>5 DEF Total, MapThenSumSet, MapThenFoldSet, Chosen
<1>7. PICK g : /\ g = [s \in SUBSET D |-> IF s = {} THEN 0 ELSE v[Chosen(s)] + g[s \ {Chosen(s)}]]
               /\ Total(f, D) = g[D]
  BY <1>4, <1>6
<1>8. \A d \in D : v[d] \in Int
  BY <1>0
<1>9. Sums(g, v, D)
  <2>1. g[{}] = 0 /\ \A s \in SUBSET D : s # {} => g[s] = v[Chosen(s)] + g[s \ {Chosen(s)}]
    BY <1>7
  <2> QED
    BY ONLY <1>8, <2>1, IsFiniteSet(D), SumIsSum
<1> QED
  BY <1>0, <1>7, <1>9

\* A total over more data, one at a time.
LEMMA TotalWith ==
    ASSUME NEW f, NEW D, IsFiniteSet(D), \A d \in D : ValueOf(f, d) \in Int
    PROVE  /\ Total(f, {}) = 0 /\ Total(f, D) \in Int
           /\ \A e : e \notin D /\ ValueOf(f, e) \in Int =>
                        Total(f, D \union {e}) = Total(f, D) + ValueOf(f, e)
<1>1. Total(f, {}) = 0
  <2>1. IsFiniteSet({}) /\ \A d \in {} : ValueOf(f, d) \in Int
    BY FS_EmptySet
  <2>2. PICK g : Sums(g, [d \in {} |-> ValueOf(f, d)], {}) /\ Total(f, {}) = g[{}]
    BY <2>1, TotalOver
  <2> QED
    BY <2>2 DEF Sums
<1>2. PICK g : Sums(g, [d \in D |-> ValueOf(f, d)], D) /\ Total(f, D) = g[D]
  BY TotalOver
<1>3. g[D] \in Int
  BY <1>2 DEF Sums
<1>4. ASSUME NEW e, e \notin D, ValueOf(f, e) \in Int
      PROVE  Total(f, D \union {e}) = Total(f, D) + ValueOf(f, e)
  <2>1. PICK E : E = D \union {e}
    OBVIOUS
  <2>2. IsFiniteSet(E) /\ \A d \in E : ValueOf(f, d) \in Int
    BY <1>4, <2>1, FS_AddElement
  <2>3. PICK h : Sums(h, [d \in E |-> ValueOf(f, d)], E) /\ Total(f, E) = h[E]
    BY <2>2, TotalOver
  <2>4. h[E] = ValueOf(f, e) + h[D]
    <3>1. e \in E /\ E \ {e} = D /\ E \in SUBSET E
      BY <1>4, <2>1
    <3>2. h[E] = [d \in E |-> ValueOf(f, d)][e] + h[E \ {e}]
      BY <2>3, <3>1 DEF Sums
    <3> QED
      BY <3>1, <3>2
  <2>5. g[D] = h[D]
    <3> DEFINE m == [d \in D |-> d]
               v == [d \in D |-> ValueOf(f, d)]
               w == [d \in E |-> ValueOf(f, d)]
    <3>1. \A d \in D : m[d] \in E /\ v[d] = w[m[d]]
      BY <2>1
    <3>2. \A d, c \in D : m[d] = m[c] => d = c
      OBVIOUS
    <3>3. {m[d] : d \in D} = D
      OBVIOUS
    <3>4. Sums(g, v, D) /\ Sums(h, w, E)
      BY <1>2, <2>3
    <3> HIDE DEF m, v, w
    <3>5. g[D] = h[{m[d] : d \in D}]
      BY <3>1, <3>2, <3>4, SumMoves
    <3> QED
      BY <3>3, <3>5
  <2>6. PICK a \in Int, b \in Int : a = ValueOf(f, e) /\ b = g[D]
    BY <1>3, <1>4
  <2>7. h[E] = a + b /\ a + b = b + a
    BY <2>4, <2>5, <2>6
  <2> QED
    BY <1>2, <2>1, <2>3, <2>6, <2>7
<1> QED
  BY <1>1, <1>2, <1>3, <1>4

------------------------------------------------------------------------------
(* The rank of a number in a set, which is where it comes in its order.    *)

Rank(S, k) == Cardinality({j \in S : j <= k})

\* Ranks grow with the numbers, from 1 to how many there are.
LEMMA RankFacts ==
    ASSUME NEW S \in SUBSET Nat, IsFiniteSet(S)
    PROVE  /\ Cardinality(S) \in Nat
           /\ \A k \in S : Rank(S, k) \in 1 .. Cardinality(S)
           /\ \A k \in S : Rank(S, k) = Cardinality({j \in S : j < k}) + 1
           /\ \A j, k \in S : j < k => Rank(S, j) < Rank(S, k)
<1>1. \A T \in SUBSET S : IsFiniteSet(T) /\ Cardinality(T) \in Nat /\ Cardinality(T) <= Cardinality(S)
  BY FS_Subset, FS_CardinalityType
<1>2. Cardinality(S) \in Nat
  BY FS_CardinalityType
<1>3. ASSUME NEW k \in S PROVE Rank(S, k) = Cardinality({j \in S : j < k}) + 1
  <2>1. PICK T : T = {j \in S : j < k}
    OBVIOUS
  <2>5. k \in Nat /\ \A j \in S : j \in Nat /\ (j <= k <=> j < k \/ j = k)
    OBVIOUS
  <2>6. {j \in S : j <= k} = {j \in S : j < k \/ j = k}
    BY ONLY <2>5
  <2>7. {j \in S : j < k \/ j = k} = T \union {k}
    BY ONLY <2>1, k \in S, Zenon
  <2>2. {j \in S : j <= k} = T \union {k} /\ k \notin T /\ T \in SUBSET S
    BY <2>1, <2>5, <2>6, <2>7
  <2>3. IsFiniteSet(T)
    BY <1>1, <2>2
  <2>4. Cardinality(T \union {k}) = Cardinality(T) + 1
    BY ONLY <2>2, <2>3, FS_AddElement
  <2> QED
    BY <2>1, <2>2, <2>4 DEF Rank
<1>4. ASSUME NEW k \in S PROVE Rank(S, k) \in 1 .. Cardinality(S)
  <2>1. PICK T \in SUBSET S : T = {j \in S : j < k}
    OBVIOUS
  <2>2. PICK R \in SUBSET S : R = {j \in S : j <= k}
    OBVIOUS
  <2>3. Cardinality(T) \in Nat /\ Cardinality(R) \in Nat /\ Cardinality(R) <= Cardinality(S)
    BY <1>1
  <2>4. Cardinality(R) = Cardinality(T) + 1 /\ Rank(S, k) = Cardinality(R)
    BY <1>3, <2>1, <2>2 DEF Rank
  <2> QED
    BY <1>2, <2>3, <2>4
<1>5. ASSUME NEW j \in S, NEW k \in S, j < k PROVE Rank(S, j) < Rank(S, k)
  <2>1. PICK T \in SUBSET S : T = {i \in S : i < k}
    OBVIOUS
  <2>2. PICK R \in SUBSET S : R = {i \in S : i <= j}
    OBVIOUS
  <2>7. \A i \in S : i <= j => i < k
    <3>1. j \in Nat /\ k \in Nat /\ \A i \in S : i \in Nat
      OBVIOUS
    <3> QED
      BY ONLY <1>5, <3>1
  <2>3. R \in SUBSET T
    BY ONLY <2>1, <2>2, <2>7
  <2>4. IsFiniteSet(T) /\ Cardinality(T) \in Nat /\ Cardinality(R) \in Nat
    BY <1>1
  <2>5. Cardinality(R) <= Cardinality(T)
    BY ONLY <2>3, <2>4, FS_Subset
  <2>6. Rank(S, k) = Cardinality(T) + 1 /\ Rank(S, j) = Cardinality(R)
    BY <1>3, <2>1, <2>2 DEF Rank
  <2> QED
    BY <2>4, <2>5, <2>6
<1> QED
  BY <1>2, <1>3, <1>4, <1>5

LEMMA RankApart ==
    ASSUME NEW S \in SUBSET Nat, IsFiniteSet(S), NEW j \in S, NEW k \in S, Rank(S, j) = Rank(S, k)
    PROVE  j = k
<1>1. j \in Nat /\ k \in Nat
  OBVIOUS
<1>2. \A a, b \in S : a < b => Rank(S, a) < Rank(S, b)
  BY RankFacts
<1>3. Rank(S, j) \in Nat /\ Rank(S, k) \in Nat
  BY RankFacts
<1>4. ~(j < k)
  BY <1>2, <1>3
<1>5. ~(k < j)
  BY <1>2, <1>3
<1> QED
  BY <1>1, <1>4, <1>5

\* Every place up to the size is the rank of one number.
LEMMA RankOnto ==
    ASSUME NEW S \in SUBSET Nat, IsFiniteSet(S), NEW i \in 1 .. Cardinality(S)
    PROVE  \E k \in S : Rank(S, k) = i
<1> DEFINE n == Cardinality(S)
           r == [k \in S |-> Rank(S, k)]
<1>1. n \in Nat /\ r \in [S -> 1 .. n]
  BY RankFacts
<1>2. \A j, k \in S : r[j] = r[k] => j = k
  BY RankApart
<1>3. IsFiniteSet(1 .. n) /\ Cardinality(1 .. n) = n
  <2> HIDE DEF n
  <2> QED
    BY <1>1, FS_Interval
<1>4. r \in Injection(S, 1 .. n)
  <2> HIDE DEF n, r
  <2> QED
    BY <1>1, <1>2 DEF Injection, IsInjective
<1>5. r \in Surjection(S, 1 .. n)
  <2> HIDE DEF r
  <2> QED
    BY <1>3, <1>4, FS_Injection
<1>6. \E k \in S : r[k] = i
  <2> HIDE DEF r
  <2> QED
    BY <1>5 DEF Surjection
<1> QED
  BY <1>6

\* Counted through in order, each number comes at its rank.
LEMMA InOrderFacts ==
    ASSUME NEW S \in SUBSET Nat, IsFiniteSet(S)
    PROVE  /\ InOrder(S) \in Seq(S) /\ Len(InOrder(S)) = Cardinality(S)
           /\ DOMAIN InOrder(S) = 1 .. Cardinality(S)
           /\ \A i \in 1 .. Cardinality(S) : InOrder(S)[i] \in S /\ Rank(S, InOrder(S)[i]) = i
           /\ \A k \in S : InOrder(S)[Rank(S, k)] = k
<1>1. Cardinality(S) \in Nat
  BY FS_CardinalityType
<1>2. InOrder(S) = [i \in 1 .. Cardinality(S) |-> CHOOSE k \in S : Rank(S, k) = i]
  BY DEF InOrder, Rank
<1>3. ASSUME NEW i \in 1 .. Cardinality(S) PROVE InOrder(S)[i] \in S /\ Rank(S, InOrder(S)[i]) = i
  BY <1>2, RankOnto
<1>4. ASSUME NEW k \in S PROVE InOrder(S)[Rank(S, k)] = k
  <2>1. Rank(S, k) \in 1 .. Cardinality(S)
    BY RankFacts
  <2>2. InOrder(S)[Rank(S, k)] \in S /\ Rank(S, InOrder(S)[Rank(S, k)]) = Rank(S, k)
    BY <1>3, <2>1
  <2>3. PICK j \in S : j = InOrder(S)[Rank(S, k)]
    BY <2>2
  <2>4. Rank(S, j) = Rank(S, k)
    BY <2>2, <2>3
  <2>5. j = k
    BY <2>4, RankApart
  <2> QED
    BY <2>3, <2>5
<1>5. InOrder(S) \in [1 .. Cardinality(S) -> S]
  BY <1>2, <1>3
<1>6. InOrder(S) \in Seq(S) /\ Len(InOrder(S)) = Cardinality(S)
  BY <1>1, <1>5
<1> QED
  BY <1>2, <1>3, <1>4, <1>6

\* The greatest of a bounded set, and one that a number is added to.
LEMMA GreatestFacts ==
    ASSUME NEW S \in SUBSET Nat, IsFiniteSet(S), S # {}
    PROVE  Max(S) \in S /\ \A j \in S : j <= Max(S)
<1>1. Cardinality(S) \in Nat /\ Cardinality(S) # 0
  BY FS_CardinalityType, FS_EmptySet
<1>2. PICK m \in S : Rank(S, m) = Cardinality(S)
  BY <1>1, RankOnto
<1>3. ASSUME NEW j \in S PROVE m >= j
  <2>1. m < j => Rank(S, m) < Rank(S, j)
    BY RankFacts
  <2>2. Rank(S, j) \in 1 .. Cardinality(S)
    BY RankFacts
  <2> QED
    BY <1>1, <1>2, <2>1, <2>2
<1>4. Max(S) \in S /\ \A j \in S : Max(S) >= j
  BY <1>3 DEF Max
<1> QED
  BY <1>4

\* A number no other exceeds is the greatest.
LEMMA GreatestIs ==
    ASSUME NEW S \in SUBSET Nat, NEW m \in S, \A j \in S : j <= m
    PROVE  Max(S) = m
<1>1. m \in S /\ \A j \in S : m >= j
  OBVIOUS
<1>2. Max(S) \in S /\ \A j \in S : Max(S) >= j
  BY <1>1 DEF Max
<1>3. m \in Nat /\ Max(S) \in Nat /\ m >= Max(S) /\ Max(S) >= m
  BY <1>1, <1>2
<1> QED
  BY <1>3

------------------------------------------------------------------------------
(* The lines of a file that spells its meaning, and what they have been    *)
(* heard to say before one of them.                                        *)

Kinds == {"row", "entries", "rhs", "range", "bound"}
Before(f, kind, k) == {j \in Said(f, kind) : j < k}
Heard(f, kind, k) == {d \in Data(f, kind) : d[1] < k}

\* What a file's lines are, whatever they mean.
LEMMA LinesFacts ==
    ASSUME NEW f \in Files
    PROVE  /\ Len(f.lines) \in Nat /\ DOMAIN f.lines = 1 .. Len(f.lines)
           /\ \A k \in DOMAIN f.lines :
                 k \in Nat /\ f.lines[k] \in ToSet(f.lines) /\ f.lines[k].free \in Seq(STRING)
                 /\ f.lines[k].fixed \in Seq(STRING) /\ Len(f.lines[k].fixed) \in {0, 6}
           /\ \A kind : /\ Said(f, kind) \in SUBSET DOMAIN f.lines /\ Said(f, kind) \in SUBSET Nat
                        /\ IsFiniteSet(Said(f, kind))
           /\ Headers(f) \in SUBSET Nat /\ Headers(f) \in SUBSET DOMAIN f.lines
           /\ IsFiniteSet(Headers(f))
<1>1. f.lines \in Seq(ToSet(f.lines)) /\ \A line \in ToSet(f.lines) :
         line.free \in Seq(STRING) /\ line.fixed \in Seq(STRING) /\ Len(line.fixed) \in {0, 6}
  BY MpsAssumption
<1>2. Len(f.lines) \in Nat /\ DOMAIN f.lines = 1 .. Len(f.lines)
  BY <1>1
<1>3. \A k \in DOMAIN f.lines : k \in Nat /\ f.lines[k] \in ToSet(f.lines)
  BY <1>2 DEF ToSet
<1>4. IsFiniteSet(1 .. Len(f.lines))
  BY <1>2, FS_Interval
<1>5. ASSUME NEW T \in SUBSET DOMAIN f.lines
      PROVE  T \in SUBSET Nat /\ IsFiniteSet(T)
  <2>1. T \in SUBSET (1 .. Len(f.lines))
    BY <1>2
  <2>2. IsFiniteSet(T)
    BY ONLY <1>4, <2>1, FS_Subset
  <2> QED
    BY <1>2, <2>1, <2>2
<1>6. \A kind : Said(f, kind) \in SUBSET DOMAIN f.lines
  BY DEF Said
<1>7. Headers(f) \in SUBSET DOMAIN f.lines
  BY DEF Headers
<1>8. \A k \in DOMAIN f.lines : f.lines[k].free \in Seq(STRING)
         /\ f.lines[k].fixed \in Seq(STRING) /\ Len(f.lines[k].fixed) \in {0, 6}
  BY <1>1, <1>3
<1> QED
  BY <1>2, <1>3, <1>5, <1>6, <1>7, <1>8

\* A line that says something of a kind is a record of its section.
LEMMA RecordFacts ==
    ASSUME NEW f \in Files, Understood(f), NEW kind \in Kinds, NEW k \in Said(f, kind)
    PROVE  /\ k \in DOMAIN f.lines /\ f.lines[k].free # <<>> /\ k \notin Headers(f)
           /\ Means(f, k).is = kind /\ SectionOf(f, k) = Part[kind]
           /\ Meaningful(f, k) /\ Clear(f, k)
<1>1. k \in DOMAIN f.lines /\ Means(f, k).is = kind
  BY DEF Said, Means
<1>2. Spelled(f, k)
  BY <1>1 DEF Understood
<1>3. kind # "nothing" /\ kind # "sense"
  BY DEF Kinds
<1>4. f.lines[k].free # <<>>
  BY <1>1, <1>2, <1>3 DEF Spelled
<1>5. k \notin Headers(f)
  BY <1>1, <1>2, <1>3, <1>4 DEF Spelled
<1>6. SectionOf(f, k) = Part[Means(f, k).is] /\ Meaningful(f, k) /\ Clear(f, k)
  BY <1>1, <1>2, <1>3, <1>4, <1>5 DEF Spelled
<1> QED
  BY <1>1, <1>4, <1>5, <1>6

\* What the meaning of a record consists of.
LEMMA MeaningFacts ==
    ASSUME NEW f \in Files, Understood(f)
    PROVE  /\ \A k \in Said(f, "row") :
                 Means(f, k).type \in {"N", "L", "E", "G"} /\ Means(f, k).name \in STRING
                 /\ Means(f, k).name # None
           /\ \A k \in Said(f, "entries") :
                 /\ Means(f, k).col \in STRING /\ Means(f, k).col # None
                 /\ \A i \in DOMAIN Means(f, k).data : Means(f, k).data[i][1] # "'MARKER'"
           /\ \A kind \in {"entries", "rhs", "range"} : \A k \in Said(f, kind) :
                 Means(f, k).data \in Seq(STRING \X Int) /\ Means(f, k).data # <<>>
           /\ \A k \in Said(f, "bound") :
                 /\ Means(f, k).type \in LowerTypes \union UpperTypes
                 /\ Means(f, k).col \in ColumnsBefore(f, k) /\ Means(f, k).value \in Int
<1>1. ASSUME NEW kind \in Kinds, NEW k \in Said(f, kind)
      PROVE  Means(f, k).is = kind /\ Meaningful(f, k)
  BY RecordFacts
<1>2. ASSUME NEW k \in Said(f, "row")
      PROVE  Means(f, k).type \in {"N", "L", "E", "G"} /\ Means(f, k).name \in STRING \ {None}
  BY <1>1 DEF Meaningful, Kinds
<1>3. ASSUME NEW k \in Said(f, "entries")
      PROVE  /\ Means(f, k).col \in STRING \ {None}
             /\ Means(f, k).data \in Seq(STRING \X Int) /\ Means(f, k).data # <<>>
             /\ \A i \in DOMAIN Means(f, k).data : Means(f, k).data[i][1] # "'MARKER'"
  BY <1>1 DEF Meaningful, Kinds
<1>4. ASSUME NEW kind \in {"rhs", "range"}, NEW k \in Said(f, kind)
      PROVE  Means(f, k).data \in Seq(STRING \X Int) /\ Means(f, k).data # <<>>
  BY <1>1 DEF Meaningful, Kinds
<1>5. ASSUME NEW k \in Said(f, "bound")
      PROVE  /\ Means(f, k).type \in LowerTypes \union UpperTypes
             /\ Means(f, k).col \in ColumnsBefore(f, k) /\ Means(f, k).value \in Int
  BY <1>1 DEF Meaningful, Kinds
<1> QED
  BY <1>2, <1>3, <1>4, <1>5

\* The pairs of a kind are finitely many, each of a line that says them.
LEMMA DataFacts ==
    ASSUME NEW f \in Files, Understood(f), NEW kind \in {"entries", "rhs", "range"}
    PROVE  /\ IsFiniteSet(Data(f, kind))
           /\ \A d \in Data(f, kind) :
                 /\ d = <<d[1], d[2]>> /\ d[1] \in Said(f, kind) /\ d[1] \in Nat /\ d[2] \in Nat
                 /\ d[2] \in DOMAIN Means(f, d[1]).data
                 /\ RowOf(f, d) \in STRING /\ ValueOf(f, d) \in Int
           /\ \A k \in Said(f, kind) : \A j \in DOMAIN Means(f, k).data : <<k, j>> \in Data(f, kind)
<1>1. \A k \in Said(f, kind) : Means(f, k).data \in Seq(STRING \X Int)
  BY MeaningFacts
<1>2. \A k \in Said(f, kind) : DOMAIN Means(f, k).data = 1 .. Len(Means(f, k).data)
         /\ Len(Means(f, k).data) \in Nat
  BY <1>1
<1>3. IsFiniteSet(Data(f, kind))
  <2> DEFINE P(k) == {k} \X DOMAIN Means(f, k).data
             T == {P(k) : k \in Said(f, kind)}
             p == [k \in Said(f, kind) |-> P(k)]
  <2>1. p \in Surjection(Said(f, kind), T)
    BY DEF Surjection
  <2>2. IsFiniteSet(Said(f, kind))
    BY LinesFacts
  <2>3. IsFiniteSet(T)
    <3> HIDE DEF T, p
    <3> QED
      BY <2>1, <2>2, FS_Surjection
  <2>4. ASSUME NEW k \in Said(f, kind) PROVE IsFiniteSet(P(k))
    <3>1. IsFiniteSet(DOMAIN Means(f, k).data)
      BY <1>2, FS_Interval
    <3>2. IsFiniteSet({k})
      BY FS_Singleton
    <3> QED
      BY <3>1, <3>2, FS_Product
  <2>5. \A t \in T : IsFiniteSet(t)
    BY <2>4
  <2>6. Data(f, kind) = UNION T
    BY DEF Data
  <2> QED
    BY <2>3, <2>5, <2>6, FS_UNION
<1>4. ASSUME NEW d \in Data(f, kind)
      PROVE  d = <<d[1], d[2]>> /\ d[1] \in Said(f, kind) /\ d[2] \in DOMAIN Means(f, d[1]).data
  BY DEF Data
<1>5. ASSUME NEW d \in Data(f, kind)
      PROVE  d[1] \in Nat /\ d[2] \in Nat /\ RowOf(f, d) \in STRING /\ ValueOf(f, d) \in Int
  <2>1. d[1] \in Nat
    BY <1>4, LinesFacts
  <2>2. d[2] \in Nat
    BY <1>2, <1>4
  <2>3. Means(f, d[1]).data[d[2]] \in STRING \X Int
    BY <1>1, <1>4
  <2> QED
    BY <2>1, <2>2, <2>3 DEF RowOf, ValueOf
<1>6. \A k \in Said(f, kind) : \A j \in DOMAIN Means(f, k).data : <<k, j>> \in Data(f, kind)
  BY DEF Data
<1> QED
  BY <1>3, <1>4, <1>5, <1>6

------------------------------------------------------------------------------
(* The sections of a file come in their order.                             *)

\* How far into that order a line is.
Stage(f, k) == IF SectionOf(f, k) = None THEN 0 ELSE Order[SectionOf(f, k)]

\* The reader keeps the first six words of a line.
LEMMA FreeTokensFacts ==
    ASSUME NEW S, NEW line, line.free \in Seq(S)
    PROVE  /\ Len(line.free) <= 6 => FreeTokens(line) = line.free
           /\ line.free # <<>> => FreeTokens(line)[1] = line.free[1] /\ Len(FreeTokens(line)) > 0
           /\ Len(FreeTokens(line)) = 1 <=> Len(line.free) = 1
           /\ Len(line.free) > 1 => FreeTokens(line)[2] = line.free[2]
<1>1. PICK free \in Seq(S) : free = line.free
  OBVIOUS
<1>2. PICK s : s = {6, Len(free)}
  OBVIOUS
<1>3. s \in SUBSET Nat /\ s # {} /\ \A k \in s : k = 6 \/ k = Len(free)
  BY <1>2
<1>4. Min(s) \in s /\ \A y \in s : Min(s) <= y
  BY <1>3, MinFacts
<1>5. PICK k \in Nat : k = Min(s) /\ k <= Len(free) /\ k <= 6 /\ (k = 6 \/ k = Len(free))
  BY <1>2, <1>3, <1>4
<1>6. FreeTokens(line) = SubSeq(free, 1, k)
  BY <1>1, <1>2, <1>5 DEF FreeTokens
<1>7. Len(SubSeq(free, 1, k)) = k /\ \A i \in 1 .. k : SubSeq(free, 1, k)[i] = free[i]
  BY <1>5
<1>8. Len(free) <= 6 => SubSeq(free, 1, k) = free
  BY <1>5
<1>9. Len(free) \in Nat /\ (free # <<>> => Len(free) > 0)
  OBVIOUS
<1>10. PICK t : t = FreeTokens(line) /\ t = SubSeq(free, 1, k)
  BY <1>6
<1>11. Len(t) = k /\ \A i \in 1 .. k : t[i] = free[i]
  BY <1>7, <1>10
<1>12. Len(free) > 0 => k > 0 /\ t[1] = free[1]
  BY <1>5, <1>9, <1>11
<1>13. Len(free) > 1 => t[2] = free[2]
  BY <1>5, <1>9, <1>11
<1>14. k = 1 <=> Len(free) = 1
  <2>1. PICK n \in Nat : n = Len(free) /\ k \in Nat /\ k <= n /\ (k = 6 \/ k = n)
    BY <1>5, <1>9
  <2>2. k = 1 => n = 1
    BY <2>1
  <2>3. n = 1 => k = 1
    BY <2>1
  <2> QED
    BY <2>1, <2>2, <2>3
<1>15. free # <<>> => t[1] = free[1] /\ Len(t) > 0
  BY <1>9, <1>11, <1>12
<1>16. /\ Len(free) <= 6 => t = free
       /\ free # <<>> => t[1] = free[1] /\ Len(t) > 0
       /\ Len(t) = 1 <=> Len(free) = 1
       /\ Len(free) > 1 => t[2] = free[2]
  BY <1>8, <1>10, <1>11, <1>13, <1>14, <1>15
<1> QED
  BY ONLY <1>1, <1>10, <1>16

\* The section a header opens, and its place in the order.
LEMMA SectionsFacts ==
    ASSUME NEW f \in Files, NEW h \in Headers(f)
    PROVE  /\ Opened(f, h) \in DOMAIN Order /\ Opened(f, h) # None
           /\ Order[Opened(f, h)] \in 0 .. 6
           /\ Order[Opened(f, h)] = 0 <=> Opened(f, h) = "OBJSENSE"
           /\ Order[Opened(f, h)] = 1 <=> Opened(f, h) = "ROWS"
           /\ Order[Opened(f, h)] = 6 <=> Opened(f, h) = "ENDATA"
<1>1. FreeTokens(f.lines[h])[1] \in DOMAIN Sections /\ f.lines[h].free # <<>> /\ h \in DOMAIN f.lines
  BY DEF Headers, IsHeader
<1>2. f.lines[h].free[1] \in DOMAIN Sections
  <2>1. f.lines[h].free \in Seq(STRING)
    BY <1>1, LinesFacts
  <2>2. FreeTokens(f.lines[h])[1] = f.lines[h].free[1]
    BY <1>1, <2>1, FreeTokensFacts
  <2> QED
    BY <1>1, <2>2
<1>3. Opened(f, h) \in {"ROWS", "COLUMNS", "RHS", "RANGES", "BOUNDS", "OBJSENSE", "ENDATA"}
  BY <1>2 DEF Opened, Sections
<1>4. PICK o : o = Opened(f, h)
  OBVIOUS
<1>5. o \in {"ROWS", "COLUMNS", "RHS", "RANGES", "BOUNDS", "OBJSENSE", "ENDATA"}
  BY <1>3, <1>4
<1>6. o \in DOMAIN Order
  BY ONLY <1>5 DEF Order
<1>7. o # None
  BY ONLY <1>5 DEF None
<1>8. /\ Order[o] \in 0 .. 6
      /\ Order[o] = 0 <=> o = "OBJSENSE"
      /\ Order[o] = 1 <=> o = "ROWS"
      /\ Order[o] = 6 <=> o = "ENDATA"
  BY ONLY <1>5 DEF Order
<1> QED
  BY <1>4, <1>6, <1>7, <1>8

\* The section of a line was opened by the last header before it.
LEMMA SectionFacts ==
    ASSUME NEW f \in Files, NEW k \in Nat
    PROVE  \/ SectionOf(f, k) = None /\ Stage(f, k) = 0 /\ \A h \in Headers(f) : h >= k
           \/ \E h \in Headers(f) : /\ h < k /\ SectionOf(f, k) = Opened(f, h)
                                    /\ Stage(f, k) = Order[Opened(f, h)]
                                    /\ \A g \in Headers(f) : g < k => g <= h
<1>1. PICK T : T = {h \in Headers(f) : h < k}
  OBVIOUS
<1>2. Headers(f) \in SUBSET Nat /\ IsFiniteSet(Headers(f))
  BY LinesFacts
<1>3. T \in SUBSET Nat /\ IsFiniteSet(T)
  <2>1. T \in SUBSET Headers(f)
    BY <1>1
  <2>2. IsFiniteSet(T)
    BY ONLY <1>2, <2>1, FS_Subset
  <2> QED
    BY <1>2, <2>1, <2>2
<1>4. CASE T = {}
  <2>1. SectionOf(f, k) = None
    BY <1>1, <1>4 DEF SectionOf
  <2>2. \A h \in Headers(f) : h >= k
    BY <1>1, <1>2, <1>4
  <2> QED
    BY <2>1, <2>2 DEF Stage
<1>5. CASE T # {}
  <2>1. Max(T) \in T /\ \A j \in T : j <= Max(T)
    BY <1>3, <1>5, GreatestFacts
  <2>2. PICK h \in T : h = Max(T) /\ \A j \in T : j <= h
    BY <2>1
  <2>3. SectionOf(f, k) = Opened(f, h)
    BY <1>1, <1>5, <2>2 DEF SectionOf
  <2>4. h \in Headers(f) /\ h < k /\ \A g \in Headers(f) : g < k => g <= h
    BY <1>1, <2>2
  <2>5. Opened(f, h) # None
    BY <2>4, SectionsFacts
  <2>6. Stage(f, k) = Order[Opened(f, h)]
    BY <2>3, <2>5 DEF Stage
  <2> QED
    BY <2>3, <2>4, <2>6
<1> QED
  BY <1>4, <1>5

LEMMA StageRange ==
    ASSUME NEW f \in Files, NEW k \in Nat
    PROVE  Stage(f, k) \in 0 .. 6
<1>1. \A h \in Headers(f) : Order[Opened(f, h)] \in 0 .. 6
  BY SectionsFacts
<1>2. Stage(f, k) = 0 \/ \E h \in Headers(f) : Stage(f, k) = Order[Opened(f, h)]
  BY SectionFacts
<1> QED
  BY <1>1, <1>2

\* The line after a header is in the section it opens, the one after another
\* line where that one is.
LEMMA NextSection ==
    ASSUME NEW f \in Files, NEW k \in Nat
    PROVE  /\ k \in Headers(f) => SectionOf(f, k + 1) = Opened(f, k)
                                  /\ Stage(f, k + 1) = Order[Opened(f, k)]
           /\ k \notin Headers(f) => SectionOf(f, k + 1) = SectionOf(f, k)
                                     /\ Stage(f, k + 1) = Stage(f, k)
<1>1. Headers(f) \in SUBSET Nat
  BY LinesFacts
<1>2. ASSUME k \in Headers(f)
      PROVE  SectionOf(f, k + 1) = Opened(f, k) /\ Stage(f, k + 1) = Order[Opened(f, k)]
  <2>1. k + 1 \in Nat /\ k < k + 1 /\ ~(k >= k + 1)
    OBVIOUS
  <2>2. PICK h \in Headers(f) : /\ h < k + 1 /\ SectionOf(f, k + 1) = Opened(f, h)
                                /\ Stage(f, k + 1) = Order[Opened(f, h)]
                                /\ \A g \in Headers(f) : g < k + 1 => g <= h
    BY <1>2, <2>1, SectionFacts
  <2>3. h = k
    <3>1. h \in Nat /\ h < k + 1 /\ k <= h
      BY <1>1, <1>2, <2>1, <2>2
    <3> QED
      BY <3>1
  <2> QED
    BY <2>2, <2>3
<1>3. ASSUME k \notin Headers(f)
      PROVE  SectionOf(f, k + 1) = SectionOf(f, k) /\ Stage(f, k + 1) = Stage(f, k)
  <2>1. \A h \in Headers(f) : h < k + 1 <=> h < k
    BY <1>1, <1>3
  <2>2. {h \in Headers(f) : h < k + 1} = {h \in Headers(f) : h < k}
    BY ONLY <2>1
  <2>3. SectionOf(f, k + 1) = SectionOf(f, k)
    BY <2>2 DEF SectionOf
  <2> QED
    BY <2>3 DEF Stage
<1> QED
  BY <1>2, <1>3

\* A section is left behind by the headers before a line, and reached by those after.
LEMMA HeadersInOrder ==
    ASSUME NEW f \in Files, Understood(f), NEW k \in Nat, NEW h \in Headers(f)
    PROVE  /\ h < k => Order[Opened(f, h)] <= Stage(f, k)
           /\ h >= k => \/ Stage(f, k) < Order[Opened(f, h)]
                        \/ Stage(f, k) = 0
<1>1. \A g, j \in Headers(f) : g < j => \/ Order[Opened(f, g)] < Order[Opened(f, j)]
                                        \/ Opened(f, g) = "OBJSENSE" /\ Opened(f, j) = "OBJSENSE"
  BY DEF Understood, InSections
<1>2. \A g \in Headers(f) : Order[Opened(f, g)] \in Nat
                            /\ (Order[Opened(f, g)] = 0 <=> Opened(f, g) = "OBJSENSE")
  BY SectionsFacts
<1>3. Headers(f) \in SUBSET Nat
  BY LinesFacts
<1>4. CASE Stage(f, k) = 0 /\ \A g \in Headers(f) : g >= k
  <2>1. ~(h < k)
    BY <1>3, <1>4
  <2> QED
    BY <1>4, <2>1
<1>5. ASSUME NEW g \in Headers(f), g < k, Stage(f, k) = Order[Opened(f, g)],
             \A j \in Headers(f) : j < k => j <= g
      PROVE  /\ h < k => Order[Opened(f, h)] <= Stage(f, k)
             /\ h >= k => \/ Stage(f, k) < Order[Opened(f, h)]
                          \/ Stage(f, k) = 0
  <2>1. g \in Nat /\ h \in Nat
    BY <1>3
  <2>2. ASSUME h < k PROVE Order[Opened(f, h)] <= Stage(f, k)
    <3>1. h <= g
      BY <1>5, <2>2
    <3>2. CASE h = g
      BY <1>2, <1>5, <3>2
    <3>3. CASE h < g
      <4>1. \/ Order[Opened(f, h)] < Order[Opened(f, g)]
            \/ Opened(f, h) = "OBJSENSE" /\ Opened(f, g) = "OBJSENSE"
        BY <1>1, <3>3
      <4> QED
        BY <1>2, <1>5, <4>1
    <3> QED
      BY <2>1, <3>1, <3>2, <3>3
  <2>3. ASSUME h >= k PROVE Stage(f, k) < Order[Opened(f, h)] \/ Stage(f, k) = 0
    <3>1. g < h
      BY <1>5, <2>1, <2>3
    <3>2. \/ Order[Opened(f, g)] < Order[Opened(f, h)]
          \/ Opened(f, g) = "OBJSENSE" /\ Opened(f, h) = "OBJSENSE"
      BY <1>1, <3>1
    <3> QED
      BY <1>2, <1>5, <3>2
  <2> QED
    BY <2>2, <2>3
<1> QED
  BY <1>4, <1>5, SectionFacts

\* The stages never go back.
LEMMA StagesInOrder ==
    ASSUME NEW f \in Files, Understood(f), NEW j \in Nat, NEW k \in Nat, j <= k
    PROVE  Stage(f, j) <= Stage(f, k)
<1>1. Stage(f, j) \in Nat /\ Stage(f, k) \in Nat
  BY StageRange
<1>2. Headers(f) \in SUBSET Nat
  BY LinesFacts
<1>3. Stage(f, j) = 0 \/ \E h \in Headers(f) : h < j /\ Stage(f, j) = Order[Opened(f, h)]
  BY SectionFacts
<1>4. ASSUME NEW h \in Headers(f), h < j, Stage(f, j) = Order[Opened(f, h)]
      PROVE  Stage(f, j) <= Stage(f, k)
  <2>1. h < k
    BY <1>2, <1>4
  <2> QED
    BY <1>4, <2>1, HeadersInOrder
<1>5. CASE Stage(f, j) = 0
  BY <1>1, <1>5
<1> QED
  BY <1>3, <1>4, <1>5

Rung(kind) == Order[Part[kind]]

\* The lines of a kind come before and after those of the others.
LEMMA LinesInOrder ==
    ASSUME NEW f \in Files, Understood(f), NEW kind \in Kinds, NEW k \in Nat, NEW l \in Said(f, kind)
    PROVE  /\ Stage(f, l) = Rung(kind)
           /\ l < k => Rung(kind) <= Stage(f, k)
           /\ l >= k => Stage(f, k) <= Rung(kind)
<1>1. SectionOf(f, l) = Part[kind] /\ l \in Nat
  BY RecordFacts, LinesFacts
<1>2. Part[kind] # None
  <2>1. Part[kind] \in {"ROWS", "COLUMNS", "RHS", "RANGES", "BOUNDS"}
    BY DEF Kinds, Part
  <2> QED
    BY ONLY <2>1 DEF None
<1>3. Stage(f, l) = Rung(kind)
  BY <1>1, <1>2 DEF Stage, Rung
<1>4. l < k => l <= k
  BY <1>1
<1>5. l >= k => k <= l
  BY <1>1
<1> QED
  BY <1>1, <1>3, <1>4, <1>5, StagesInOrder

------------------------------------------------------------------------------
(* Lists of what lines declare, in the order of the lines.                 *)

\* seq lists the items of the lines in S.
Lists(seq, S, item) ==
    Len(seq) = Cardinality(S) /\ \A l \in S : seq[Rank(S, l)] = item[l]

LEMMA RankGrows ==
    ASSUME NEW S \in SUBSET Nat, IsFiniteSet(S), NEW k \in Nat, \A j \in S : j < k
    PROVE  /\ S \union {k} \in SUBSET Nat /\ IsFiniteSet(S \union {k}) /\ k \notin S
           /\ Cardinality(S \union {k}) = Cardinality(S) + 1
           /\ Rank(S \union {k}, k) = Cardinality(S) + 1
           /\ \A l \in S : Rank(S \union {k}, l) = Rank(S, l)
<1>1. k \notin S
  OBVIOUS
<1>2. IsFiniteSet(S \union {k}) /\ Cardinality(S \union {k}) = Cardinality(S) + 1
  BY <1>1, FS_AddElement
<1>3. \A j \in S \union {k} : j <= k
  OBVIOUS
<1>4. {j \in S \union {k} : j <= k} = S \union {k}
  BY ONLY <1>3
<1>5. ASSUME NEW l \in S PROVE Rank(S \union {k}, l) = Rank(S, l)
  <2>1. l \in Nat /\ l < k /\ ~(k <= l)
    OBVIOUS
  <2>2. {j \in S \union {k} : j <= l} = {j \in S : j <= l}
    BY ONLY <2>1
  <2> QED
    BY <2>2 DEF Rank
<1> QED
  BY <1>1, <1>2, <1>4, <1>5 DEF Rank

\* A list goes on with what the next line declares.
LEMMA ListsMore ==
    ASSUME NEW S \in SUBSET Nat, IsFiniteSet(S), NEW k \in Nat, \A j \in S : j < k,
           NEW T, NEW seq \in Seq(T), NEW item, item[k] \in T, Lists(seq, S, item)
    PROVE  Lists(Append(seq, item[k]), S \union {k}, item)
<1>1. /\ Cardinality(S \union {k}) = Cardinality(S) + 1
      /\ Rank(S \union {k}, k) = Cardinality(S) + 1
      /\ \A l \in S : Rank(S \union {k}, l) = Rank(S, l)
  BY RankGrows
<1>2. \A l \in S : Rank(S, l) \in 1 .. Cardinality(S)
  BY RankFacts
<1>3. Len(seq) = Cardinality(S) /\ \A l \in S : seq[Rank(S, l)] = item[l]
  BY DEF Lists
<1>4. PICK v \in T : v = item[k]
  OBVIOUS
<1>5. PICK s : s = Append(seq, v)
  OBVIOUS
<1>6. Len(s) = Len(seq) + 1 /\ s[Len(seq) + 1] = v /\ \A i \in 1 .. Len(seq) : s[i] = seq[i]
  BY <1>5
<1>7. \A l \in S : s[Rank(S, l)] = item[l]
  BY <1>2, <1>3, <1>6
<1>8. \A l \in S \union {k} : s[Rank(S \union {k}, l)] = item[l]
  <2>1. s[Rank(S \union {k}, k)] = item[k]
    BY <1>1, <1>3, <1>4, <1>6
  <2>2. \A l \in S : s[Rank(S \union {k}, l)] = item[l]
    BY <1>1, <1>7
  <2> QED
    BY <2>1, <2>2
<1>9. Len(s) = Cardinality(S \union {k})
  BY <1>1, <1>3, <1>6
<1> QED
  BY <1>4, <1>5, <1>8, <1>9 DEF Lists

\* A list holds what its lines declare, in their order.
LEMMA ListsSet ==
    ASSUME NEW S \in SUBSET Nat, IsFiniteSet(S), NEW T, NEW seq \in Seq(T), NEW item,
           Lists(seq, S, item)
    PROVE  /\ ToSet(seq) = {item[l] : l \in S}
           /\ DOMAIN seq = 1 .. Cardinality(S)
           /\ \A i \in DOMAIN seq : seq[i] = item[InOrder(S)[i]] /\ InOrder(S)[i] \in S
<1>1. Len(seq) = Cardinality(S) /\ \A l \in S : seq[Rank(S, l)] = item[l]
  BY DEF Lists
<1>2. DOMAIN seq = 1 .. Cardinality(S)
  BY <1>1
<1>3. \A l \in S : Rank(S, l) \in DOMAIN seq
  BY <1>2, RankFacts
<1>4. ASSUME NEW i \in DOMAIN seq PROVE seq[i] = item[InOrder(S)[i]] /\ InOrder(S)[i] \in S
  <2>1. i \in 1 .. Cardinality(S)
    BY <1>2
  <2>2. InOrder(S)[i] \in S /\ Rank(S, InOrder(S)[i]) = i
    BY <2>1, InOrderFacts
  <2> QED
    BY <1>1, <2>2
<1>5. ToSet(seq) = {item[l] : l \in S}
  <2>1. ToSet(seq) \subseteq {item[l] : l \in S}
    <3>1. \A i \in DOMAIN seq : \E l \in S : seq[i] = item[l]
      BY <1>4
    <3> QED
      BY ONLY <3>1 DEF ToSet
  <2>2. {item[l] : l \in S} \subseteq ToSet(seq)
    <3>1. \A l \in S : item[l] = seq[Rank(S, l)]
      BY <1>1
    <3>2. \A l \in S : item[l] \in ToSet(seq)
      BY ONLY <1>3, <3>1 DEF ToSet
    <3> QED
      BY ONLY <3>2
  <2> QED
    BY <2>1, <2>2
<1> QED
  BY <1>2, <1>4, <1>5

\* What has been heard of a kind when i data of line k have been.
HeardTo(f, kind, k, i) == {d \in Data(f, kind) : d[1] < k \/ (d[1] = k /\ d[2] <= i)}

\* The lines before the next one are those before this one, and perhaps this one.
LEMMA BeforeFacts ==
    ASSUME NEW f \in Files, NEW kind, NEW k \in Nat
    PROVE  /\ Before(f, kind, k) \in SUBSET Said(f, kind) /\ Before(f, kind, k) \in SUBSET Nat
           /\ IsFiniteSet(Before(f, kind, k)) /\ \A j \in Before(f, kind, k) : j < k
           /\ k \in Said(f, kind) => Before(f, kind, k + 1) = Before(f, kind, k) \union {k}
           /\ k \notin Said(f, kind) => Before(f, kind, k + 1) = Before(f, kind, k)
<1>1. Said(f, kind) \in SUBSET Nat /\ IsFiniteSet(Said(f, kind))
  BY LinesFacts
<1>2. Before(f, kind, k) \in SUBSET Said(f, kind) /\ \A j \in Before(f, kind, k) : j < k
  BY DEF Before
<1>3. IsFiniteSet(Before(f, kind, k))
  BY <1>1, <1>2, FS_Subset
<1>4. \A j \in Said(f, kind) : j < k + 1 <=> j < k \/ j = k
  BY <1>1
<1>5. k \in Said(f, kind) => Before(f, kind, k + 1) = Before(f, kind, k) \union {k}
  BY ONLY <1>4 DEF Before
<1>6. k \notin Said(f, kind) => Before(f, kind, k + 1) = Before(f, kind, k)
  BY ONLY <1>4 DEF Before
<1> QED
  BY <1>1, <1>2, <1>3, <1>5, <1>6

\* The pairs heard grow pair by pair within a line, and line by line.
LEMMA HeardFacts ==
    ASSUME NEW f \in Files, Understood(f), NEW kind \in {"entries", "rhs", "range"}, NEW k \in Nat
    PROVE  /\ \A i \in Nat : HeardTo(f, kind, k, i) \in SUBSET Data(f, kind)
                             /\ IsFiniteSet(HeardTo(f, kind, k, i))
           /\ Heard(f, kind, k) \in SUBSET Data(f, kind) /\ IsFiniteSet(Heard(f, kind, k))
           /\ k \notin Said(f, kind) => Heard(f, kind, k + 1) = Heard(f, kind, k)
           /\ k \in Said(f, kind) =>
                 /\ HeardTo(f, kind, k, 0) = Heard(f, kind, k)
                 /\ HeardTo(f, kind, k, Len(Means(f, k).data)) = Heard(f, kind, k + 1)
                 /\ \A i \in 1 .. Len(Means(f, k).data) :
                       /\ <<k, i>> \in Data(f, kind) /\ <<k, i>> \notin HeardTo(f, kind, k, i - 1)
                       /\ HeardTo(f, kind, k, i) = HeardTo(f, kind, k, i - 1) \union {<<k, i>>}
<1>1. /\ IsFiniteSet(Data(f, kind))
      /\ \A d \in Data(f, kind) :
            /\ d = <<d[1], d[2]>> /\ d[1] \in Said(f, kind) /\ d[1] \in Nat /\ d[2] \in Nat
            /\ d[2] \in DOMAIN Means(f, d[1]).data
      /\ \A l \in Said(f, kind) : \A j \in DOMAIN Means(f, l).data : <<l, j>> \in Data(f, kind)
  BY DataFacts
<1>2. \A i \in Nat : HeardTo(f, kind, k, i) \in SUBSET Data(f, kind)
  BY DEF HeardTo
<1>3. \A i \in Nat : IsFiniteSet(HeardTo(f, kind, k, i))
  BY <1>1, <1>2, FS_Subset
<1>4. Heard(f, kind, k) \in SUBSET Data(f, kind)
  BY DEF Heard
<1>5. IsFiniteSet(Heard(f, kind, k))
  BY <1>1, <1>4, FS_Subset
<1>6. ASSUME k \notin Said(f, kind) PROVE Heard(f, kind, k + 1) = Heard(f, kind, k)
  <2>1. \A d \in Data(f, kind) : d[1] < k + 1 <=> d[1] < k
    BY <1>1, <1>6
  <2> QED
    BY ONLY <2>1 DEF Heard
<1>7. ASSUME k \in Said(f, kind)
      PROVE  /\ HeardTo(f, kind, k, 0) = Heard(f, kind, k)
             /\ HeardTo(f, kind, k, Len(Means(f, k).data)) = Heard(f, kind, k + 1)
             /\ \A i \in 1 .. Len(Means(f, k).data) :
                   /\ <<k, i>> \in Data(f, kind) /\ <<k, i>> \notin HeardTo(f, kind, k, i - 1)
                   /\ HeardTo(f, kind, k, i) = HeardTo(f, kind, k, i - 1) \union {<<k, i>>}
  <2>1. PICK n \in Nat : n = Len(Means(f, k).data) /\ DOMAIN Means(f, k).data = 1 .. n
    <3>1. Means(f, k).data \in Seq(STRING \X Int)
      BY <1>7, MeaningFacts
    <3> QED
      BY <3>1
  <2>2. \A d \in Data(f, kind) : d[1] = k => d[2] \in 1 .. n
    BY <1>1, <2>1
  <2>3. \A d \in Data(f, kind) : ~(d[1] = k /\ d[2] <= 0)
    BY <2>2
  <2>4. \A d \in Data(f, kind) : d[1] < k + 1 <=> (d[1] < k \/ (d[1] = k /\ d[2] <= n))
    BY <1>1, <2>2
  <2>5. HeardTo(f, kind, k, 0) = Heard(f, kind, k)
    BY ONLY <2>3 DEF HeardTo, Heard
  <2>6. HeardTo(f, kind, k, n) = Heard(f, kind, k + 1)
    BY ONLY <2>4 DEF HeardTo, Heard
  <2>7. ASSUME NEW i \in 1 .. n
        PROVE  /\ <<k, i>> \in Data(f, kind) /\ <<k, i>> \notin HeardTo(f, kind, k, i - 1)
               /\ HeardTo(f, kind, k, i) = HeardTo(f, kind, k, i - 1) \union {<<k, i>>}
    <3>1. PICK e \in Data(f, kind) : e = <<k, i>> /\ e[1] = k /\ e[2] = i
      <4>1. i \in DOMAIN Means(f, k).data
        BY <2>1
      <4>2. <<k, i>> \in Data(f, kind)
        BY <1>1, <1>7, <4>1
      <4> QED
        BY <4>2
    <3>2. ~(k < k) /\ ~(i <= i - 1)
      BY <2>1
    <3>3. e \notin HeardTo(f, kind, k, i - 1)
      BY ONLY <3>1, <3>2 DEF HeardTo
    <3>4. \A d \in Data(f, kind) : d = e <=> (d[1] = k /\ d[2] = i)
      BY <1>1, <3>1
    <3>5. \A d \in Data(f, kind) : d[2] <= i <=> d[2] <= i - 1 \/ d[2] = i
      BY <1>1, <2>1
    <3>9. \A d \in Data(f, kind) :
             (d[1] < k \/ (d[1] = k /\ d[2] <= i)) <=> (d[1] < k \/ (d[1] = k /\ d[2] <= i - 1) \/ d = e)
      BY ONLY <3>4, <3>5
    <3>6. \A d \in Data(f, kind) : d \in HeardTo(f, kind, k, i) <=> d \in HeardTo(f, kind, k, i - 1) \/ d = e
      BY ONLY <3>9 DEF HeardTo
    <3>7. HeardTo(f, kind, k, i) \in SUBSET Data(f, kind) /\ HeardTo(f, kind, k, i - 1) \in SUBSET Data(f, kind)
      BY DEF HeardTo
    <3>8. HeardTo(f, kind, k, i) = HeardTo(f, kind, k, i - 1) \union {e}
      BY ONLY <3>1, <3>6, <3>7
    <3> QED
      BY <3>1, <3>3, <3>8
  <2> QED
    BY <2>1, <2>5, <2>6, <2>7
<1> QED
  BY <1>2, <1>3, <1>4, <1>5, <1>6, <1>7

------------------------------------------------------------------------------
(* What a state of the reader knows of the names of a file.                *)

\* The names of the rows: one objective, and none given twice.
LEMMA NamesFacts ==
    ASSUME NEW f \in Files, Understood(f)
    PROVE  /\ FreeRows(f) # {} /\ FreeRows(f) \in SUBSET Said(f, "row")
           /\ Min(FreeRows(f)) \in FreeRows(f)
           /\ \A l \in FreeRows(f) : Min(FreeRows(f)) <= l
           /\ ObjectiveRow(f) \in STRING /\ ObjectiveRow(f) # None
           /\ ObjectiveRow(f) \notin RowNames(f)
           /\ None \notin RowNames(f) /\ RowNames(f) \in SUBSET STRING
           /\ Constraints(f) \in SUBSET Said(f, "row") /\ Constraints(f) \in SUBSET Nat
           /\ IsFiniteSet(Constraints(f))
           /\ \A l \in Constraints(f) : Means(f, l).type \in {"L", "E", "G"}
           /\ \A j, l \in Said(f, "row") : Means(f, j).name = Means(f, l).name => j = l
<1>1. FreeRows(f) # {} /\ \A j, l \in Said(f, "row") : Means(f, j).name = Means(f, l).name => j = l
  BY DEF Understood
<1>2. FreeRows(f) \in SUBSET Said(f, "row") /\ \A l \in FreeRows(f) : Means(f, l).type = "N"
  BY DEF FreeRows
<1>3. \A l \in Said(f, "row") : Means(f, l).type \in {"N", "L", "E", "G"}
         /\ Means(f, l).name \in STRING /\ Means(f, l).name # None
  BY MeaningFacts
<1>4. Said(f, "row") \in SUBSET Nat /\ IsFiniteSet(Said(f, "row"))
  BY LinesFacts
<1>5. Min(FreeRows(f)) \in FreeRows(f) /\ \A l \in FreeRows(f) : Min(FreeRows(f)) <= l
  <2>1. FreeRows(f) \in SUBSET Nat
    BY <1>2, <1>4
  <2> QED
    BY <1>1, <2>1, MinFacts
<1>6. Constraints(f) \in SUBSET Said(f, "row")
  BY DEF Constraints
<1>7. IsFiniteSet(Constraints(f))
  BY <1>4, <1>6, FS_Subset
<1>8. \A l \in Constraints(f) : Means(f, l).type \in {"L", "E", "G"} /\ l \notin FreeRows(f)
  BY <1>3 DEF Constraints, FreeRows
<1>9. ObjectiveRow(f) \in STRING /\ ObjectiveRow(f) # None
  BY <1>2, <1>3, <1>5 DEF ObjectiveRow
<1>10. RowNames(f) \in SUBSET STRING /\ None \notin RowNames(f)
  BY <1>3, <1>6 DEF RowNames
<1>11. ObjectiveRow(f) \notin RowNames(f)
  <2>1. \A l \in Constraints(f) : Means(f, l).name # Means(f, Min(FreeRows(f))).name
    BY <1>1, <1>2, <1>5, <1>6, <1>8
  <2> QED
    BY <2>1 DEF RowNames, ObjectiveRow
<1> QED
  BY <1>1, <1>2, <1>4, <1>5, <1>6, <1>7, <1>8, <1>9, <1>10, <1>11

\* The names the reader has are those the lines before k declare.
Knows(f, k, t) ==
    /\ t.objRow = ObjectiveRow(f) /\ ToSet(t.rows) = RowNames(f)
    /\ ToSet(t.cols) = ColumnsBefore(f, k) /\ t.current = ColumnBefore(f, k)

LEMMA DeclaredKnows ==
    \A f, k : Knows(f, k, Declared(f, k))
<1> TAKE f, k
<1>1. ToSet([r \in RowNames(f) |-> r]) = RowNames(f)
  BY DEF ToSet
<1>2. ToSet([c \in ColumnsBefore(f, k) |-> c]) = ColumnsBefore(f, k)
  BY DEF ToSet
<1> QED
  BY <1>1, <1>2 DEF Knows, Declared

\* A record is as valid to one state as to another that knows the same names.
LEMMA SameRecords ==
    ASSUME NEW t, NEW u, t.objRow = u.objRow, ToSet(t.rows) = ToSet(u.rows),
           ToSet(t.cols) = ToSet(u.cols), t.current = u.current, NEW part, NEW tokens
    PROVE  /\ \A name : KnownRow(t, name) <=> KnownRow(u, name)
           /\ RowDataStart(t, tokens) = RowDataStart(u, tokens)
           /\ BoundColumn(t, tokens) = BoundColumn(u, tokens)
           /\ FreeRecordIsValid(part, t, tokens) <=> FreeRecordIsValid(part, u, tokens)
<1>1. \A name : KnownRow(t, name) <=> KnownRow(u, name)
  BY DEF KnownRow, Known
<1>2. RowDataStart(t, tokens) = RowDataStart(u, tokens)
  BY <1>1 DEF RowDataStart
<1>3. BoundColumn(t, tokens) = BoundColumn(u, tokens)
  BY DEF BoundColumn, Known
<1>4. \A start : ValidPairs(t, tokens, start) <=> ValidPairs(u, tokens, start)
  BY <1>1 DEF ValidPairs
<1>5. ValidFreeColumns(t, tokens) <=> ValidFreeColumns(u, tokens)
  BY <1>4 DEF ValidFreeColumns
<1>6. ValidFreeBound(t, tokens) <=> ValidFreeBound(u, tokens)
  BY <1>3 DEF ValidFreeBound
<1>7. FreeRecordIsValid(part, t, tokens) <=> FreeRecordIsValid(part, u, tokens)
  BY <1>2, <1>4, <1>5, <1>6 DEF FreeRecordIsValid
<1> QED
  BY <1>1, <1>2, <1>3, <1>7

\* A reader that knows the names takes a record as the text means it.
LEMMA KnowsFacts ==
    ASSUME NEW f \in Files, Understood(f), NEW k, NEW t, Knows(f, k, t)
    PROVE  /\ \A name : KnownRow(t, name) <=> NamesRow(f, name)
           /\ \A name : Known(t.cols, name) <=> name \in ColumnsBefore(f, k)
           /\ \A part, tokens : FreeRecordIsValid(part, t, tokens) <=>
                                   FreeRecordIsValid(part, Declared(f, k), tokens)
<1>1. ObjectiveRow(f) # None /\ None \notin RowNames(f)
  BY NamesFacts
<1>2. \A name : KnownRow(t, name) <=> NamesRow(f, name)
  BY <1>1 DEF KnownRow, Known, NamesRow, Knows
<1>3. \A name : Known(t.cols, name) <=> name \in ColumnsBefore(f, k)
  BY DEF Known, Knows
<1>4. Knows(f, k, Declared(f, k))
  BY DeclaredKnows
<1>5. PICK u : u = Declared(f, k)
  OBVIOUS
<1>6. t.objRow = u.objRow /\ ToSet(t.rows) = ToSet(u.rows) /\ ToSet(t.cols) = ToSet(u.cols)
      /\ t.current = u.current
  BY <1>4, <1>5 DEF Knows
<1>7. \A part, tokens : FreeRecordIsValid(part, t, tokens) <=> FreeRecordIsValid(part, u, tokens)
  BY <1>6, SameRecords
<1> QED
  BY <1>2, <1>3, <1>5, <1>7

\* What the reader makes of a line that begins like fixed columns, or not.
LEMMA InColumnsReading ==
    ASSUME NEW f, NEW k, InColumns(f, k), section = SectionOf(f, k), NEW t
    PROVE  /\ section = "ROWS" =>
                TokenizeFixedRecord(t, f.lines[k]) = FixedRow(f.lines[k]) /\ f.lines[k].stray = {}
           /\ section = "COLUMNS" =>
                TokenizeFixedRecord(t, f.lines[k]) = FixedColumns(t, f.lines[k].fixed)
           /\ section \in {"RHS", "RANGES"} =>
                TokenizeFixedRecord(t, f.lines[k]) = FixedPairs(t, f.lines[k].fixed)
           /\ section = "BOUNDS" =>
                TokenizeFixedRecord(t, f.lines[k]) = FixedBounds(t, f.lines[k].fixed)
<1>1. /\ f.lines[k].fixed # <<>>
      /\ section = "ROWS" => f.lines[k].stray = {}
      /\ section \in {"COLUMNS", "RHS", "RANGES"} => Indented(f.lines[k])
  BY DEF InColumns
<1> QED
  BY <1>1, FixedReading

LEMMA OutOfColumns ==
    ASSUME NEW f, NEW k, section = SectionOf(f, k), ~InColumns(f, k), NEW t
    PROVE  TokenizeFixedRecord(t, f.lines[k]) = <<>>
<1> DEFINE line == f.lines[k]
<1>1. \/ line.fixed = <<>>
      \/ section = "ROWS" /\ line.stray # {}
      \/ section \in {"COLUMNS", "RHS", "RANGES"} /\ ~Indented(line)
  BY DEF InColumns
<1>2. line.stray # {} => FixedRow(line) = <<>>
  BY DEF FixedRow
<1> QED
  BY <1>1, <1>2, FixedReading

\* The words the reader takes a clear line as.
LEMMA ClearTokens ==
    ASSUME NEW f \in Files, NEW k \in DOMAIN f.lines, Clear(f, k), section = SectionOf(f, k), NEW t,
           FreeRecordIsValid(section, t, FreeTokens(f.lines[k])) <=>
              FreeRecordIsValid(section, Declared(f, k), FreeTokens(f.lines[k]))
    PROVE  \/ FreeSays(f, k) /\ Tokens(t, f.lines[k]) = f.lines[k].free
           \/ FixedSays(f, k) /\ (TokenizeFixedRecord(t, f.lines[k]) # <<>> =>
                                     Tokens(t, f.lines[k]) = TokenizeFixedRecord(t, f.lines[k]))
<1> DEFINE line == f.lines[k]
<1>1. line.free \in Seq(STRING)
  BY LinesFacts
<1>2. CASE FreeSays(f, k) /\ (~InColumns(f, k) \/ FreeRecordIsValid(section, Declared(f, k), FreeTokens(line)))
  <2>1. FreeTokens(line) = line.free
    BY <1>1, <1>2, FreeTokensFacts DEF FreeSays
  <2>2. ~InColumns(f, k) => TokenizeFixedRecord(t, line) = <<>>
    BY OutOfColumns
  <2>3. Tokens(t, line) = FreeTokens(line)
    BY <1>2, <2>2 DEF Tokens
  <2> QED
    BY <1>2, <2>1, <2>3
<1>3. CASE FixedSays(f, k) /\ ~FreeRecordIsValid(section, Declared(f, k), FreeTokens(line))
  BY <1>3 DEF Tokens
<1> QED
  BY <1>2, <1>3 DEF Clear

------------------------------------------------------------------------------
(* The words of a record in fixed columns.                                 *)

Kept(t, field) == IF field = None THEN t ELSE Append(t, field)

LEMMA KeptFacts ==
    ASSUME NEW S, NEW t \in Seq(S), NEW field \in S
    PROVE  /\ Kept(t, field) \in Seq(S)
           /\ field = None => Kept(t, field) = t
           /\ field # None => /\ Len(Kept(t, field)) = Len(t) + 1 /\ Kept(t, field)[Len(t) + 1] = field
                              /\ \A i \in 1 .. Len(t) : Kept(t, field)[i] = t[i]
<1>1. Append(t, field) \in Seq(S) /\ Len(Append(t, field)) = Len(t) + 1
      /\ Append(t, field)[Len(t) + 1] = field /\ \A i \in 1 .. Len(t) : Append(t, field)[i] = t[i]
  OBVIOUS
<1> QED
  BY <1>1 DEF Kept

LEMMA KeptOne ==
    ASSUME NEW S, NEW seq \in Seq(S), Len(seq) = 1
    PROVE  Nonblank(seq) = Kept(<<>>, seq[1])
<1>1. DOMAIN seq = 1 .. 1
  OBVIOUS
<1>2. Passes(1, <<>>, "field", seq, 0, Nonblank(seq))
  BY <1>1, FieldsPass
<1>3. PICK g : /\ g[0] = <<>> /\ g[1] = Nonblank(seq)
               /\ \A i \in 1 .. 1 : g[i] = FoldStep("field", seq, 0, g[i - 1], i)
  BY ONLY <1>2 DEF Passes
<1>4. g[1] = FoldStep("field", seq, 0, g[1 - 1], 1) /\ 1 - 1 = 0
  BY <1>3
<1>5. g[1] = Kept(g[0], seq[1])
  BY <1>4 DEF FoldStep, Kept
<1> QED
  BY <1>3, <1>5

LEMMA KeptSome ==
    ASSUME NEW S, NEW n \in {4, 5}, NEW seq \in Seq(S), Len(seq) = n
    PROVE  \E g : /\ g[0] = <<>> /\ g[n] = Nonblank(seq)
                  /\ \A i \in 1 .. n : g[i] = Kept(g[i - 1], seq[i])
<1>1. DOMAIN seq = 1 .. n /\ n \in Nat
  OBVIOUS
<1>2. Passes(n, <<>>, "field", seq, 0, Nonblank(seq))
  BY <1>1, FieldsPass
<1>3. PICK g : /\ g[0] = <<>> /\ g[n] = Nonblank(seq)
               /\ \A i \in 1 .. n : g[i] = FoldStep("field", seq, 0, g[i - 1], i)
  BY ONLY <1>2 DEF Passes
<1>4. \A i \in 1 .. n : g[i] = Kept(g[i - 1], seq[i])
  BY <1>3 DEF FoldStep, Kept
<1> QED
  BY <1>3, <1>4

\* Which words remain of fields 2 to 6.
LEMMA KeptWords ==
    ASSUME NEW S, NEW seq \in Seq(S), Len(seq) = 5, seq[2] # None, seq[3] # None,
           NEW w, w = Nonblank(seq)
    PROVE  /\ w \in Seq(S)
           /\ seq[1] = None /\ seq[4] = None /\ seq[5] = None =>
                 Len(w) = 2 /\ w[1] = seq[2] /\ w[2] = seq[3]
           /\ seq[1] # None /\ seq[4] = None /\ seq[5] = None =>
                 Len(w) = 3 /\ w[1] = seq[1] /\ w[2] = seq[2] /\ w[3] = seq[3]
           /\ seq[1] = None /\ seq[4] # None /\ seq[5] # None =>
                 Len(w) = 4 /\ w[1] = seq[2] /\ w[2] = seq[3] /\ w[3] = seq[4] /\ w[4] = seq[5]
           /\ seq[1] # None /\ seq[4] # None /\ seq[5] # None =>
                 Len(w) = 5 /\ w[1] = seq[1] /\ w[2] = seq[2] /\ w[3] = seq[3] /\ w[4] = seq[4]
                 /\ w[5] = seq[5]
<1>1. PICK g : g[0] = <<>> /\ g[5] = w /\ \A i \in 1 .. 5 : g[i] = Kept(g[i - 1], seq[i])
  <2>1. 5 \in {4, 5} /\ seq \in Seq(S) /\ Len(seq) = 5
    OBVIOUS
  <2>2. \E g : g[0] = <<>> /\ g[5] = Nonblank(seq) /\ \A i \in 1 .. 5 : g[i] = Kept(g[i - 1], seq[i])
    BY ONLY <2>1, KeptSome
  <2> QED
    BY <2>2
<1>2. PICK a, b, c, d, e :
         /\ a = seq[1] /\ b = seq[2] /\ c = seq[3] /\ d = seq[4] /\ e = seq[5]
         /\ a \in S /\ b \in S /\ c \in S /\ d \in S /\ e \in S
  <2>1. seq[1] \in S /\ seq[2] \in S /\ seq[3] \in S /\ seq[4] \in S /\ seq[5] \in S
    OBVIOUS
  <2> QED
    BY <2>1
<1>3. PICK g0, g1, g2, g3, g4 :
         /\ g0 = <<>> /\ g1 = Kept(g0, a) /\ g2 = Kept(g1, b) /\ g3 = Kept(g2, c) /\ g4 = Kept(g3, d)
         /\ w = Kept(g4, e)
  <2>1. g[1] = Kept(g[1 - 1], seq[1]) /\ g[2] = Kept(g[2 - 1], seq[2])
        /\ g[3] = Kept(g[3 - 1], seq[3]) /\ g[4] = Kept(g[4 - 1], seq[4])
        /\ g[5] = Kept(g[5 - 1], seq[5])
    BY <1>1
  <2>2. g[1] = Kept(g[0], a) /\ g[2] = Kept(g[1], b) /\ g[3] = Kept(g[2], c) /\ g[4] = Kept(g[3], d)
        /\ g[5] = Kept(g[4], e)
    BY <1>2, <2>1
  <2> QED
    BY ONLY <1>1, <2>2
<1>4. g0 \in Seq(S) /\ Len(g0) = 0
  BY <1>3
<1>5. PICK m \in {0, 1} : /\ g1 \in Seq(S) /\ Len(g1) = m
                          /\ a = None => m = 0
                          /\ a # None => m = 1 /\ g1[1] = a
  <2>1. /\ g1 \in Seq(S)
        /\ a = None => g1 = g0
        /\ a # None => Len(g1) = Len(g0) + 1 /\ g1[Len(g0) + 1] = a
    <3>1. g0 \in Seq(S) /\ a \in S /\ g1 = Kept(g0, a)
      BY <1>2, <1>3, <1>4
    <3>2. a = None => g1 = g0
      BY ONLY <3>1 DEF Kept
    <3>3. a # None => g1 = Append(g0, a)
      BY ONLY <3>1 DEF Kept
    <3> QED
      BY ONLY <3>1, <3>2, <3>3
  <2>2. a = None => Len(g1) = 0
    BY ONLY <1>4, <2>1
  <2>3. a # None => Len(g1) = 1 /\ g1[1] = a
    BY ONLY <1>4, <2>1
  <2> QED
    BY ONLY <2>1, <2>2, <2>3
<1>6. /\ g2 \in Seq(S) /\ Len(g2) = m + 1 /\ g2[m + 1] = b
      /\ m = 1 => g2[1] = g1[1]
  <2>1. /\ g2 \in Seq(S)
        /\ Len(g2) = Len(g1) + 1 /\ g2[Len(g1) + 1] = b
        /\ \A i \in 1 .. Len(g1) : g2[i] = g1[i]
    <3>1. g1 \in Seq(S) /\ b \in S /\ g2 = Kept(g1, b) /\ b # None
      BY <1>2, <1>3, <1>5
    <3>2. g2 = Append(g1, b)
      BY ONLY <3>1 DEF Kept
    <3> QED
      BY ONLY <3>1, <3>2
  <2> QED
    BY ONLY <1>5, <2>1
<1>7. /\ g3 \in Seq(S) /\ Len(g3) = m + 2 /\ g3[m + 1] = b /\ g3[m + 2] = c
      /\ m = 1 => g3[1] = g1[1]
  <2>1. /\ g3 \in Seq(S)
        /\ Len(g3) = Len(g2) + 1 /\ g3[Len(g2) + 1] = c
        /\ \A i \in 1 .. Len(g2) : g3[i] = g2[i]
    <3>1. g2 \in Seq(S) /\ c \in S /\ g3 = Kept(g2, c) /\ c # None
      BY <1>2, <1>3, <1>6
    <3>2. g3 = Append(g2, c)
      BY ONLY <3>1 DEF Kept
    <3> QED
      BY ONLY <3>1, <3>2
  <2>2. m \in Nat /\ (m + 1) + 1 = m + 2
    BY ONLY m \in {0, 1}
  <2>3. Len(g3) = m + 2 /\ g3[m + 2] = c
    BY ONLY <1>6, <2>1, <2>2
  <2>4. \A i \in 1 .. m + 1 : g3[i] = g2[i]
    BY ONLY <1>6, <2>1
  <2>5. g3[m + 1] = b
    BY ONLY <1>6, <2>2, <2>4
  <2>6. m = 1 => g3[1] = g1[1]
    BY ONLY <1>6, <2>2, <2>4
  <2> QED
    BY ONLY <2>1, <2>3, <2>5, <2>6
<1>8. CASE d = None /\ e = None
  <2>2. g4 = g3 /\ w = g4
    BY ONLY <1>3, <1>8 DEF Kept
  <2>3. w \in Seq(S) /\ Len(w) = m + 2 /\ w[m + 1] = b /\ w[m + 2] = c /\ (m = 1 => w[1] = g1[1])
    BY ONLY <1>7, <2>2
  <2>4. m = 0 => Len(w) = 2 /\ w[1] = b /\ w[2] = c
    BY ONLY <2>3
  <2>5. m = 1 => Len(w) = 3 /\ w[1] = g1[1] /\ w[2] = b /\ w[3] = c
    BY ONLY <2>3
  <2> QED
    BY ONLY <1>2, <1>5, <1>8, <2>3, <2>4, <2>5
<1>9. CASE d # None /\ e # None
  <2>2. /\ g4 \in Seq(S)
        /\ Len(g4) = Len(g3) + 1 /\ g4[Len(g3) + 1] = d
        /\ \A i \in 1 .. Len(g3) : g4[i] = g3[i]
    <3>1. g3 \in Seq(S) /\ d \in S /\ g4 = Kept(g3, d) /\ d # None
      BY <1>2, <1>3, <1>7, <1>9
    <3>2. g4 = Append(g3, d)
      BY ONLY <3>1 DEF Kept
    <3> QED
      BY ONLY <3>1, <3>2
  <2>3. /\ w \in Seq(S)
        /\ Len(w) = Len(g4) + 1 /\ w[Len(g4) + 1] = e
        /\ \A i \in 1 .. Len(g4) : w[i] = g4[i]
    <3>1. g4 \in Seq(S) /\ e \in S /\ w = Kept(g4, e) /\ e # None
      BY <1>2, <1>3, <1>9, <2>2
    <3>2. w = Append(g4, e)
      BY ONLY <3>1 DEF Kept
    <3> QED
      BY ONLY <3>1, <3>2
  <2>4. CASE m = 0
    <3>1. Len(g3) = 2 /\ g3[1] = b /\ g3[2] = c
      BY ONLY <1>7, <2>4
    <3>2. Len(g4) = 3 /\ g4[1] = b /\ g4[2] = c /\ g4[3] = d
      BY ONLY <2>2, <3>1
    <3>3. Len(w) = 4 /\ w[1] = b /\ w[2] = c /\ w[3] = d /\ w[4] = e
      BY ONLY <2>3, <3>2
    <3> QED
      BY ONLY <1>2, <1>5, <1>9, <2>3, <2>4, <3>3
  <2>5. CASE m = 1
    <3>1. Len(g3) = 3 /\ g3[1] = g1[1] /\ g3[2] = b /\ g3[3] = c
      BY ONLY <1>7, <2>5
    <3>2. Len(g4) = 4 /\ g4[1] = g1[1] /\ g4[2] = b /\ g4[3] = c /\ g4[4] = d
      BY ONLY <2>2, <3>1
    <3>3. Len(w) = 5 /\ w[1] = g1[1] /\ w[2] = b /\ w[3] = c /\ w[4] = d /\ w[5] = e
      BY ONLY <2>3, <3>2
    <3> QED
      BY ONLY <1>2, <1>5, <1>9, <2>3, <2>5, <3>3
  <2> QED
    BY <2>4, <2>5
<1>10. w \in Seq(S)
  <2>1. m + 2 \in Nat
    OBVIOUS
  <2>2. g4 \in Seq(S)
    BY ONLY <1>2, <1>3, <1>7, <2>1, KeptFacts
  <2> QED
    BY ONLY <1>2, <1>3, <2>2, KeptFacts
<1> QED
  BY <1>2, <1>8, <1>9, <1>10

\* A record of pairs in fixed columns, with or without a name before them.
LEMMA FixedPairsFacts ==
    ASSUME NEW f \in Files, Understood(f), NEW k, NEW t, Knows(f, k, t),
           NEW S, NEW fields \in Seq(S), Len(fields) = 6,
           NEW T, NEW data \in Seq(T), FieldPairs(f, fields, data)
    PROVE  /\ FixedPairs(t, fields) # <<>>
           /\ fields[2] = None => ListPairs(FixedPairs(t, fields), 0, data)
           /\ fields[2] # None => FixedPairs(t, fields)[1] = fields[2]
                                  /\ ListPairs(FixedPairs(t, fields), 1, data)
<1>1. /\ Len(data) \in {1, 2}
      /\ \A i \in DOMAIN data : NamesRow(f, data[i][1])
      /\ fields[3] = data[1][1] /\ Numeral(fields[4], data[1][2])
      /\ IF Len(data) = 1 THEN fields[5] = None /\ fields[6] = None
         ELSE fields[5] = data[2][1] /\ Numeral(fields[6], data[2][2])
  BY DEF FieldPairs
<1>2. PICK a \in S, b \in S, c \in S, d \in S, e \in S :
         a = fields[2] /\ b = fields[3] /\ c = fields[4] /\ d = fields[5] /\ e = fields[6]
  <2>1. fields[2] \in S /\ fields[3] \in S /\ fields[4] \in S /\ fields[5] \in S /\ fields[6] \in S
    BY SixFields
  <2> QED
    BY <2>1
<1>3. PICK seq \in Seq(S) : /\ seq = SubSeq(fields, 2, 6) /\ Len(seq) = 5
                                 /\ seq[1] = a /\ seq[2] = b /\ seq[3] = c /\ seq[4] = d /\ seq[5] = e
  <2>1. SubSeq(fields, 2, 6) \in Seq(S)
    <3>1. 2 \in Nat \ {0} /\ 6 \in Nat /\ 6 <= Len(fields)
      OBVIOUS
    <3> QED
      BY <3>1, SubSeqFacts
  <2>2. Len(SubSeq(fields, 2, 6)) = 5
        /\ \A i \in 1 .. 5 : SubSeq(fields, 2, 6)[i] = fields[i + 1]
    OBVIOUS
  <2>3. PICK seq \in Seq(S) : /\ seq = SubSeq(fields, 2, 6) /\ Len(seq) = 5
                               /\ \A i \in 1 .. 5 : seq[i] = fields[i + 1]
    BY <2>1, <2>2
  <2>4. seq[1] = fields[2] /\ seq[2] = fields[3] /\ seq[3] = fields[4] /\ seq[4] = fields[5]
        /\ seq[5] = fields[6]
    BY <2>3
  <2> QED
    BY <1>2, <2>3, <2>4
<1>4. NamesRow(f, b) /\ b # None
  <2>1. 1 \in DOMAIN data
    BY <1>1
  <2>2. NamesRow(f, b)
    BY <1>1, <1>2, <2>1
  <2> QED
    BY <2>2, NamesFacts DEF NamesRow
<1>5. Numeric(c) /\ c # None
  <2>1. Numeric(c)
    BY <1>1, <1>2 DEF Numeral
  <2> QED
    BY <2>1, TokensAssumption DEF Numeric, None
<1>6. \/ Len(data) = 1 /\ d = None /\ e = None
      \/ Len(data) = 2 /\ NamesRow(f, d) /\ d # None /\ Numeric(e) /\ e # None
  <2>1. CASE Len(data) = 1
    BY <1>1, <1>2, <2>1
  <2>2. CASE Len(data) = 2
    <3>1. 2 \in DOMAIN data
      BY <2>2
    <3>2. NamesRow(f, d) /\ Numeric(e)
      BY <1>1, <1>2, <2>2, <3>1 DEF Numeral
    <3>3. d # None
      BY <3>2, NamesFacts DEF NamesRow
    <3>4. e # None
      BY <3>2, TokensAssumption DEF Numeric, None
    <3> QED
      BY <2>2, <3>2, <3>3, <3>4
  <2> QED
    BY <1>1, <2>1, <2>2
<1>7. \A name : KnownRow(t, name) <=> NamesRow(f, name)
  BY KnowsFacts
<1>8. PICK w : w = FixedPairs(t, fields) /\ w = Nonblank(seq)
  BY <1>1, <1>2, <1>3, <1>4, <1>5, <1>6, <1>7 DEF FixedPairs
<1>9. /\ w \in Seq(S)
      /\ a = None /\ d = None /\ e = None => Len(w) = 2 /\ w[1] = b /\ w[2] = c
      /\ a # None /\ d = None /\ e = None => Len(w) = 3 /\ w[1] = a /\ w[2] = b /\ w[3] = c
      /\ a = None /\ d # None /\ e # None =>
            Len(w) = 4 /\ w[1] = b /\ w[2] = c /\ w[3] = d /\ w[4] = e
      /\ a # None /\ d # None /\ e # None =>
            Len(w) = 5 /\ w[1] = a /\ w[2] = b /\ w[3] = c /\ w[4] = d /\ w[5] = e
  <2>1. seq \in Seq(S) /\ Len(seq) = 5 /\ seq[2] # None /\ seq[3] # None
    BY <1>3, <1>4, <1>5
  <2>2. /\ w \in Seq(S)
        /\ seq[1] = None /\ seq[4] = None /\ seq[5] = None =>
              Len(w) = 2 /\ w[1] = seq[2] /\ w[2] = seq[3]
        /\ seq[1] # None /\ seq[4] = None /\ seq[5] = None =>
              Len(w) = 3 /\ w[1] = seq[1] /\ w[2] = seq[2] /\ w[3] = seq[3]
        /\ seq[1] = None /\ seq[4] # None /\ seq[5] # None =>
              Len(w) = 4 /\ w[1] = seq[2] /\ w[2] = seq[3] /\ w[3] = seq[4] /\ w[4] = seq[5]
        /\ seq[1] # None /\ seq[4] # None /\ seq[5] # None =>
              Len(w) = 5 /\ w[1] = seq[1] /\ w[2] = seq[2] /\ w[3] = seq[3] /\ w[4] = seq[4]
              /\ w[5] = seq[5]
    BY ONLY <1>8, <2>1, KeptWords
  <2> QED
    BY ONLY <1>3, <2>2
<1>10. w # <<>>
  <2>1. Len(w) # 0
    BY <1>6, <1>9
  <2>2. Len(<<>>) = 0
    OBVIOUS
  <2> QED
    BY ONLY <2>1, <2>2
<1>14. CASE Len(data) = 1 /\ d = None /\ e = None
  <2>1. DOMAIN data = {1} /\ b = data[1][1] /\ Numeral(c, data[1][2])
    BY <1>1, <1>2, <1>14
  <2>3. ASSUME a = None PROVE ListPairs(w, 0, data)
    <3>1. Len(w) = 0 + 2 * Len(data) /\ w[0 + 2 * 1 - 1] = b /\ w[0 + 2 * 1] = c
      BY ONLY <1>9, <1>14, <2>3
    <3> QED
      BY ONLY <2>1, <3>1 DEF ListPairs
  <2>4. ASSUME a # None PROVE w[1] = a /\ ListPairs(w, 1, data)
    <3>1. Len(w) = 1 + 2 * Len(data) /\ w[1 + 2 * 1 - 1] = b /\ w[1 + 2 * 1] = c /\ w[1] = a
      BY ONLY <1>9, <1>14, <2>4
    <3> QED
      BY ONLY <2>1, <3>1 DEF ListPairs
  <2> QED
    BY <1>2, <1>8, <1>10, <2>3, <2>4
<1>15. CASE Len(data) = 2 /\ d # None /\ e # None
  <2>1. DOMAIN data = {1, 2} /\ b = data[1][1] /\ Numeral(c, data[1][2])
        /\ d = data[2][1] /\ Numeral(e, data[2][2])
    BY <1>1, <1>2, <1>15
  <2>4. ASSUME a = None PROVE ListPairs(w, 0, data)
    <3>3. Len(w) = 0 + 2 * Len(data) /\ w[0 + 2 * 1 - 1] = b /\ w[0 + 2 * 1] = c
          /\ w[0 + 2 * 2 - 1] = d /\ w[0 + 2 * 2] = e
      BY ONLY <1>9, <1>15, <2>4
    <3> QED
      BY ONLY <2>1, <3>3 DEF ListPairs
  <2>5. ASSUME a # None PROVE w[1] = a /\ ListPairs(w, 1, data)
    <3>3. Len(w) = 1 + 2 * Len(data) /\ w[1 + 2 * 1 - 1] = b /\ w[1 + 2 * 1] = c
          /\ w[1 + 2 * 2 - 1] = d /\ w[1 + 2 * 2] = e /\ w[1] = a
      BY ONLY <1>9, <1>15, <2>5
    <3> QED
      BY ONLY <2>1, <3>3 DEF ListPairs
  <2> QED
    BY <1>2, <1>8, <1>10, <2>4, <2>5
<1> QED
  BY <1>6, <1>14, <1>15

------------------------------------------------------------------------------
(* What the reader takes each kind of record as: its words.                *)

\* The words of a bound with its column at `at`, and of a record of pairs.
BoundWords(w, at, m) ==
    /\ at <= Len(w) /\ w[1] = m.type /\ w[at] = m.col
    /\ (IF at < Len(w) THEN Value(w[at + 1]) ELSE 0) = m.value

LEMMA NotEmpty ==
    ASSUME NEW s, Len(s) # 0
    PROVE  s # <<>>
<1>1. Len(<<>>) = 0
  OBVIOUS
<1> QED
  BY <1>1

LEMMA LastFour ==
    ASSUME NEW S, NEW fields \in Seq(S), Len(fields) = 6
    PROVE  /\ SubSeq(fields, 3, 6) \in Seq(S) /\ Len(SubSeq(fields, 3, 6)) = 4
           /\ \A i \in 1 .. 4 : SubSeq(fields, 3, 6)[i] = fields[i + 2]
<1>1. SubSeq(fields, 3, 6) \in Seq(S)
  <2>1. 3 \in Nat \ {0} /\ 6 \in Nat /\ 6 <= Len(fields)
    OBVIOUS
  <2> QED
    BY <2>1, SubSeqFacts
<1>2. Len(SubSeq(fields, 3, 6)) = 4
      /\ \A i \in 1 .. 4 : SubSeq(fields, 3, 6)[i] = fields[i + 2]
  OBVIOUS
<1> QED
  BY <1>1, <1>2

LEMMA SaidIs ==
    ASSUME NEW f \in Files, Understood(f), NEW kind \in Kinds, NEW k \in Said(f, kind)
    PROVE  /\ k \in DOMAIN f.lines /\ Means(f, k).is = kind /\ Clear(f, k)
           /\ SectionOf(f, k) = Part[kind]
           /\ f.lines[k].free \in Seq(STRING) /\ f.lines[k].fixed \in Seq(STRING)
  BY RecordFacts, LinesFacts

\* The words a row is read as are its type and its name.
LEMMA RowWords ==
    ASSUME NEW f \in Files, Understood(f), NEW k \in Said(f, "row"), section = SectionOf(f, k),
           NEW t, NEW w, w = Tokens(t, f.lines[k])
    PROVE  Len(w) >= 2 /\ Initial(w[1]) = Means(f, k).type /\ w[2] = Means(f, k).name
<1>1. /\ k \in DOMAIN f.lines /\ Means(f, k).is = "row" /\ Clear(f, k)
      /\ f.lines[k].free \in Seq(STRING) /\ section = "ROWS"
  BY SaidIs DEF Kinds, Part
<1>2. PICK line, fields, m : line = f.lines[k] /\ fields = line.fixed /\ m = Means(f, k)
  OBVIOUS
<1>3. \/ FreeSays(f, k) /\ w = line.free
      \/ FixedSays(f, k) /\ (TokenizeFixedRecord(t, line) # <<>> => w = TokenizeFixedRecord(t, line))
  <2>1. FreeRecordIsValid(section, t, FreeTokens(line)) <=>
              FreeRecordIsValid(section, Declared(f, k), FreeTokens(line))
    BY <1>1 DEF FreeRecordIsValid
  <2> QED
    BY <1>1, <1>2, <2>1, ClearTokens
<1>4. CASE FreeSays(f, k) /\ w = line.free
  BY <1>1, <1>2, <1>4 DEF FreeSays
<1>5. CASE FixedSays(f, k) /\ (TokenizeFixedRecord(t, line) # <<>> => w = TokenizeFixedRecord(t, line))
  <2>1. m.type \in {"N", "L", "E", "G"} /\ m.name # None
    BY <1>2, MeaningFacts
  <2>2. fields = <<m.type, m.name, None, None, None, None>>
    BY <1>1, <1>2, <1>5 DEF FixedSays
  <2>3. fields[1] = m.type /\ fields[2] = m.name /\ fields[3] = None /\ fields[4] = None
        /\ fields[5] = None /\ fields[6] = None /\ Len(fields) = 6 /\ fields # <<>>
    <3>1. fields[1] = m.type /\ fields[2] = m.name /\ fields[3] = None /\ fields[4] = None
          /\ fields[5] = None /\ fields[6] = None
      BY ONLY <2>2
    <3>2. Len(fields) = 6
      BY <1>2, <1>5 DEF FixedSays
    <3>3. fields # <<>>
      BY ONLY <3>2, NotEmpty
    <3> QED
      BY ONLY <3>1, <3>2, <3>3
  <2>4. Nonblank(SubSeq(fields, 3, 6)) = <<>>
    <3>1. PICK seq : seq = SubSeq(fields, 3, 6)
      OBVIOUS
    <3>2. seq \in Seq(STRING) /\ Len(seq) = 4 /\ \A i \in 1 .. 4 : seq[i] = fields[i + 2]
      <4>1. PICK S : S = STRING
        OBVIOUS
      <4>2. fields \in Seq(S) /\ Len(fields) = 6
        BY <1>2, <2>3, <4>1, SaidIs DEF Kinds
      <4>3. /\ SubSeq(fields, 3, 6) \in Seq(S) /\ Len(SubSeq(fields, 3, 6)) = 4
            /\ \A i \in 1 .. 4 : SubSeq(fields, 3, 6)[i] = fields[i + 2]
        BY <4>2, LastFour
      <4> QED
        BY <3>1, <4>1, <4>3
    <3>3. seq[1] = None /\ seq[2] = None /\ seq[3] = None /\ seq[4] = None
      BY <2>3, <3>2
    <3>4. \A i \in 1 .. 4 : seq[i] = None
      BY <3>3
    <3>5. PICK g : g[0] = <<>> /\ g[4] = Nonblank(seq) /\ \A i \in 1 .. 4 : g[i] = Kept(g[i - 1], seq[i])
      BY <3>2, KeptSome
    <3>6. \A i \in 1 .. 4 : g[i] = g[i - 1]
      BY ONLY <3>4, <3>5 DEF Kept
    <3>7. g[4] = g[3] /\ g[3] = g[2] /\ g[2] = g[1] /\ g[1] = g[0]
      BY <3>6
    <3> QED
      BY <3>1, <3>5, <3>7
  <2>5. TokenizeFixedRecord(t, line) = <<m.type, m.name>>
    <3>1. InColumns(f, k)
      BY <1>5 DEF FixedSays
    <3>2. TokenizeFixedRecord(t, line) = FixedRow(line) /\ line.stray = {}
      BY <1>1, <1>2, <3>1, InColumnsReading
    <3> QED
      BY <1>2, <2>1, <2>3, <2>4, <3>2 DEF FixedRow
  <2>6. w = <<m.type, m.name>>
    BY <1>5, <2>5
  <2>7. Initial(m.type) = m.type
    BY <2>1, TokensAssumption DEF Initial
  <2> QED
    BY <1>2, <2>6, <2>7
<1> QED
  BY <1>3, <1>4, <1>5

\* The first words of a record of pairs.
LEMMA FirstPair ==
    ASSUME NEW S, NEW data \in Seq(S), data # <<>>, NEW w, NEW start \in {0, 1}, ListPairs(w, start, data)
    PROVE  /\ 1 \in DOMAIN data /\ Len(w) >= start + 2
           /\ w[start + 1] = data[1][1] /\ Numeric(w[start + 2])
<1>1. 1 \in DOMAIN data /\ Len(data) \in Nat /\ Len(data) >= 1
  OBVIOUS
<1>2. PICK n \in Nat : n = Len(data)
  BY <1>1
<1>3. Len(w) = start + 2 * n /\ n >= 1
  BY <1>1, <1>2 DEF ListPairs
<1>4. w[start + 2 * 1 - 1] = data[1][1] /\ Numeric(w[start + 2 * 1])
  BY <1>1 DEF ListPairs, Numeral
<1>5. start + 2 * 1 - 1 = start + 1 /\ start + 2 * 1 = start + 2
  OBVIOUS
<1> QED
  BY <1>1, <1>3, <1>4, <1>5

\* The words entries are read as are the pairs, after their column or not.
LEMMA EntriesWords ==
    ASSUME NEW f \in Files, Understood(f), NEW k \in Said(f, "entries"), section = SectionOf(f, k),
           NEW t, Knows(f, k, t), NEW w, w = Tokens(t, f.lines[k])
    PROVE  /\ \/ w[1] = Means(f, k).col /\ ListPairs(w, 1, Means(f, k).data)
              \/ Means(f, k).col = ColumnBefore(f, k) /\ ListPairs(w, 0, Means(f, k).data)
           /\ w[2] # "'MARKER'"
<1>1. /\ k \in DOMAIN f.lines /\ Means(f, k).is = "entries" /\ Clear(f, k)
      /\ f.lines[k].free \in Seq(STRING) /\ f.lines[k].fixed \in Seq(STRING) /\ section = "COLUMNS"
  BY SaidIs DEF Kinds, Part
<1>2. PICK line, fields, m : line = f.lines[k] /\ fields = line.fixed /\ m = Means(f, k)
  OBVIOUS
<1>3. \/ FreeSays(f, k) /\ w = line.free
      \/ FixedSays(f, k) /\ (TokenizeFixedRecord(t, line) # <<>> => w = TokenizeFixedRecord(t, line))
  <2>1. FreeRecordIsValid(section, t, FreeTokens(line)) <=>
              FreeRecordIsValid(section, Declared(f, k), FreeTokens(line))
    BY KnowsFacts
  <2> QED
    BY <1>1, <1>2, <2>1, ClearTokens
<1>4. /\ m.data \in Seq(STRING \X Int) /\ m.data # <<>>
      /\ \A i \in DOMAIN m.data : m.data[i][1] # "'MARKER'"
  BY <1>2, MeaningFacts
<1>5. \/ w[1] = m.col /\ ListPairs(w, 1, m.data)
      \/ m.col = ColumnBefore(f, k) /\ ListPairs(w, 0, m.data)
  <2>1. CASE FreeSays(f, k) /\ w = line.free
    BY <1>1, <1>2, <2>1 DEF FreeSays
  <2>2. CASE FixedSays(f, k) /\ (TokenizeFixedRecord(t, line) # <<>> => w = TokenizeFixedRecord(t, line))
    <3>1. /\ Len(fields) = 6
          /\ fields[2] = m.col \/ (fields[2] = None /\ m.col = ColumnBefore(f, k))
          /\ FieldPairs(f, fields, m.data)
      BY <1>1, <1>2, <2>2 DEF FixedSays
    <3>2. PICK S, T : S = STRING /\ T = STRING \X Int
      OBVIOUS
    <3>3. fields \in Seq(S) /\ m.data \in Seq(T)
      BY <1>1, <1>2, <1>4, <3>2
    <3>4. /\ FixedPairs(t, fields) # <<>>
          /\ fields[2] = None => ListPairs(FixedPairs(t, fields), 0, m.data)
          /\ fields[2] # None => FixedPairs(t, fields)[1] = fields[2]
                                  /\ ListPairs(FixedPairs(t, fields), 1, m.data)
      BY <3>1, <3>3, FixedPairsFacts
    <3>5. fields[3] # "'MARKER'"
      <4>1. fields[3] = m.data[1][1] /\ 1 \in DOMAIN m.data
        BY <1>4, <3>1 DEF FieldPairs
      <4> QED
        BY <1>4, <4>1
    <3>6. InColumns(f, k)
      BY <2>2 DEF FixedSays
    <3>7. TokenizeFixedRecord(t, line) = FixedPairs(t, fields)
      <4>1. TokenizeFixedRecord(t, line) = FixedColumns(t, fields)
        BY <1>1, <1>2, <3>6, InColumnsReading
      <4> QED
        BY ONLY <3>5, <4>1 DEF FixedColumns
    <3>8. m.col # None
      BY <1>2, MeaningFacts
    <3> QED
      BY <2>2, <3>1, <3>4, <3>7, <3>8
  <2> QED
    BY <1>3, <2>1, <2>2
<1>6. w[2] # "'MARKER'"
  <2>1. ASSUME ListPairs(w, 1, m.data) PROVE w[2] # "'MARKER'"
    <3>1. w[1 + 1] = m.data[1][1] /\ 1 \in DOMAIN m.data
      BY <1>4, <2>1, FirstPair
    <3> QED
      BY <1>4, <3>1
  <2>2. ASSUME ListPairs(w, 0, m.data) PROVE w[2] # "'MARKER'"
    <3>1. Numeric(w[0 + 2])
      BY <1>4, <2>2, FirstPair
    <3>2. Numeric(w[2])
      BY ONLY <3>1
    <3> QED
      BY <3>2, TokensAssumption DEF Numeric
  <2> QED
    BY <1>5, <2>1, <2>2
<1> QED
  BY <1>2, <1>5, <1>6

\* The words sides are read as are the pairs, after a vector's name or not.
LEMMA SidesWords ==
    ASSUME NEW f \in Files, Understood(f), NEW kind \in {"rhs", "range"}, NEW k \in Said(f, kind),
           section = SectionOf(f, k), NEW t, Knows(f, k, t), NEW w, w = Tokens(t, f.lines[k])
    PROVE  ListPairs(w, RowDataStart(t, w), Means(f, k).data) /\ RowDataStart(t, w) \in {0, 1}
<1>1. /\ k \in DOMAIN f.lines /\ Means(f, k).is = kind /\ Clear(f, k)
      /\ f.lines[k].free \in Seq(STRING) /\ f.lines[k].fixed \in Seq(STRING)
      /\ section = Part[kind]
  BY SaidIs DEF Kinds
<1>2. section \in {"RHS", "RANGES"}
  BY <1>1 DEF Part
<1>3. PICK line, fields, m : line = f.lines[k] /\ fields = line.fixed /\ m = Means(f, k)
  OBVIOUS
<1>4. \/ FreeSays(f, k) /\ w = line.free
      \/ FixedSays(f, k) /\ (TokenizeFixedRecord(t, line) # <<>> => w = TokenizeFixedRecord(t, line))
  <2>1. FreeRecordIsValid(section, t, FreeTokens(line)) <=>
              FreeRecordIsValid(section, Declared(f, k), FreeTokens(line))
    BY KnowsFacts
  <2> QED
    BY <1>1, <1>3, <2>1, ClearTokens
<1>5. m.data \in Seq(STRING \X Int) /\ m.data # <<>>
  BY <1>3, MeaningFacts
<1>6. \A name : KnownRow(t, name) <=> NamesRow(f, name)
  BY KnowsFacts
<1>7. Len(w) > 0 => RowDataStart(t, w) = (IF NamesRow(f, w[1]) THEN 0 ELSE 1)
  BY <1>6 DEF RowDataStart
<1>8. ASSUME NEW start \in {0, 1}, ListPairs(w, start, m.data) PROVE Len(w) > 0
  <2>1. PICK n \in Nat : n = Len(m.data) /\ n >= 1
    BY <1>5
  <2>2. Len(w) = start + 2 * n
    BY <1>8, <2>1 DEF ListPairs
  <2> QED
    BY <2>1, <2>2
<1>9. CASE FreeSays(f, k) /\ w = line.free
  <2>1. ListPairs(w, IF NamesRow(f, w[1]) THEN 0 ELSE 1, m.data)
    BY <1>1, <1>3, <1>9 DEF FreeSays
  <2>2. PICK start \in {0, 1} : start = IF NamesRow(f, w[1]) THEN 0 ELSE 1
    OBVIOUS
  <2>3. ListPairs(w, start, m.data)
    BY <2>1, <2>2
  <2>4. Len(w) > 0
    BY <1>8, <2>3
  <2>5. RowDataStart(t, w) = start
    BY <1>7, <2>2, <2>4
  <2> QED
    BY <1>3, <2>3, <2>5
<1>10. CASE FixedSays(f, k) /\ (TokenizeFixedRecord(t, line) # <<>> => w = TokenizeFixedRecord(t, line))
  <2>1. Len(fields) = 6 /\ ~NamesRow(f, fields[2]) /\ FieldPairs(f, fields, m.data)
    <3>1. m.is \in {"rhs", "range"} /\ m = Means(f, k) /\ fields = f.lines[k].fixed
      BY <1>1, <1>3
    <3> QED
      BY ONLY <1>10, <3>1 DEF FixedSays
  <2>2. PICK S, T : S = STRING /\ T = STRING \X Int
    OBVIOUS
  <2>3. fields \in Seq(S) /\ m.data \in Seq(T)
    BY <1>1, <1>3, <1>5, <2>2
  <2>4. /\ FixedPairs(t, fields) # <<>>
        /\ fields[2] = None => ListPairs(FixedPairs(t, fields), 0, m.data)
        /\ fields[2] # None => FixedPairs(t, fields)[1] = fields[2]
                               /\ ListPairs(FixedPairs(t, fields), 1, m.data)
    BY <2>1, <2>3, FixedPairsFacts
  <2>5. InColumns(f, k)
    BY <1>10 DEF FixedSays
  <2>6. TokenizeFixedRecord(t, line) = FixedPairs(t, fields)
    BY <1>2, <1>3, <2>5, InColumnsReading
  <2>7. w = FixedPairs(t, fields)
    BY <1>10, <2>4, <2>6
  <2>8. CASE fields[2] = None
    <3>1. ListPairs(w, 0, m.data)
      BY <2>4, <2>7, <2>8
    <3>2. w[0 + 1] = m.data[1][1] /\ 1 \in DOMAIN m.data
      BY <1>5, <3>1, FirstPair
    <3>3. NamesRow(f, m.data[1][1])
      BY <2>1, <3>2 DEF FieldPairs
    <3>4. NamesRow(f, w[1])
      BY <3>2, <3>3
    <3>5. Len(w) > 0
      BY <1>8, <3>1
    <3>6. RowDataStart(t, w) = 0
      BY <1>7, <3>4, <3>5
    <3> QED
      BY <1>3, <3>1, <3>6
  <2>9. CASE fields[2] # None
    <3>1. ListPairs(w, 1, m.data) /\ w[1] = fields[2]
      BY <2>4, <2>7, <2>9
    <3>2. Len(w) > 0
      BY <1>8, <3>1
    <3>3. RowDataStart(t, w) = 1
      BY <1>7, <2>1, <3>1, <3>2
    <3> QED
      BY <1>3, <3>1, <3>3
  <2> QED
    BY <2>8, <2>9
<1> QED
  BY <1>4, <1>9, <1>10

\* The words a bound is read as are its type, its column and its value.
LEMMA BoundsWords ==
    ASSUME NEW f \in Files, Understood(f), NEW k \in Said(f, "bound"), section = SectionOf(f, k),
           NEW t, Knows(f, k, t), NEW w, w = Tokens(t, f.lines[k])
    PROVE  BoundWords(w, BoundColumn(t, w), Means(f, k)) /\ BoundColumn(t, w) \in {2, 3}
<1>1. /\ k \in DOMAIN f.lines /\ Means(f, k).is = "bound" /\ Clear(f, k)
      /\ f.lines[k].free \in Seq(STRING) /\ f.lines[k].fixed \in Seq(STRING) /\ section = "BOUNDS"
  BY SaidIs DEF Kinds, Part
<1>2. PICK line, fields, m : line = f.lines[k] /\ fields = line.fixed /\ m = Means(f, k)
  OBVIOUS
<1>3. \/ FreeSays(f, k) /\ w = line.free
      \/ FixedSays(f, k) /\ (TokenizeFixedRecord(t, line) # <<>> => w = TokenizeFixedRecord(t, line))
  <2>1. FreeRecordIsValid(section, t, FreeTokens(line)) <=>
              FreeRecordIsValid(section, Declared(f, k), FreeTokens(line))
    BY KnowsFacts
  <2> QED
    BY <1>1, <1>2, <2>1, ClearTokens
<1>4. \A name : Known(t.cols, name) <=> name \in ColumnsBefore(f, k)
  BY KnowsFacts
<1>5. m.col \in ColumnsBefore(f, k)
  BY <1>2, MeaningFacts
<1>6. ASSUME NEW at \in {2, 3}, SpellsBound(w, at, m) PROVE BoundWords(w, at, m) /\ Len(w) \in {at, at + 1}
  <2>1. Len(w) \in {at, at + 1} /\ w[1] = m.type /\ w[at] = m.col
    BY <1>6 DEF SpellsBound
  <2>2. Len(w) = at => m.value = 0
    BY <1>6 DEF SpellsBound
  <2>3. Len(w) # at => Value(w[at + 1]) = m.value
    BY <1>6 DEF SpellsBound, Numeral
  <2>4. PICK n \in {2, 3, 4} : n = Len(w)
    <3>1. at + 1 \in {3, 4}
      OBVIOUS
    <3>2. at \in {2, 3}
      OBVIOUS
    <3> QED
      BY ONLY <2>1, <3>1, <3>2
  <2>5. at <= n /\ (at < n <=> n # at)
    BY <2>1, <2>4
  <2> QED
    BY <2>1, <2>2, <2>3, <2>4, <2>5 DEF BoundWords
<1>7. CASE FreeSays(f, k) /\ w = line.free
  <2>1. \/ SpellsBound(w, 3, m)
        \/ SpellsBound(w, 2, m) /\ (Len(w) = 3 => w[3] \notin ColumnsBefore(f, k))
    <3>1. m.is = "bound" /\ m = Means(f, k) /\ w = f.lines[k].free
      BY <1>1, <1>2, <1>7
    <3> QED
      BY ONLY <1>7, <3>1 DEF FreeSays
  <2>2. CASE SpellsBound(w, 3, m)
    <3>1. BoundWords(w, 3, m) /\ Len(w) \in {3, 3 + 1}
      BY <1>6, <2>2
    <3>2. w[3] = m.col /\ Len(w) > 2
      BY <3>1 DEF BoundWords
    <3>3. BoundColumn(t, w) = 3
      BY <1>4, <1>5, <3>2 DEF BoundColumn
    <3> QED
      BY <1>2, <3>1, <3>3
  <2>3. CASE SpellsBound(w, 2, m) /\ (Len(w) = 3 => w[3] \notin ColumnsBefore(f, k))
    <3>1. BoundWords(w, 2, m) /\ Len(w) \in {2, 2 + 1}
      BY <1>6, <2>3
    <3>2. w[2] = m.col /\ Len(w) > 1 /\ (Len(w) > 2 => Len(w) = 3)
      BY <3>1 DEF BoundWords
    <3>3. BoundColumn(t, w) = 2
      BY <1>4, <1>5, <2>3, <3>2 DEF BoundColumn
    <3> QED
      BY <1>2, <3>1, <3>3
  <2> QED
    BY <2>1, <2>2, <2>3
<1>8. CASE FixedSays(f, k) /\ (TokenizeFixedRecord(t, line) # <<>> => w = TokenizeFixedRecord(t, line))
  <2>1. /\ Len(fields) = 6 /\ fields[1] = m.type /\ fields[3] = m.col
        /\ IF fields[4] = None THEN m.value = 0 ELSE Numeral(fields[4], m.value)
    BY <1>1, <1>2, <1>8 DEF FixedSays
  <2>2. InColumns(f, k)
    BY <1>8 DEF FixedSays
  <2>3. m.type # None
    <3>1. m.type \in {"LO", "UP", "FX", "FR", "MI", "PL", "BV"}
      BY <1>2, MeaningFacts DEF LowerTypes, UpperTypes
    <3> QED
      BY <3>1 DEF None
  <2>4. fields[4] = None \/ Numeric(fields[4])
    BY <2>1 DEF Numeral
  <2>5. PICK tail : tail = Nonblank(<<fields[4]>>)
    OBVIOUS
  <2>6. TokenizeFixedRecord(t, line) = <<fields[1], fields[2], fields[3]>> \o tail
    <3>1. TokenizeFixedRecord(t, line) = FixedBounds(t, fields)
      BY <1>1, <1>2, <2>2, InColumnsReading
    <3> QED
      BY <1>4, <1>5, <2>1, <2>3, <2>4, <2>5, <3>1 DEF FixedBounds
  <2>7. /\ fields[4] = None => tail = <<>>
        /\ fields[4] # None => tail = <<fields[4]>>
    <3>1. PICK S, e, seq : e \in S /\ seq \in Seq(S) /\ e = fields[4] /\ seq = <<e>> /\ Len(seq) = 1 /\ seq[1] = e
      <4>1. PICK e : e = fields[4]
        OBVIOUS
      <4>2. <<e>> \in Seq({e}) /\ Len(<<e>>) = 1 /\ <<e>>[1] = e /\ e \in {e}
        OBVIOUS
      <4> QED
        BY <4>1, <4>2
    <3>2. Nonblank(seq) = Kept(<<>>, e)
      BY ONLY <3>1, KeptOne
    <3>3. tail = Kept(<<>>, e)
      BY <2>5, <3>1, <3>2
    <3>4. Append(<<>>, e) = <<e>>
      OBVIOUS
    <3> QED
      BY ONLY <3>1, <3>3, <3>4 DEF Kept
  <2>8. PICK u : u = <<fields[1], fields[2], fields[3]>> \o tail
    OBVIOUS
  <2>9. u[1] = fields[1] /\ u[3] = fields[3] /\ Len(u) \in {3, 4}
        /\ (fields[4] = None => Len(u) = 3)
        /\ (fields[4] # None => Len(u) = 4 /\ u[4] = fields[4])
    <3>1. CASE fields[4] = None
      <4>1. u = <<fields[1], fields[2], fields[3]>> \o <<>>
        BY <2>7, <2>8, <3>1
      <4>2. u[1] = fields[1] /\ u[3] = fields[3] /\ Len(u) = 3
        BY ONLY <4>1
      <4> QED
        BY <3>1, <4>2
    <3>2. CASE fields[4] # None
      <4>1. u = <<fields[1], fields[2], fields[3]>> \o <<fields[4]>>
        BY <2>7, <2>8, <3>2
      <4>2. u[1] = fields[1] /\ u[3] = fields[3] /\ u[4] = fields[4] /\ Len(u) = 4
        BY ONLY <4>1
      <4> QED
        BY <3>2, <4>2
    <3> QED
      BY <3>1, <3>2
  <2>10. w = u
    <3>1. Len(u) # 0
      BY <2>9
    <3>2. u # <<>>
      BY <3>1, NotEmpty
    <3> QED
      BY <1>8, <2>6, <2>8, <3>2
  <2>11. SpellsBound(w, 3, m)
    <3>1. Len(w) \in {3, 3 + 1} /\ w[1] = m.type /\ w[3] = m.col
      BY <2>1, <2>9, <2>10
    <3>2. Len(w) = 3 => m.value = 0
      BY <2>1, <2>9, <2>10
    <3>3. Len(w) # 3 => Numeral(w[3 + 1], m.value)
      BY <2>1, <2>9, <2>10
    <3> QED
      BY <3>1, <3>2, <3>3 DEF SpellsBound
  <2>12. BoundWords(w, 3, m) /\ Len(w) \in {3, 3 + 1}
    BY <1>6, <2>11
  <2>13. w[3] = m.col /\ Len(w) > 2
    BY <2>12 DEF BoundWords
  <2>14. BoundColumn(t, w) = 3
    BY <1>4, <1>5, <2>13 DEF BoundColumn
  <2> QED
    BY <1>2, <2>12, <2>14
<1> QED
  BY <1>3, <1>7, <1>8

------------------------------------------------------------------------------
(* What the parser holds once the lines before k are read: what they say.  *)

RowItem(f) == [l \in Said(f, "row") |-> [type |-> Means(f, l).type, name |-> Means(f, l).name]]
NameItem(f) == [l \in Said(f, "row") |-> Means(f, l).name]
ColItem(f) == [l \in Said(f, "entries") |-> Means(f, l).col]
Declaring(f, k) == {j \in Before(f, "entries", k) : Declares(f, j)}

BufferSo(f, k, t) == Lists(t.buffered, Before(f, "row", k), RowItem(f))
SenseSo(f, k, t) ==
    t.maximize <=> Before(f, "sense", k) # {} /\ Means(f, Max(Before(f, "sense", k))).max

\* Before the rows are finalized, and from then on.
Blank(t) ==
    /\ t.rows = <<>> /\ t.cols = <<>> /\ t.coo = <<>> /\ t.var = <<>>
    /\ t.current = None /\ t.constant = 0
RowsSo(f, t) ==
    /\ t.objRow = ObjectiveRow(f) /\ Lists(t.rows, Constraints(f), NameItem(f))
    /\ \A l \in Constraints(f) : t.types[Means(f, l).name] = Means(f, l).type
ColumnsSo(f, k, t) ==
    /\ Lists(t.cols, Declaring(f, k), ColItem(f))
    /\ ToSet(t.cols) = ColumnsBefore(f, k) /\ t.current = ColumnBefore(f, k)

\* The entries of the objective are added up, those of constraints kept.
Column(f, d) == Means(f, d[1]).col
Priced(f, D, c) == {d \in D : RowOf(f, d) = ObjectiveRow(f) /\ Column(f, d) = c}
Terms(f, D) == {d \in D : RowOf(f, d) \in RowNames(f)}
Term(f, d) == [row |-> RowOf(f, d), col |-> Column(f, d), value |-> ValueOf(f, d)]
Traces(s, f, D, coo) ==
    /\ \A i \in DOMAIN coo : s[i] \in Terms(f, D) /\ coo[i] = Term(f, s[i])
    /\ \A i, j \in DOMAIN coo : s[i] = s[j] => i = j
    /\ \A d \in Terms(f, D) : \E i \in DOMAIN coo : s[i] = d
EntriesSo(f, D, t) ==
    /\ \A c \in ToSet(t.cols) : t.obj[c] = Total(f, Priced(f, D, c))
    /\ Len(t.coo) = Cardinality(Terms(f, D)) /\ \E s : Traces(s, f, D, t.coo)

\* The interval of a constraint after the sides A and the ranges B.
Of(f, D, row) == {d \in D : RowOf(f, d) = row}
Side(f, l, A, B) ==
    LET rhs == Total(f, Of(f, A, Means(f, l).name))
        range == Total(f, Of(f, B, Means(f, l).name))
        ranged == Of(f, B, Means(f, l).name) # {}
    IN  CASE Means(f, l).type = "L" -> <<IF ranged THEN rhs - Abs(range) ELSE -Inf, rhs>>
          [] Means(f, l).type = "G" -> <<rhs, IF ranged THEN rhs + Abs(range) ELSE Inf>>
          [] Means(f, l).type = "E" -> IF range < 0 THEN <<rhs + range, rhs>> ELSE <<rhs, rhs + range>>
SidesSo(f, A, B, t) ==
    /\ t.constant = -Total(f, Of(f, A, ObjectiveRow(f)))
    /\ DOMAIN t.con = RowNames(f)
    /\ \A l \in Constraints(f) : t.con[Means(f, l).name] = Side(f, l, A, B)

\* The ends of a column's interval, after the bounds of the lines L.
Ends(f, L, c, types) == {l \in L : Means(f, l).col = c /\ Means(f, l).type \in types}
Lowest(f, L, c) ==
    LET lines == Ends(f, L, c, LowerTypes) IN IF lines = {} THEN 0 ELSE LowerBound(Means(f, Max(lines)))
Highest(f, L, c) ==
    LET lines == Ends(f, L, c, UpperTypes) IN IF lines = {} THEN Inf ELSE UpperBound(Means(f, Max(lines)))
BoundsSo(f, L, t) ==
    /\ DOMAIN t.var = ToSet(t.cols)
    /\ \A c \in ToSet(t.cols) : t.var[c] = <<Lowest(f, L, c), Highest(f, L, c)>>

Built(f, k, t) ==
    /\ RowsSo(f, t) /\ ColumnsSo(f, k, t) /\ EntriesSo(f, Heard(f, "entries", k), t)
    /\ SidesSo(f, Heard(f, "rhs", k), Heard(f, "range", k), t)
    /\ BoundsSo(f, Before(f, "bound", k), t)

Follows(f, k, t) ==
    /\ BufferSo(f, k, t) /\ SenseSo(f, k, t)
    /\ IF Stage(f, k) <= 1 THEN Blank(t) ELSE Built(f, k, t)

\* A state with the same tables.
SameTables(t, u) ==
    /\ u.objRow = t.objRow /\ u.rows = t.rows /\ u.types = t.types
    /\ u.cols = t.cols /\ u.current = t.current /\ u.obj = t.obj /\ u.coo = t.coo

\* A line that says nothing of a kind adds nothing to what is heard of it.
LEMMA SameLines ==
    ASSUME NEW f \in Files, Understood(f), NEW k \in Nat
    PROVE  /\ \A kind : k \notin Said(f, kind) => Before(f, kind, k + 1) = Before(f, kind, k)
           /\ \A kind \in {"entries", "rhs", "range"} :
                 k \notin Said(f, kind) => Heard(f, kind, k + 1) = Heard(f, kind, k)
           /\ k \notin Said(f, "entries") =>
                 /\ Declaring(f, k + 1) = Declaring(f, k)
                 /\ ColumnsBefore(f, k + 1) = ColumnsBefore(f, k)
                 /\ ColumnBefore(f, k + 1) = ColumnBefore(f, k)
<1>1. \A kind : k \notin Said(f, kind) => Before(f, kind, k + 1) = Before(f, kind, k)
  BY BeforeFacts
<1>2. \A kind \in {"entries", "rhs", "range"} :
         k \notin Said(f, kind) => Heard(f, kind, k + 1) = Heard(f, kind, k)
  BY HeardFacts
<1>3. ASSUME k \notin Said(f, "entries")
      PROVE  /\ Declaring(f, k + 1) = Declaring(f, k)
             /\ ColumnsBefore(f, k + 1) = ColumnsBefore(f, k)
             /\ ColumnBefore(f, k + 1) = ColumnBefore(f, k)
  <2>1. EntriesBefore(f, k + 1) = EntriesBefore(f, k)
    BY <1>1, <1>3 DEF Before, EntriesBefore
  <2>2. Before(f, "entries", k + 1) = Before(f, "entries", k)
    BY <1>1, <1>3
  <2> QED
    BY <2>1, <2>2 DEF Declaring, ColumnsBefore, ColumnBefore
<1> QED
  BY <1>1, <1>2, <1>3

\* A state that is built knows the names declared.
LEMMA BuiltKnows ==
    ASSUME NEW f \in Files, Understood(f), NEW k, NEW t, Parsed(t), RowsSo(f, t), ColumnsSo(f, k, t)
    PROVE  Knows(f, k, t)
<1>1. PICK S, C, seq, item : /\ S = STRING /\ C = Constraints(f) /\ seq = t.rows /\ item = NameItem(f)
                             /\ seq \in Seq(S) /\ C \in SUBSET Nat /\ IsFiniteSet(C) /\ Lists(seq, C, item)
  BY NamesFacts DEF Parsed, RowsSo
<1>2. ToSet(seq) = {item[l] : l \in C}
  BY <1>1, ListsSet
<1>3. \A l \in C : item[l] = Means(f, l).name
  BY <1>1, NamesFacts DEF NameItem
<1>4. ToSet(t.rows) = RowNames(f)
  BY <1>1, <1>2, <1>3 DEF RowNames
<1> QED
  BY <1>4 DEF Knows, RowsSo, ColumnsSo

\* A line of another kind leaves a built state built.
LEMMA BuiltStays ==
    ASSUME NEW f \in Files, Understood(f), NEW k \in Nat, NEW t, Built(f, k, t),
           \A kind \in Kinds : k \notin Said(f, kind),
           NEW u, SameTables(t, u), u.var = t.var, u.con = t.con, u.constant = t.constant
    PROVE  Built(f, k + 1, u)
<1>1. /\ k \notin Said(f, "entries") /\ k \notin Said(f, "rhs") /\ k \notin Said(f, "range")
      /\ k \notin Said(f, "bound")
  BY DEF Kinds
<1>2. /\ Declaring(f, k + 1) = Declaring(f, k) /\ ColumnsBefore(f, k + 1) = ColumnsBefore(f, k)
      /\ ColumnBefore(f, k + 1) = ColumnBefore(f, k)
      /\ Heard(f, "entries", k + 1) = Heard(f, "entries", k)
      /\ Heard(f, "rhs", k + 1) = Heard(f, "rhs", k) /\ Heard(f, "range", k + 1) = Heard(f, "range", k)
      /\ Before(f, "bound", k + 1) = Before(f, "bound", k)
  BY <1>1, SameLines
<1>3. RowsSo(f, u)
  BY DEF RowsSo, Built, SameTables
<1>4. ColumnsSo(f, k + 1, u)
  BY <1>2 DEF ColumnsSo, Built, SameTables
<1>5. EntriesSo(f, Heard(f, "entries", k + 1), u)
  BY <1>2 DEF EntriesSo, Built, SameTables
<1>6. SidesSo(f, Heard(f, "rhs", k + 1), Heard(f, "range", k + 1), u)
  BY <1>2 DEF SidesSo, Built
<1>7. BoundsSo(f, Before(f, "bound", k + 1), u)
  BY <1>2 DEF BoundsSo, Built, SameTables
<1> QED
  BY <1>3, <1>4, <1>5, <1>6, <1>7 DEF Built

\* The sense a line sets, and nothing else.
LEMMA SenseSet ==
    ASSUME NEW f \in Files, NEW k \in Said(f, "sense"), k \in Nat, Means(f, k).max \in BOOLEAN,
           NEW t, Parsed(t), NEW token, SpellsSense(token, Means(f, k).max), NEW u, u = SetSense(t, token)
    PROVE  /\ SenseSo(f, k + 1, u) /\ SameTables(t, u)
           /\ u.buffered = t.buffered /\ u.var = t.var /\ u.con = t.con /\ u.constant = t.constant
           /\ u.errorFlag = t.errorFlag
<1>1. PICK b \in BOOLEAN : b = Means(f, k).max
  OBVIOUS
<1>2. u = [t EXCEPT !.maximize = b]
  <2>1. CASE b = TRUE
    BY <1>1, <2>1 DEF SpellsSense, SetSense
  <2>2. CASE b = FALSE
    BY <1>1, <2>2 DEF SpellsSense, SetSense
  <2> QED
    BY <2>1, <2>2
<1>3. /\ SameTables(t, u) /\ u.buffered = t.buffered /\ u.var = t.var /\ u.con = t.con
      /\ u.constant = t.constant /\ u.errorFlag = t.errorFlag /\ u.maximize = b
  BY <1>2 DEF Parsed, Fields, SameTables
<1>4. PICK L : L = Before(f, "sense", k + 1)
  OBVIOUS
<1>5. L \in SUBSET Nat /\ k \in L /\ \A j \in L : j <= k
  <2>1. /\ L \in SUBSET Nat /\ L = Before(f, "sense", k) \union {k}
        /\ \A j \in Before(f, "sense", k) : j < k /\ j \in Nat
    BY <1>4, BeforeFacts
  <2> QED
    BY <2>1
<1>6. Max(L) = k
  BY <1>5, GreatestIs
<1>7. L # {}
  BY <1>5
<1> QED
  BY <1>1, <1>3, <1>4, <1>6, <1>7 DEF SenseSo

\* A row's line is buffered.
LEMMA RowBuffered ==
    ASSUME NEW f \in Files, Understood(f), NEW k \in Said(f, "row"), section = SectionOf(f, k),
           NEW t, Parsed(t), BufferSo(f, k, t), NEW u, u = ParseRow(t, Tokens(t, f.lines[k]))
    PROVE  /\ BufferSo(f, k + 1, u) /\ SameTables(t, u)
           /\ u.var = t.var /\ u.con = t.con /\ u.constant = t.constant /\ u.maximize = t.maximize
           /\ u.errorFlag = t.errorFlag
<1>1. PICK w : w = Tokens(t, f.lines[k])
  OBVIOUS
<1>2. Len(w) >= 2 /\ Initial(w[1]) = Means(f, k).type /\ w[2] = Means(f, k).name
  BY <1>1, RowWords
<1>3. PICK row : row = [type |-> Means(f, k).type, name |-> Means(f, k).name]
  OBVIOUS
<1>4. row = RowItem(f)[k]
  BY <1>3 DEF RowItem
<1>5. k \in Nat /\ Len(w) \in Nat
  <2>1. Tokens(t, f.lines[k]) \in Seq(STRING)
    BY LinesFacts, TokensAreSeq
  <2> QED
    BY <1>1, <2>1, LinesFacts
<1>6. u = [t EXCEPT !.buffered = Append(t.buffered, row)]
  BY <1>1, <1>2, <1>3, <1>5 DEF ParseRow
<1>7. PICK b : b = Append(t.buffered, row)
  OBVIOUS
<1>8. /\ u.buffered = b /\ SameTables(t, u)
      /\ u.var = t.var /\ u.con = t.con /\ u.constant = t.constant /\ u.maximize = t.maximize
      /\ u.errorFlag = t.errorFlag
  BY <1>6, <1>7 DEF Parsed, Fields, SameTables
<1>9. Lists(b, Before(f, "row", k) \union {k}, RowItem(f))
  <2>1. row \in Buffered
    <3>1. row.type \in STRING /\ row.name \in STRING
      <4>1. w[1] \in STRING /\ w[2] \in STRING
        <5>1. w \in Seq(STRING)
          BY <1>1, LinesFacts, TokensAreSeq
        <5> QED
          BY <1>2, <5>1
      <4>2. Initial(w[1]) \in STRING
        BY <4>1, MpsAssumption DEF Initial
      <4> QED
        BY <1>2, <1>3, <4>1, <4>2
    <3> QED
      BY <1>3, <3>1 DEF Buffered
  <2>2. PICK T, seq, S, item : /\ T = Buffered /\ seq = t.buffered /\ S = Before(f, "row", k) /\ item = RowItem(f)
                               /\ seq \in Seq(T) /\ S \in SUBSET Nat /\ IsFiniteSet(S) /\ \A j \in S : j < k
                               /\ item[k] \in T /\ item[k] = row /\ Lists(seq, S, item)
    <3>1. t.buffered \in Seq(Buffered)
      BY DEF Parsed, Buffered
    <3> QED
      BY <1>4, <1>5, <2>1, <3>1, BeforeFacts DEF BufferSo
  <2>3. Lists(Append(seq, item[k]), S \union {k}, item)
    BY <1>5, <2>2, ListsMore
  <2> QED
    BY <1>7, <2>2, <2>3
<1>10. Before(f, "row", k + 1) = Before(f, "row", k) \union {k}
  BY <1>5, BeforeFacts
<1> QED
  BY <1>8, <1>9, <1>10 DEF BufferSo

\* The end of a column's interval a bound sets, or neither.
LEMMA BoundSettles ==
    ASSUME NEW f \in Files, Understood(f), NEW k \in Said(f, "bound"), k \in Nat,
           NEW L, L = Before(f, "bound", k), NEW c, NEW lo, NEW hi,
           lo = Lowest(f, L, c), hi = Highest(f, L, c), NEW m, m = Means(f, k)
    PROVE  /\ c # m.col => /\ Lowest(f, L \union {k}, c) = lo
                           /\ Highest(f, L \union {k}, c) = hi
           /\ c = m.col => Bounded(<<lo, hi>>, m.type, m.value)
                              = <<Lowest(f, L \union {k}, c), Highest(f, L \union {k}, c)>>
<1>1. L \in SUBSET Nat /\ \A j \in L : j < k /\ j \in Nat
  BY BeforeFacts
<1>2. ASSUME NEW types PROVE
         /\ c = m.col /\ m.type \in types => Ends(f, L \union {k}, c, types) # {}
                                             /\ Max(Ends(f, L \union {k}, c, types)) = k
         /\ ~(c = m.col /\ m.type \in types) => Ends(f, L \union {k}, c, types) = Ends(f, L, c, types)
  <2>1. CASE c = m.col /\ m.type \in types
    <3>1. PICK E : E = Ends(f, L \union {k}, c, types)
      OBVIOUS
    <3>2. E \in SUBSET Nat /\ k \in E /\ \A j \in E : j <= k
      BY <1>1, <2>1, <3>1 DEF Ends
    <3>3. Max(E) = k
      BY <3>2, GreatestIs
    <3> QED
      BY <2>1, <3>1, <3>2, <3>3
  <2>2. CASE ~(c = m.col /\ m.type \in types)
    BY <2>2 DEF Ends
  <2> QED
    BY <2>1, <2>2
<1>3. /\ c = m.col /\ m.type \in LowerTypes => Lowest(f, L \union {k}, c) = LowerBound(m)
      /\ ~(c = m.col /\ m.type \in LowerTypes) => Lowest(f, L \union {k}, c) = lo
  BY <1>2 DEF Lowest
<1>4. /\ c = m.col /\ m.type \in UpperTypes => Highest(f, L \union {k}, c) = UpperBound(m)
      /\ ~(c = m.col /\ m.type \in UpperTypes) => Highest(f, L \union {k}, c) = hi
  BY <1>2 DEF Highest
<1>5. m.type \in {"LO", "UP", "FX", "FR", "MI", "PL", "BV"}
  <2>1. m.type \in LowerTypes \union UpperTypes
    BY MeaningFacts
  <2> QED
    BY <2>1 DEF LowerTypes, UpperTypes
<1>6. ASSUME c = m.col
      PROVE Bounded(<<lo, hi>>, m.type, m.value)
              = <<Lowest(f, L \union {k}, c), Highest(f, L \union {k}, c)>>
  <2>1. PICK newLo, newHi : newLo = Lowest(f, L \union {k}, c) /\ newHi = Highest(f, L \union {k}, c)
    OBVIOUS
  <2>2. /\ m.type \in LowerTypes => newLo = LowerBound(m)
        /\ m.type \notin LowerTypes => newLo = lo
        /\ m.type \in UpperTypes => newHi = UpperBound(m)
        /\ m.type \notin UpperTypes => newHi = hi
    BY <1>3, <1>4, <1>6, <2>1
  <2>3. PICK ty, v : ty = m.type /\ v = m.value
    OBVIOUS
  <2>4. Bounded(<<lo, hi>>, ty, v) = <<newLo, newHi>>
    <3>1. CASE ty = "LO"
      BY ONLY <2>2, <2>3, <3>1 DEF Bounded, LowerBound, UpperBound, LowerTypes, UpperTypes
    <3>2. CASE ty = "UP"
      BY ONLY <2>2, <2>3, <3>2 DEF Bounded, LowerBound, UpperBound, LowerTypes, UpperTypes
    <3>3. CASE ty = "FX"
      BY ONLY <2>2, <2>3, <3>3 DEF Bounded, LowerBound, UpperBound, LowerTypes, UpperTypes
    <3>4. CASE ty = "FR"
      BY ONLY <2>2, <2>3, <3>4 DEF Bounded, LowerBound, UpperBound, LowerTypes, UpperTypes
    <3>5. CASE ty = "MI"
      BY ONLY <2>2, <2>3, <3>5 DEF Bounded, LowerBound, UpperBound, LowerTypes, UpperTypes
    <3>6. CASE ty = "PL"
      BY ONLY <2>2, <2>3, <3>6 DEF Bounded, LowerBound, UpperBound, LowerTypes, UpperTypes
    <3>7. CASE ty = "BV"
      BY ONLY <2>2, <2>3, <3>7 DEF Bounded, LowerBound, UpperBound, LowerTypes, UpperTypes
    <3> QED
      BY <1>5, <2>3, <3>1, <3>2, <3>3, <3>4, <3>5, <3>6, <3>7
  <2> QED
    BY <2>1, <2>3, <2>4
<1> QED
  BY <1>1, <1>3, <1>4, <1>6

\* A bound settles an end of its column's interval.
LEMMA BoundStep ==
    ASSUME NEW f \in Files, Understood(f), NEW k \in Said(f, "bound"), section = SectionOf(f, k),
           NEW t, Parsed(t), Built(f, k, t), NEW u, u = ParseBound(t, Tokens(t, f.lines[k]))
    PROVE  /\ Built(f, k + 1, u) /\ u.buffered = t.buffered /\ u.maximize = t.maximize
           /\ u.errorFlag = t.errorFlag
<1>1. PICK w, at, m : w = Tokens(t, f.lines[k]) /\ at = BoundColumn(t, w) /\ m = Means(f, k)
  OBVIOUS
<1>2. k \in Nat /\ m.col \in ColumnsBefore(f, k)
  BY <1>1, LinesFacts, MeaningFacts
<1>3. Knows(f, k, t)
  BY BuiltKnows DEF Built
<1>4. BoundWords(w, at, m) /\ at \in {2, 3}
  BY <1>1, <1>3, BoundsWords
<1>5. w[at] = m.col /\ w[1] = m.type /\ (IF at < Len(w) THEN Value(w[at + 1]) ELSE 0) = m.value /\ at # 0
  BY <1>4 DEF BoundWords
<1>6. u = [t EXCEPT !.var[m.col] = Bounded(@, m.type, m.value)]
  BY <1>1, <1>5 DEF ParseBound
<1>7. PICK var : var = [t.var EXCEPT ![m.col] = Bounded(t.var[m.col], m.type, m.value)]
  OBVIOUS
<1>8. u = [t EXCEPT !.var = var]
  BY <1>6, <1>7
<1>9. /\ SameTables(t, u) /\ u.var = var /\ u.con = t.con /\ u.constant = t.constant
      /\ u.buffered = t.buffered /\ u.maximize = t.maximize /\ u.errorFlag = t.errorFlag
  BY <1>8 DEF Parsed, Fields, SameTables
<1>10. PICK L : L = Before(f, "bound", k) /\ Before(f, "bound", k + 1) = L \union {k}
  BY <1>2, BeforeFacts
<1>11. BoundsSo(f, L \union {k}, u)
  <2>1. DOMAIN t.var = ToSet(t.cols)
        /\ \A c \in ToSet(t.cols) : t.var[c] = <<Lowest(f, L, c), Highest(f, L, c)>>
    BY <1>10 DEF Built, BoundsSo
  <2>2. m.col \in ToSet(t.cols)
    BY <1>2, <1>3 DEF Knows
  <2>3. DOMAIN var = ToSet(t.cols)
    BY <1>7, <2>1
  <2>4. ASSUME NEW c \in ToSet(t.cols)
        PROVE var[c] = <<Lowest(f, L \union {k}, c), Highest(f, L \union {k}, c)>>
    <3>1. PICK lo, hi : lo = Lowest(f, L, c) /\ hi = Highest(f, L, c) /\ t.var[c] = <<lo, hi>>
      BY <2>1
    <3>2. /\ c # m.col => /\ Lowest(f, L \union {k}, c) = lo
                          /\ Highest(f, L \union {k}, c) = hi
          /\ c = m.col => Bounded(<<lo, hi>>, m.type, m.value)
                              = <<Lowest(f, L \union {k}, c), Highest(f, L \union {k}, c)>>
      BY <1>1, <1>2, <1>10, <3>1, BoundSettles
    <3>3. CASE c = m.col
      <4>1. var[c] = Bounded(t.var[c], m.type, m.value)
        BY <1>7, <2>1, <3>3
      <4> QED
        BY <3>1, <3>2, <3>3, <4>1
    <3>4. CASE c # m.col
      <4>1. var[c] = t.var[c]
        BY <1>7, <2>1, <3>4
      <4> QED
        BY <3>1, <3>2, <3>4, <4>1
    <3> QED
      BY <3>3, <3>4
  <2>5. u.cols = t.cols
    BY <1>9 DEF SameTables
  <2> QED
    BY <1>9, <2>3, <2>4, <2>5 DEF BoundsSo
<1>12. k \notin Said(f, "entries") /\ k \notin Said(f, "rhs") /\ k \notin Said(f, "range")
  BY DEF Said
<1>13. /\ Declaring(f, k + 1) = Declaring(f, k) /\ ColumnsBefore(f, k + 1) = ColumnsBefore(f, k)
       /\ ColumnBefore(f, k + 1) = ColumnBefore(f, k)
       /\ Heard(f, "entries", k + 1) = Heard(f, "entries", k)
       /\ Heard(f, "rhs", k + 1) = Heard(f, "rhs", k) /\ Heard(f, "range", k + 1) = Heard(f, "range", k)
  BY <1>2, <1>12, SameLines
<1>14. RowsSo(f, u)
  BY <1>9 DEF RowsSo, Built, SameTables
<1>15. ColumnsSo(f, k + 1, u)
  BY <1>9, <1>13 DEF ColumnsSo, Built, SameTables
<1>16. EntriesSo(f, Heard(f, "entries", k + 1), u)
  BY <1>9, <1>13 DEF EntriesSo, Built, SameTables
<1>17. SidesSo(f, Heard(f, "rhs", k + 1), Heard(f, "range", k + 1), u)
  BY <1>9, <1>13 DEF SidesSo, Built
<1> QED
  BY <1>9, <1>10, <1>11, <1>14, <1>15, <1>16, <1>17 DEF Built

------------------------------------------------------------------------------
(* One pair of a line of entries, sides or ranges.                         *)

\* Another number among those that are added up.
LEMMA OneMore ==
    ASSUME NEW f, NEW D, IsFiniteSet(D), \A e \in D : ValueOf(f, e) \in Int,
           NEW d, d \notin D, ValueOf(f, d) \in Int, NEW E, E = D \union {d}
    PROVE  /\ \A name : /\ RowOf(f, d) = name => Of(f, E, name) = Of(f, D, name) \union {d}
                                                 /\ Total(f, Of(f, E, name))
                                                      = Total(f, Of(f, D, name)) + ValueOf(f, d)
                        /\ RowOf(f, d) # name => Of(f, E, name) = Of(f, D, name)
           /\ \A c : /\ RowOf(f, d) = ObjectiveRow(f) /\ Column(f, d) = c =>
                           Total(f, Priced(f, E, c)) = Total(f, Priced(f, D, c)) + ValueOf(f, d)
                     /\ ~(RowOf(f, d) = ObjectiveRow(f) /\ Column(f, d) = c) =>
                           Priced(f, E, c) = Priced(f, D, c)
<1>1. ValueOf(f, d) \in Int /\ \A e \in D : ValueOf(f, e) \in Int
  OBVIOUS
<1>2. ASSUME NEW F \in SUBSET D
      PROVE Total(f, F \union {d}) = Total(f, F) + ValueOf(f, d)
  <2>1. IsFiniteSet(F) /\ d \notin F /\ \A e \in F : ValueOf(f, e) \in Int
    BY <1>1, FS_Subset
  <2> QED
    BY <1>1, <2>1, TotalWith
<1>3. ASSUME NEW name
      PROVE /\ RowOf(f, d) = name => Of(f, E, name) = Of(f, D, name) \union {d}
                                     /\ Total(f, Of(f, E, name))
                                          = Total(f, Of(f, D, name)) + ValueOf(f, d)
            /\ RowOf(f, d) # name => Of(f, E, name) = Of(f, D, name)
  <2>1. RowOf(f, d) = name => Of(f, E, name) = Of(f, D, name) \union {d}
    BY DEF Of
  <2>2. RowOf(f, d) # name => Of(f, E, name) = Of(f, D, name)
    BY DEF Of
  <2>3. PICK F \in SUBSET D : F = Of(f, D, name)
    BY DEF Of
  <2>4. Total(f, F \union {d}) = Total(f, F) + ValueOf(f, d)
    BY <1>2
  <2> QED
    BY <2>1, <2>2, <2>3, <2>4
<1>4. ASSUME NEW c
      PROVE /\ RowOf(f, d) = ObjectiveRow(f) /\ Column(f, d) = c =>
                  Total(f, Priced(f, E, c)) = Total(f, Priced(f, D, c)) + ValueOf(f, d)
            /\ ~(RowOf(f, d) = ObjectiveRow(f) /\ Column(f, d) = c) =>
                  Priced(f, E, c) = Priced(f, D, c)
  <2>1. RowOf(f, d) = ObjectiveRow(f) /\ Column(f, d) = c =>
           Priced(f, E, c) = Priced(f, D, c) \union {d}
    BY DEF Priced
  <2>2. ~(RowOf(f, d) = ObjectiveRow(f) /\ Column(f, d) = c) =>
           Priced(f, E, c) = Priced(f, D, c)
    BY DEF Priced
  <2>3. PICK F \in SUBSET D : F = Priced(f, D, c)
    BY DEF Priced
  <2>4. Total(f, F \union {d}) = Total(f, F) + ValueOf(f, d)
    BY <1>2
  <2> QED
    BY <2>1, <2>2, <2>3, <2>4
<1> QED
  BY <1>3, <1>4

\* What a file needs: its constraints, its columns and its terms.
Declaring0(f) == {k \in Said(f, "entries") : Declares(f, k)}
\* No part of a file is larger than its size, which is one of them.
LEMMA SizeFacts ==
    ASSUME NEW f \in Files, Understood(f)
    PROVE  /\ Cardinality(Constraints(f)) \in Nat /\ Cardinality(Declaring0(f)) \in Nat
           /\ Cardinality(Terms(f, Data(f, "entries"))) \in Nat /\ Size(f) \in Nat
           /\ Cardinality(Constraints(f)) <= Size(f) /\ Cardinality(Declaring0(f)) <= Size(f)
           /\ Cardinality(Terms(f, Data(f, "entries"))) <= Size(f)
           /\ Size(f) \in {Cardinality(Constraints(f)), Cardinality(Declaring0(f)),
                           Cardinality(Terms(f, Data(f, "entries")))}
<1>1. PICK C, E, T : C = Constraints(f) /\ E = Declaring0(f) /\ T = Terms(f, Data(f, "entries"))
  OBVIOUS
<1>2. C \in SUBSET Nat /\ IsFiniteSet(C) /\ E \in SUBSET Nat /\ IsFiniteSet(E) /\ IsFiniteSet(T)
  <2>1. C \in SUBSET Nat /\ IsFiniteSet(C)
    BY <1>1, NamesFacts
  <2>2. Said(f, "entries") \in SUBSET Nat /\ IsFiniteSet(Said(f, "entries")) /\ E \in SUBSET Said(f, "entries")
    BY <1>1, LinesFacts DEF Declaring0
  <2>3. E \in SUBSET Nat /\ IsFiniteSet(E)
    BY <2>2, FS_Subset
  <2>4. IsFiniteSet(Data(f, "entries")) /\ T \in SUBSET Data(f, "entries")
    BY <1>1, DataFacts DEF Terms
  <2>5. IsFiniteSet(T)
    BY <2>4, FS_Subset
  <2> QED
    BY <2>1, <2>3, <2>5
<1>3. Cardinality(C) \in Nat /\ Cardinality(E) \in Nat /\ Cardinality(T) \in Nat
  BY <1>2, FS_CardinalityType
<1>4. Len(ConstraintLines(f)) = Cardinality(C)
  BY <1>1, <1>2, InOrderFacts DEF ConstraintLines, Constraints
<1>5. Len(ColumnNames(f)) = Cardinality(E)
  <2>1. PICK lines : lines = InOrder(E)
    OBVIOUS
  <2>2. Len(lines) = Cardinality(E) /\ DOMAIN lines = 1 .. Cardinality(E)
    BY <1>2, <2>1, InOrderFacts
  <2>3. ColumnNames(f) = [i \in DOMAIN lines |-> Means(f, lines[i]).col]
    BY <1>1, <2>1 DEF ColumnNames, Declaring0
  <2>4. ColumnNames(f) = [i \in 1 .. Cardinality(E) |-> Means(f, lines[i]).col]
    BY <2>2, <2>3
  <2> QED
    BY <1>3, <2>4
<1>6. {d \in Data(f, "entries") : \E i \in DOMAIN ConstraintLines(f) :
                                       RowOf(f, d) = Means(f, ConstraintLines(f)[i]).name} = T
  <2>1. PICK lines : lines = InOrder(C) /\ ConstraintLines(f) = lines
    BY <1>1 DEF ConstraintLines, Constraints
  <2>2. /\ DOMAIN lines = 1 .. Cardinality(C) /\ \A i \in 1 .. Cardinality(C) : lines[i] \in C
        /\ \A k \in C : Rank(C, k) \in 1 .. Cardinality(C) /\ lines[Rank(C, k)] = k
    BY <1>2, <2>1, InOrderFacts, RankFacts
  <2>3. ASSUME NEW d \in Data(f, "entries")
        PROVE (\E i \in DOMAIN lines : RowOf(f, d) = Means(f, lines[i]).name) <=> RowOf(f, d) \in RowNames(f)
    <3>1. ASSUME NEW i \in DOMAIN lines, RowOf(f, d) = Means(f, lines[i]).name
          PROVE RowOf(f, d) \in RowNames(f)
      BY <1>1, <2>2, <3>1 DEF RowNames
    <3>2. ASSUME RowOf(f, d) \in RowNames(f)
          PROVE \E i \in DOMAIN lines : RowOf(f, d) = Means(f, lines[i]).name
      <4>1. PICK k \in C : RowOf(f, d) = Means(f, k).name
        BY <1>1, <3>2 DEF RowNames
      <4>2. PICK i : i = Rank(C, k)
        OBVIOUS
      <4>3. i \in DOMAIN lines /\ lines[i] = k
        BY <2>2, <4>2
      <4> QED
        BY <4>1, <4>3
    <3> QED
      BY <3>1, <3>2
  <2> QED
    BY <1>1, <2>1, <2>3 DEF Terms
<1>7. Size(f) = Max({Cardinality(C), Cardinality(E), Cardinality(T)})
  BY <1>4, <1>5, <1>6 DEF Size
<1>8. PICK N : N = {Cardinality(C), Cardinality(E), Cardinality(T)}
  OBVIOUS
<1>9. N \in SUBSET Nat /\ IsFiniteSet(N) /\ N # {}
  <2>1. PICK a, b, c : a = Cardinality(C) /\ b = Cardinality(E) /\ c = Cardinality(T)
    OBVIOUS
  <2>2. IsFiniteSet({a}) /\ IsFiniteSet({b}) /\ IsFiniteSet({c})
    BY ONLY FS_Singleton
  <2>3. IsFiniteSet({a} \union {b})
    BY ONLY <2>2, FS_Union
  <2>4. IsFiniteSet(({a} \union {b}) \union {c})
    BY ONLY <2>2, <2>3, FS_Union
  <2>5. N = ({a} \union {b}) \union {c}
    BY <1>8, <2>1
  <2> QED
    BY <1>3, <1>8, <2>4, <2>5
<1>10. Max(N) \in N /\ \A j \in N : j <= Max(N)
  BY <1>9, GreatestFacts
<1> QED
  BY <1>1, <1>3, <1>7, <1>8, <1>9, <1>10

\* More terms than the limit do not fit.
LEMMA TooManyTerms ==
    ASSUME NEW f \in Files, Understood(f), NEW D \in SUBSET Data(f, "entries"),
           Cardinality(Terms(f, D)) > Limit
    PROVE  ~Fits(f)
<1>1. PICK T, U : T = Terms(f, D) /\ U = Terms(f, Data(f, "entries"))
  OBVIOUS
<1>2. T \in SUBSET U
  BY <1>1 DEF Terms
<1>3. IsFiniteSet(U)
  <2>1. IsFiniteSet(Data(f, "entries")) /\ U \in SUBSET Data(f, "entries")
    BY <1>1, DataFacts DEF Terms
  <2> QED
    BY <2>1, FS_Subset
<1>4. Cardinality(T) <= Cardinality(U) /\ Cardinality(T) \in Nat /\ Cardinality(U) \in Nat
  <2>1. IsFiniteSet(T)
    BY <1>2, <1>3, FS_Subset
  <2> QED
    BY <1>2, <1>3, <2>1, FS_Subset, FS_CardinalityType
<1>5. PICK a \in Nat, b \in Nat, c \in Nat : a = Cardinality(T) /\ b = Cardinality(U) /\ c = Size(f)
  BY <1>4, SizeFacts
<1>6. a <= b /\ b <= c /\ a > Limit
  BY <1>1, <1>4, <1>5, SizeFacts
<1>7. Limit \in Nat
  BY MpsAssumption
<1> QED
  BY <1>5, <1>6, <1>7 DEF Fits

\* A state that differs only in its entries, or in its error flag.
SameButEntries(t, u) ==
    /\ u.buffered = t.buffered /\ u.rows = t.rows /\ u.types = t.types /\ u.objRow = t.objRow
    /\ u.cols = t.cols /\ u.current = t.current /\ u.var = t.var /\ u.con = t.con
    /\ u.constant = t.constant /\ u.maximize = t.maximize

\* The sequence of the first n with e after them.
Longer(more, coo, n, e) ==
    /\ DOMAIN coo = 1 .. n /\ DOMAIN more = 1 .. n + 1
    /\ more[n + 1] = e /\ \A i \in 1 .. n : more[i] = coo[i]

\* A term more at the end of the coordinates.
LEMMA TermKept ==
    ASSUME NEW f, NEW D, IsFiniteSet(Terms(f, D)), NEW d, d \notin D, RowOf(f, d) \in RowNames(f),
           NEW E, E = D \union {d},
           NEW n \in Nat, n = Cardinality(Terms(f, D)), NEW coo, NEW s, Traces(s, f, D, coo),
           NEW more, Longer(more, coo, n, Term(f, d))
    PROVE  n + 1 = Cardinality(Terms(f, E)) /\ \E r : Traces(r, f, E, more)
<1>0. /\ DOMAIN coo = 1 .. n /\ DOMAIN more = 1 .. n + 1
      /\ more[n + 1] = Term(f, d) /\ \A i \in 1 .. n : more[i] = coo[i]
  BY DEF Longer
<1>1. PICK T, U : T = Terms(f, D) /\ U = Terms(f, E)
  OBVIOUS
<1>2. U = T \union {d} /\ d \notin T
  BY <1>1 DEF Terms
<1>3. Cardinality(T) \in Nat /\ Cardinality(U) = Cardinality(T) + 1
  BY <1>1, <1>2, FS_CardinalityType, FS_AddElement
<1>6. PICK r : r = [i \in 1 .. n + 1 |-> IF i = n + 1 THEN d ELSE s[i]]
  OBVIOUS
<1>7. r[n + 1] = d /\ \A i \in 1 .. n : r[i] = s[i]
  BY <1>6
<1>8. /\ \A i \in 1 .. n : s[i] \in T /\ coo[i] = Term(f, s[i])
      /\ \A i, j \in 1 .. n : s[i] = s[j] => i = j
      /\ \A x \in T : \E i \in 1 .. n : s[i] = x
  BY <1>0, <1>1 DEF Traces
<1>9. \A i \in 1 .. n + 1 : i = n + 1 \/ i \in 1 .. n
  OBVIOUS
<1>10. \A i \in 1 .. n + 1 : r[i] \in U /\ more[i] = Term(f, r[i])
  BY <1>0, <1>2, <1>7, <1>8, <1>9
<1>11. \A i, j \in 1 .. n + 1 : r[i] = r[j] => i = j
  BY <1>2, <1>7, <1>8, <1>9
<1>12. \A x \in U : \E i \in 1 .. n + 1 : r[i] = x
  <2>1. n + 1 \in 1 .. n + 1 /\ \A i \in 1 .. n : i \in 1 .. n + 1
    OBVIOUS
  <2> QED
    BY <1>2, <1>7, <1>8, <2>1
<1>13. Traces(r, f, E, more)
  BY <1>0, <1>1, <1>10, <1>11, <1>12 DEF Traces
<1> QED
  BY <1>1, <1>3, <1>13

\* One pair of a line of entries.
LEMMA EntryHeard ==
    ASSUME NEW f \in Files, Understood(f), NEW D \in SUBSET Data(f, "entries"),
           NEW d \in Data(f, "entries"), d \notin D, NEW E, E = D \union {d},
           NEW t, Parsed(t), ~t.errorFlag, RowsSo(f, t), ToSet(t.rows) = RowNames(f), EntriesSo(f, D, t),
           NEW col, col = Column(f, d), col \in ToSet(t.cols),
           NEW pair, pair[1] = RowOf(f, d), Value(pair[2]) = ValueOf(f, d),
           NEW u, u = AddEntry(t, col, pair)
    PROVE  /\ SameButEntries(t, u)
           /\ u.errorFlag => Cardinality(Terms(f, E)) > Limit
           /\ ~u.errorFlag => EntriesSo(f, E, u)
<1>1. IsFiniteSet(D) /\ IsFiniteSet(Terms(f, D)) /\ IsFiniteSet(Data(f, "entries"))
  <2>1. IsFiniteSet(Data(f, "entries")) /\ Terms(f, D) \in SUBSET Data(f, "entries")
    BY DataFacts DEF Terms
  <2> QED
    BY <2>1, FS_Subset
<1>2. RowOf(f, d) \in STRING /\ ValueOf(f, d) \in Int
  BY DataFacts
<1>3. ObjectiveRow(f) \notin RowNames(f)
  BY NamesFacts
<1>4. PICK v \in Int : v = ValueOf(f, d)
  BY <1>2
<1>5. t.objRow = ObjectiveRow(f) /\ (Known(t.rows, pair[1]) <=> RowOf(f, d) \in RowNames(f))
  BY DEF RowsSo, Known
<1>6. CASE RowOf(f, d) = ObjectiveRow(f)
  <2>1. u = [t EXCEPT !.obj[col] = @ + v]
    BY <1>4, <1>5, <1>6 DEF AddEntry
  <2>2. PICK obj : obj = [t.obj EXCEPT ![col] = t.obj[col] + v]
    OBVIOUS
  <2>3. u = [t EXCEPT !.obj = obj]
    BY <2>1, <2>2
  <2>4. SameButEntries(t, u) /\ u.obj = obj /\ u.coo = t.coo /\ u.errorFlag = t.errorFlag
    BY <2>3 DEF SameButEntries, Parsed, Fields
  <2>5. Terms(f, E) = Terms(f, D)
    BY <1>3, <1>6 DEF Terms
  <2>6. ASSUME NEW c \in ToSet(t.cols) PROVE obj[c] = Total(f, Priced(f, E, c))
    <3>1. t.obj[c] = Total(f, Priced(f, D, c)) /\ c \in DOMAIN t.obj
      BY DEF EntriesSo, Parsed
    <3>2. /\ Column(f, d) = c => Total(f, Priced(f, E, c)) = Total(f, Priced(f, D, c)) + v
          /\ Column(f, d) # c => Priced(f, E, c) = Priced(f, D, c)
      <4>2. /\ RowOf(f, d) = ObjectiveRow(f) /\ Column(f, d) = c =>
                           Total(f, Priced(f, E, c)) = Total(f, Priced(f, D, c)) + ValueOf(f, d)
            /\ ~(RowOf(f, d) = ObjectiveRow(f) /\ Column(f, d) = c) =>
                           Priced(f, E, c) = Priced(f, D, c)
        <5>1. /\ IsFiniteSet(D) /\ d \notin D /\ ValueOf(f, d) \in Int /\ E = D \union {d}
              /\ \A e \in D : ValueOf(f, e) \in Int
          BY <1>1, <1>2, DataFacts
        <5> QED
          BY ONLY <5>1, OneMore
      <4>3. Column(f, d) = c => Total(f, Priced(f, E, c)) = Total(f, Priced(f, D, c)) + ValueOf(f, d)
        BY ONLY <1>6, <4>2
      <4>4. Column(f, d) # c => Priced(f, E, c) = Priced(f, D, c)
        BY ONLY <4>2
      <4>5. v = ValueOf(f, d)
        BY <1>4
      <4> QED
        BY ONLY <4>3, <4>4, <4>5
    <3>3. CASE c = col
      BY <2>2, <3>1, <3>2, <3>3
    <3>4. CASE c # col
      BY <2>2, <3>1, <3>2, <3>4
    <3> QED
      BY <3>3, <3>4
  <2>7. \E s : Traces(s, f, E, t.coo)
    <3>1. PICK s : Traces(s, f, D, t.coo)
      BY DEF EntriesSo
    <3>2. Traces(s, f, E, t.coo)
      BY <2>5, <3>1 DEF Traces
    <3> QED
      BY <3>2
  <2>8. Len(t.coo) = Cardinality(Terms(f, E)) /\ u.cols = t.cols
    BY <2>4, <2>5 DEF EntriesSo, SameButEntries
  <2> QED
    BY <2>4, <2>6, <2>7, <2>8 DEF EntriesSo
<1>7. \A c : RowOf(f, d) # ObjectiveRow(f) => Priced(f, E, c) = Priced(f, D, c)
  BY DEF Priced
<1>8. CASE RowOf(f, d) # ObjectiveRow(f) /\ RowOf(f, d) \notin RowNames(f)
  <2>1. u = t
    BY <1>5, <1>8 DEF AddEntry
  <2>2. Terms(f, E) = Terms(f, D)
    BY <1>8 DEF Terms
  <2>3. \E s : Traces(s, f, E, t.coo)
    <3>1. PICK s : Traces(s, f, D, t.coo)
      BY DEF EntriesSo
    <3>2. Traces(s, f, E, t.coo)
      BY <2>2, <3>1 DEF Traces
    <3> QED
      BY <3>2
  <2> QED
    BY <1>7, <1>8, <2>1, <2>2, <2>3 DEF EntriesSo, SameButEntries
<1>9. CASE RowOf(f, d) # ObjectiveRow(f) /\ RowOf(f, d) \in RowNames(f) /\ Len(t.coo) >= Limit
  <2>1. u = [t EXCEPT !.errorFlag = TRUE]
    BY <1>5, <1>9 DEF AddEntry
  <2>2. SameButEntries(t, u) /\ u.errorFlag = TRUE
    BY <2>1 DEF SameButEntries, Parsed, Fields
  <2>3. Terms(f, E) = Terms(f, D) \union {d} /\ d \notin Terms(f, D)
    BY <1>9 DEF Terms
  <2>4. Cardinality(Terms(f, E)) = Cardinality(Terms(f, D)) + 1 /\ Cardinality(Terms(f, D)) \in Nat
    BY <1>1, <2>3, FS_AddElement, FS_CardinalityType
  <2>5. Len(t.coo) = Cardinality(Terms(f, D))
    BY DEF EntriesSo
  <2>6. Cardinality(Terms(f, E)) > Limit
    BY <1>9, <2>4, <2>5, MpsAssumption
  <2> QED
    BY <2>2, <2>6
<1>10. CASE RowOf(f, d) # ObjectiveRow(f) /\ RowOf(f, d) \in RowNames(f) /\ ~(Len(t.coo) >= Limit)
  <2>1. PICK e : e = Term(f, d) /\ e = [row |-> pair[1], col |-> col, value |-> Value(pair[2])]
    BY DEF Term
  <2>2. PICK coo : coo = Append(t.coo, e)
    OBVIOUS
  <2>3. u = [t EXCEPT !.coo = coo]
    BY <1>5, <1>10, <2>1, <2>2 DEF AddEntry
  <2>4. SameButEntries(t, u) /\ u.obj = t.obj /\ u.coo = coo /\ u.errorFlag = t.errorFlag
    BY <2>3 DEF SameButEntries, Parsed, Fields
  <2>5. PICK S, seq : S = [row : STRING, col : STRING, value : Int] /\ seq = t.coo /\ seq \in Seq(S) /\ e \in S
    <3>1. t.coo \in Seq([row : STRING, col : STRING, value : Int])
      BY DEF Parsed
    <3>2. col \in STRING
      BY DEF Parsed, ToSet
    <3>3. e \in [row : STRING, col : STRING, value : Int]
      <4>1. pair[1] \in STRING /\ Value(pair[2]) \in Int
        BY <1>2
      <4> QED
        BY ONLY <2>1, <3>2, <4>1
    <3> QED
      BY <3>1, <3>3
  <2>6. PICK s : Traces(s, f, D, seq)
    BY <2>5 DEF EntriesSo
  <2>7. Len(seq) = Cardinality(Terms(f, D)) /\ coo = Append(seq, e)
    BY <2>2, <2>5 DEF EntriesSo
  <2>8. Len(coo) = Cardinality(Terms(f, E)) /\ \E r : Traces(r, f, E, coo)
    <3>1. IsFiniteSet(Terms(f, D)) /\ d \notin D /\ RowOf(f, d) \in RowNames(f) /\ e = Term(f, d)
          /\ E = D \union {d}
      BY <1>1, <1>10, <2>1
    <3>2. PICK n \in Nat : n = Len(seq)
      BY <2>5
    <3>3. DOMAIN seq = 1 .. n /\ n = Cardinality(Terms(f, D))
      BY ONLY <2>5, <2>7, <3>2
    <3>4. /\ Len(coo) = n + 1 /\ DOMAIN coo = 1 .. n + 1 /\ coo[n + 1] = e
          /\ \A i \in 1 .. n : coo[i] = seq[i]
      <4>1. seq \in Seq(S) /\ e \in S /\ coo = Append(seq, e) /\ n = Len(seq)
        BY <2>5, <2>7, <3>2
      <4>2. coo \in Seq(S) /\ Len(coo) = Len(seq) + 1 /\ coo[Len(seq) + 1] = e
            /\ \A i \in 1 .. Len(seq) : coo[i] = seq[i]
        BY ONLY <4>1
      <4> QED
        BY ONLY <4>1, <4>2
    <3>5. /\ n + 1 = Cardinality(Terms(f, E))
          /\ \E r : Traces(r, f, E, coo)
      <4>1. Longer(coo, seq, n, Term(f, d))
        BY ONLY <3>1, <3>3, <3>4 DEF Longer
      <4>2. n \in Nat /\ n = Cardinality(Terms(f, D))
        BY <3>3
      <4> QED
        BY ONLY <2>6, <3>1, <4>1, <4>2, TermKept
    <3> QED
      BY <3>4, <3>5
  <2>9. u.cols = t.cols /\ u.obj = t.obj /\ u.coo = coo
    BY ONLY <2>4 DEF SameButEntries
  <2>10. \A c \in ToSet(t.cols) : t.obj[c] = Total(f, Priced(f, E, c))
    <3>1. \A c \in ToSet(t.cols) : t.obj[c] = Total(f, Priced(f, D, c))
      BY DEF EntriesSo
    <3>2. \A c : Priced(f, E, c) = Priced(f, D, c)
      BY <1>7, <1>10
    <3> QED
      BY ONLY <3>1, <3>2
  <2>11. EntriesSo(f, E, u)
    BY ONLY <2>8, <2>9, <2>10 DEF EntriesSo
  <2>12. ~u.errorFlag
    BY <2>4
  <2> QED
    BY ONLY <2>4, <2>11, <2>12
<1> QED
  BY <1>6, <1>8, <1>9, <1>10

\* A row has one side and one range at most: the one heard is all of it.
LEMMA SideAlone ==
    ASSUME NEW f \in Files, Understood(f), NEW kind \in {"rhs", "range"},
           NEW A \in SUBSET Data(f, kind), NEW d \in Data(f, kind), d \notin A, NEW E, E = A \union {d},
           NEW row, row = RowOf(f, d)
    PROVE  /\ Of(f, A, row) = {} /\ Of(f, E, row) # {} /\ Total(f, Of(f, E, row)) = ValueOf(f, d)
           /\ Total(f, {}) = 0 /\ ValueOf(f, d) \in Int
           /\ \A name : name # row => Of(f, E, name) = Of(f, A, name)
           /\ \A name : Total(f, Of(f, A, name)) \in Int
<1>1. \A e \in Data(f, kind) : RowOf(f, e) = row => e = d
  BY DEF Understood
<1>2. Of(f, A, row) = {} /\ Of(f, E, row) = {d}
  BY <1>1 DEF Of
<1>3. \A name : name # row => Of(f, E, name) = Of(f, A, name)
  BY DEF Of
<1>4. ValueOf(f, d) \in Int /\ IsFiniteSet(Data(f, kind)) /\ \A e \in Data(f, kind) : ValueOf(f, e) \in Int
  BY DataFacts
<1>5. ASSUME NEW D \in SUBSET Data(f, kind)
      PROVE  /\ Total(f, {}) = 0 /\ Total(f, D) \in Int
             /\ \A e : e \notin D /\ ValueOf(f, e) \in Int =>
                          Total(f, D \union {e}) = Total(f, D) + ValueOf(f, e)
  <2>1. IsFiniteSet(D) /\ \A e \in D : ValueOf(f, e) \in Int
    BY <1>4, FS_Subset
  <2> QED
    BY <2>1, TotalWith
<1>6. Total(f, {}) = 0
  BY <1>5
<1>7. PICK D : D = {}
  OBVIOUS
<1>12. PICK F : F = D \union {d}
  OBVIOUS
<1>13. D \in SUBSET Data(f, kind)
  BY <1>7
<1>8. Total(f, F) = Total(f, D) + ValueOf(f, d) /\ F = {d} /\ Total(f, D) = 0
  <2>1. d \notin D
    BY <1>7
  <2>2. Total(f, D \union {d}) = Total(f, D) + ValueOf(f, d)
    BY <1>4, <1>5, <1>13, <2>1
  <2>3. F = {d}
    BY <1>7, <1>12
  <2> QED
    BY <1>6, <1>7, <1>12, <2>2, <2>3
<1>9. Total(f, Of(f, E, row)) = ValueOf(f, d)
  <2>1. PICK v \in Int : v = ValueOf(f, d)
    BY <1>4
  <2>2. Of(f, E, row) = F /\ Total(f, F) = 0 + v
    BY <1>2, <1>8, <2>1
  <2>3. 0 + v = v
    BY <2>1
  <2> QED
    BY ONLY <2>1, <2>2, <2>3
<1>10. ASSUME NEW name PROVE Total(f, Of(f, A, name)) \in Int
  <2>1. Of(f, A, name) \in SUBSET Data(f, kind)
    BY DEF Of
  <2> QED
    BY <1>5, <2>1
<1> QED
  BY <1>2, <1>3, <1>4, <1>6, <1>9, <1>10

\* An interval of the parser's becomes the side of one more value.
LEMMA SideHeard ==
    ASSUME NEW f \in Files, Understood(f), NEW A \in SUBSET Data(f, "rhs"),
           NEW d \in Data(f, "rhs"), d \notin A, NEW E, E = A \union {d}, NEW B, B = {},
           NEW t, Parsed(t), RowsSo(f, t), ToSet(t.rows) = RowNames(f), SidesSo(f, A, B, t),
           NEW row, row = RowOf(f, d), NEW v, v = ValueOf(f, d), NEW u, u = SetRhs(t, row, v)
    PROVE  /\ SidesSo(f, E, B, u) /\ SameTables(t, u) /\ u.var = t.var
           /\ u.buffered = t.buffered /\ u.maximize = t.maximize /\ u.errorFlag = t.errorFlag
<1>0. PICK kind \in {"rhs", "range"} : kind = "rhs"
  OBVIOUS
<1>1. /\ Of(f, A, row) = {} /\ Total(f, Of(f, E, row)) = v /\ Total(f, {}) = 0 /\ v \in Int
      /\ \A name : name # row => Of(f, E, name) = Of(f, A, name)
      /\ \A name : Total(f, Of(f, A, name)) \in Int
  <2>1. /\ f \in Files /\ Understood(f) /\ A \in SUBSET Data(f, kind) /\ d \in Data(f, kind)
        /\ d \notin A /\ E = A \union {d} /\ row = RowOf(f, d) /\ v = ValueOf(f, d)
    BY <1>0
  <2>21. Of(f, A, row) = {}
    BY ONLY <1>0, <2>1, SideAlone
  <2>22. Of(f, E, row) # {}
    BY ONLY <1>0, <2>1, SideAlone
  <2>23. Total(f, Of(f, E, row)) = v
    BY ONLY <1>0, <2>1, SideAlone
  <2>24. Total(f, {}) = 0
    BY ONLY <1>0, <2>1, SideAlone
  <2>25. v \in Int
    BY ONLY <1>0, <2>1, SideAlone
  <2>26. \A name : name # row => Of(f, E, name) = Of(f, A, name)
    BY ONLY <1>0, <2>1, SideAlone
  <2>3. \A name : Total(f, Of(f, A, name)) \in Int
    BY ONLY <1>0, <2>1, SideAlone
  <2> QED
    BY ONLY <2>21, <2>22, <2>23, <2>24, <2>25, <2>26, <2>3
<1>2. t.objRow = ObjectiveRow(f) /\ (Known(t.rows, row) <=> row \in RowNames(f))
      /\ ObjectiveRow(f) \notin RowNames(f)
  BY NamesFacts DEF RowsSo, Known
<1>3. \A name : Of(f, B, name) = {}
  BY DEF Of
<1>4. /\ t.constant = -Total(f, Of(f, A, ObjectiveRow(f))) /\ DOMAIN t.con = RowNames(f)
      /\ \A l \in Constraints(f) : t.con[Means(f, l).name] = Side(f, l, A, B)
  BY DEF SidesSo
<1>5. \A l \in Constraints(f) : Means(f, l).name # row => Side(f, l, E, B) = Side(f, l, A, B)
  <2>1. ASSUME NEW l \in Constraints(f), Means(f, l).name # row
        PROVE  Side(f, l, E, B) = Side(f, l, A, B)
    <3>1. Of(f, E, Means(f, l).name) = Of(f, A, Means(f, l).name)
      BY <1>1, <2>1
    <3> QED
      BY <3>1 DEF Side
  <2> QED
    BY <2>1
<1>6. row # ObjectiveRow(f) => Of(f, E, ObjectiveRow(f)) = Of(f, A, ObjectiveRow(f))
  BY <1>1
<1>7. \A l \in Constraints(f) : Means(f, l).name \in RowNames(f)
  BY DEF RowNames
<1>8. CASE row = ObjectiveRow(f)
  <2>1. PICK c : c = -v
    OBVIOUS
  <2>2. u = [t EXCEPT !.constant = c]
    BY <1>2, <1>8, <2>1 DEF SetRhs
  <2>3. /\ SameTables(t, u) /\ u.var = t.var /\ u.con = t.con /\ u.constant = c
        /\ u.buffered = t.buffered /\ u.maximize = t.maximize /\ u.errorFlag = t.errorFlag
    BY <2>2 DEF Parsed, Fields, SameTables
  <2>4. \A l \in Constraints(f) : u.con[Means(f, l).name] = Side(f, l, E, B)
    <3>1. \A l \in Constraints(f) : Means(f, l).name # row
      BY <1>2, <1>7, <1>8
    <3> QED
      BY <1>4, <1>5, <2>3, <3>1
  <2>5. u.constant = -Total(f, Of(f, E, ObjectiveRow(f)))
    BY <1>1, <1>8, <2>1, <2>3
  <2> QED
    BY <1>4, <2>3, <2>4, <2>5 DEF SidesSo
<1>9. CASE row # ObjectiveRow(f) /\ row \notin RowNames(f)
  <2>1. u = t
    BY <1>2, <1>9 DEF SetRhs
  <2>2. \A l \in Constraints(f) : Means(f, l).name # row
    BY <1>7, <1>9
  <2>3. SidesSo(f, E, B, u)
    BY <1>4, <1>5, <1>6, <1>9, <2>1, <2>2 DEF SidesSo
  <2> QED
    BY <2>1, <2>3 DEF SameTables
<1>10. CASE row # ObjectiveRow(f) /\ row \in RowNames(f)
  <2>1. PICK l \in Constraints(f) : Means(f, l).name = row
    BY <1>10 DEF RowNames
  <2>2. t.types[row] = Means(f, l).type /\ Means(f, l).type \in {"L", "E", "G"}
    BY <2>1, NamesFacts DEF RowsSo
  <2>3. PICK pair : pair = CASE t.types[row] = "L" -> <<t.con[row][1], v>>
                             [] t.types[row] = "G" -> <<v, t.con[row][2]>>
                             [] OTHER -> <<v, v>>
    OBVIOUS
  <2>4. PICK con : con = [t.con EXCEPT ![row] = pair]
    OBVIOUS
  <2>5. u = [t EXCEPT !.con = con]
    BY <1>2, <1>10, <2>3, <2>4 DEF SetRhs
  <2>6. /\ SameTables(t, u) /\ u.var = t.var /\ u.con = con /\ u.constant = t.constant
        /\ u.buffered = t.buffered /\ u.maximize = t.maximize /\ u.errorFlag = t.errorFlag
    BY <2>5 DEF Parsed, Fields, SameTables
  <2>7. pair = Side(f, l, E, B)
    <3>0. t.con[row] = Side(f, l, A, B)
      BY <1>4, <2>1
    <3>1. t.con[row] = CASE Means(f, l).type = "L" -> <<-Inf, 0>>
                         [] Means(f, l).type = "G" -> <<0, Inf>>
                         [] Means(f, l).type = "E" -> <<0, 0>>
      <4>1. 0 + 0 = 0 /\ ~(0 < 0)
        OBVIOUS
      <4>2. /\ Total(f, Of(f, A, Means(f, l).name)) = 0 /\ Of(f, B, Means(f, l).name) = {}
            /\ Total(f, Of(f, B, Means(f, l).name)) = 0
        BY <1>1, <1>3, <2>1
      <4> QED
        BY ONLY <2>2, <3>0, <4>1, <4>2 DEF Side
    <3>2. Side(f, l, E, B) = CASE Means(f, l).type = "L" -> <<-Inf, v>>
                               [] Means(f, l).type = "G" -> <<v, Inf>>
                               [] Means(f, l).type = "E" -> <<v, v>>
      <4>1. v + 0 = v
        BY <1>1
      <4> QED
        BY <1>1, <1>3, <2>1, <2>2, <4>1 DEF Side
    <3> QED
      BY ONLY <2>2, <2>3, <3>1, <3>2
  <2>8. ASSUME NEW j \in Constraints(f) PROVE con[Means(f, j).name] = Side(f, j, E, B)
    <3>1. CASE j = l
      BY <1>4, <1>10, <2>1, <2>4, <2>7, <3>1
    <3>2. CASE j # l
      <4>1. Means(f, j).name # row
        BY <2>1, <3>2, NamesFacts
      <4>2. con[Means(f, j).name] = t.con[Means(f, j).name]
        BY <1>4, <1>7, <2>4, <4>1
      <4> QED
        BY <1>4, <1>5, <4>1, <4>2
    <3> QED
      BY <3>1, <3>2
  <2>9. DOMAIN con = RowNames(f)
    BY <1>4, <2>4
  <2>10. u.constant = -Total(f, Of(f, E, ObjectiveRow(f)))
    BY <1>4, <1>6, <1>10, <2>6
  <2>11. SidesSo(f, E, B, u)
    BY ONLY <2>6, <2>8, <2>9, <2>10 DEF SidesSo
  <2> QED
    BY <2>6, <2>11
<1> QED
  BY <1>8, <1>9, <1>10

\* And its range, which follows it.
LEMMA RangeHeard ==
    ASSUME NEW f \in Files, Understood(f), NEW A \in SUBSET Data(f, "rhs"), NEW B \in SUBSET Data(f, "range"),
           NEW d \in Data(f, "range"), d \notin B, NEW E, E = B \union {d},
           NEW t, Parsed(t), RowsSo(f, t), ToSet(t.rows) = RowNames(f), SidesSo(f, A, B, t),
           NEW row, row = RowOf(f, d), NEW v, v = ValueOf(f, d), NEW u, u = SetRange(t, row, v)
    PROVE  /\ SidesSo(f, A, E, u) /\ SameTables(t, u) /\ u.var = t.var
           /\ u.buffered = t.buffered /\ u.maximize = t.maximize /\ u.errorFlag = t.errorFlag
<1>1. /\ Of(f, B, row) = {} /\ Of(f, E, row) # {} /\ Total(f, Of(f, E, row)) = v /\ Total(f, {}) = 0 /\ v \in Int
      /\ \A name : name # row => Of(f, E, name) = Of(f, B, name)
  BY SideAlone
<1>2. Known(t.rows, row) <=> row \in RowNames(f)
  BY DEF Known
<1>4. /\ t.constant = -Total(f, Of(f, A, ObjectiveRow(f))) /\ DOMAIN t.con = RowNames(f)
      /\ \A l \in Constraints(f) : t.con[Means(f, l).name] = Side(f, l, A, B)
  BY DEF SidesSo
<1>5. \A l \in Constraints(f) : Means(f, l).name # row => Side(f, l, A, E) = Side(f, l, A, B)
  <2>1. ASSUME NEW l \in Constraints(f), Means(f, l).name # row
        PROVE  Side(f, l, A, E) = Side(f, l, A, B)
    <3>1. Of(f, E, Means(f, l).name) = Of(f, B, Means(f, l).name)
      BY <1>1, <2>1
    <3> QED
      BY <3>1 DEF Side
  <2> QED
    BY <2>1
<1>7. \A l \in Constraints(f) : Means(f, l).name \in RowNames(f)
  BY DEF RowNames
<1>9. CASE row \notin RowNames(f)
  <2>1. u = t
    BY <1>2, <1>9 DEF SetRange
  <2>2. \A l \in Constraints(f) : Means(f, l).name # row
    BY <1>7, <1>9
  <2>3. SidesSo(f, A, E, u)
    BY <1>4, <1>5, <2>1, <2>2 DEF SidesSo
  <2> QED
    BY <2>1, <2>3 DEF SameTables
<1>10. CASE row \in RowNames(f)
  <2>1. PICK l \in Constraints(f) : Means(f, l).name = row
    BY <1>10 DEF RowNames
  <2>2. t.types[row] = Means(f, l).type /\ Means(f, l).type \in {"L", "E", "G"}
    BY <2>1, NamesFacts DEF RowsSo
  <2>3. PICK pair : pair = CASE t.types[row] = "G" -> <<t.con[row][1], t.con[row][1] + Abs(v)>>
                             [] t.types[row] = "L" -> <<t.con[row][2] - Abs(v), t.con[row][2]>>
                             [] t.types[row] = "E" /\ v >= 0 -> <<t.con[row][1], t.con[row][1] + v>>
                             [] OTHER -> <<t.con[row][1] + v, t.con[row][2]>>
    OBVIOUS
  <2>4. PICK con : con = [t.con EXCEPT ![row] = pair]
    OBVIOUS
  <2>5. u = [t EXCEPT !.con = con]
    BY <1>2, <1>10, <2>3, <2>4 DEF SetRange
  <2>6. /\ SameTables(t, u) /\ u.var = t.var /\ u.con = con /\ u.constant = t.constant
        /\ u.buffered = t.buffered /\ u.maximize = t.maximize /\ u.errorFlag = t.errorFlag
    BY <2>5 DEF Parsed, Fields, SameTables
  <2>7. pair = Side(f, l, A, E)
    <3>1. PICK rhs \in Int : rhs = Total(f, Of(f, A, row))
      <4>1. IsFiniteSet(Data(f, "rhs")) /\ \A e \in Data(f, "rhs") : ValueOf(f, e) \in Int
        BY DataFacts
      <4>2. PICK D \in SUBSET Data(f, "rhs") : D = Of(f, A, row)
        BY DEF Of
      <4>3. IsFiniteSet(D) /\ \A e \in D : ValueOf(f, e) \in Int
        BY <4>1, <4>2, FS_Subset
      <4>4. Total(f, D) \in Int
        BY <4>3, TotalWith
      <4> QED
        BY <4>2, <4>4
    <3>0. t.con[row] = Side(f, l, A, B)
      BY <1>4, <2>1
    <3>2. t.con[row] = CASE Means(f, l).type = "L" -> <<-Inf, rhs>>
                         [] Means(f, l).type = "G" -> <<rhs, Inf>>
                         [] Means(f, l).type = "E" -> <<rhs, rhs>>
      <4>1. rhs + 0 = rhs
        OBVIOUS
      <4> QED
        BY <1>1, <2>1, <2>2, <3>0, <3>1, <4>1 DEF Side
    <3>3. Side(f, l, A, E) = CASE Means(f, l).type = "L" -> <<rhs - Abs(v), rhs>>
                               [] Means(f, l).type = "G" -> <<rhs, rhs + Abs(v)>>
                               [] Means(f, l).type = "E" -> IF v < 0 THEN <<rhs + v, rhs>> ELSE <<rhs, rhs + v>>
      BY <1>1, <2>1, <2>2, <3>1 DEF Side
    <3>4. v >= 0 <=> ~(v < 0)
      BY <1>1
    <3> QED
      BY ONLY <2>2, <2>3, <3>2, <3>3, <3>4
  <2>8. ASSUME NEW j \in Constraints(f) PROVE con[Means(f, j).name] = Side(f, j, A, E)
    <3>1. CASE j = l
      BY <1>4, <1>10, <2>1, <2>4, <2>7, <3>1
    <3>2. CASE j # l
      <4>1. Means(f, j).name # row
        BY <2>1, <3>2, NamesFacts
      <4>2. con[Means(f, j).name] = t.con[Means(f, j).name]
        BY <1>4, <1>7, <2>4, <4>1
      <4> QED
        BY <1>4, <1>5, <4>1, <4>2
    <3> QED
      BY <3>1, <3>2
  <2>9. DOMAIN con = RowNames(f)
    BY <1>4, <2>4
  <2>11. SidesSo(f, A, E, u)
    BY ONLY <1>4, <2>6, <2>8, <2>9 DEF SidesSo
  <2> QED
    BY <2>6, <2>11
<1> QED
  BY <1>9, <1>10

------------------------------------------------------------------------------
(* The folds over the pairs of a line and over the buffered rows.          *)

\* States that differ only in their rows, or only in their sides.
SameButRows(t, u) ==
    /\ u.buffered = t.buffered /\ u.objRow = t.objRow /\ u.cols = t.cols /\ u.current = t.current
    /\ u.coo = t.coo /\ u.obj = t.obj /\ u.var = t.var /\ u.constant = t.constant
    /\ u.maximize = t.maximize
SameButSides(t, u) ==
    /\ SameTables(t, u) /\ u.var = t.var /\ u.buffered = t.buffered
    /\ u.maximize = t.maximize /\ u.errorFlag = t.errorFlag

\* The rows after the objective is taken out, and the constraints of the
\* first i of them.
Others(f) == Said(f, "row") \ {Min(FreeRows(f))}
Listed(f, i) == {l \in Constraints(f) : Rank(Others(f), l) <= i}
ListedSo(f, i, t) ==
    /\ Lists(t.rows, Listed(f, i), NameItem(f))
    /\ \A l \in Listed(f, i) :
          Means(f, l).name \in DOMAIN t.types /\ t.types[Means(f, l).name] = Means(f, l).type

\* What a fold over the pairs of line k has done to base after i of them.
Through(kind, f, k, base, i, t) ==
    /\ Parsed(t)
    /\ kind = "entry" =>
          SameButEntries(base, t) /\ (base.errorFlag => t.errorFlag)
          /\ IF t.errorFlag THEN ~Fits(f) ELSE EntriesSo(f, HeardTo(f, "entries", k, i), t)
    /\ kind = "rhs" =>
          SameButSides(base, t) /\ SidesSo(f, HeardTo(f, "rhs", k, i), Heard(f, "range", k), t)
    /\ kind = "range" =>
          SameButSides(base, t) /\ SidesSo(f, Heard(f, "rhs", k), HeardTo(f, "range", k, i), t)
    /\ kind = "row" =>
          SameButRows(base, t) /\ (IF t.errorFlag THEN ~Fits(f) ELSE ListedSo(f, i, t))

\* What every step of a fold keeps holds at its end.
LEMMA ThroughAll ==
    ASSUME NEW n \in Nat, NEW base, NEW kind, NEW seq, NEW of, NEW end,
           Passes(n, base, kind, seq, of, end), NEW f, NEW k, Through(kind, f, k, base, 0, base),
           \A t : \A i \in 1 .. n : Through(kind, f, k, base, i - 1, t) =>
                                       Through(kind, f, k, base, i, FoldStep(kind, seq, of, t, i))
    PROVE  Through(kind, f, k, base, n, end)
<1>1. PICK g : /\ g[0] = base /\ g[n] = end
               /\ \A i \in 1 .. n : g[i] = FoldStep(kind, seq, of, g[i - 1], i)
  BY DEF Passes
<1> DEFINE B == {i \in Nat : i <= n => Through(kind, f, k, base, i, g[i])}
<1>2. 0 \in B
  BY <1>1
<1>3. ASSUME NEW i \in B PROVE i + 1 \in B
  <2> SUFFICES ASSUME i + 1 <= n PROVE Through(kind, f, k, base, i + 1, g[i + 1])
    OBVIOUS
  <2>1. i \in Nat /\ i + 1 \in 1 .. n /\ (i + 1) - 1 = i /\ Through(kind, f, k, base, i, g[i])
    OBVIOUS
  <2>2. g[i + 1] = FoldStep(kind, seq, of, g[i], i + 1)
    BY <1>1, <2>1
  <2> HIDE DEF B
  <2> QED
    BY <2>1, <2>2
<1>4. B = Nat
  <2>1. B \in SUBSET Nat
    OBVIOUS
  <2> HIDE DEF B
  <2> QED
    BY <1>2, <1>3, <2>1, Induction
<1>5. Through(kind, f, k, base, n, g[n])
  BY <1>4
<1> QED
  BY <1>1, <1>5

\* The pairs of the words are those they list.
LEMMA ListedPairs ==
    ASSUME NEW S, NEW w \in Seq(S), NEW start \in {0, 1}, NEW T, NEW data \in Seq(T), ListPairs(w, start, data)
    PROVE  /\ DOMAIN Pairs(w, start) = 1 .. Len(data)
           /\ \A i \in 1 .. Len(data) : /\ Pairs(w, start)[i][1] = data[i][1]
                                        /\ Value(Pairs(w, start)[i][2]) = data[i][2]
<1>1. PICK n \in Nat : n = Len(data) /\ DOMAIN data = 1 .. n
  OBVIOUS
<1>2. Len(w) = start + 2 * n /\ \A i \in 1 .. n : /\ w[start + 2 * i - 1] = data[i][1]
                                                  /\ Value(w[start + 2 * i]) = data[i][2]
  BY <1>1 DEF ListPairs, Numeral
<1>3. (Len(w) - start) \div 2 = n
  BY <1>2
<1>4. Pairs(w, start) = [i \in 1 .. n |-> <<w[start + 2 * i - 1], w[start + 2 * i]>>]
  BY <1>3 DEF Pairs
<1>5. \A i \in 1 .. n : /\ Pairs(w, start)[i][1] = w[start + 2 * i - 1]
                        /\ Pairs(w, start)[i][2] = w[start + 2 * i]
  BY <1>4
<1> QED
  BY <1>1, <1>2, <1>4, <1>5

\* The words of line k, as pairs.
SaysPairs(f, k, seq) ==
    /\ DOMAIN seq = 1 .. Len(Means(f, k).data) /\ seq \in Seq(STRING \X STRING)
    /\ \A i \in 1 .. Len(Means(f, k).data) : /\ seq[i][1] = RowOf(f, <<k, i>>)
                                             /\ Value(seq[i][2]) = ValueOf(f, <<k, i>>)

\* The pairs listed by the words of a line are its data.
LEMMA SpelledPairs ==
    ASSUME NEW f \in Files, Understood(f), NEW kind \in {"entries", "rhs", "range"}, NEW k \in Said(f, kind),
           NEW w \in Seq(STRING), NEW start \in {0, 1}, ListPairs(w, start, Means(f, k).data)
    PROVE  SaysPairs(f, k, Pairs(w, start)) /\ Len(Means(f, k).data) \in Nat
<1>1. PICK data \in Seq(STRING \X Int) : data = Means(f, k).data
  BY MeaningFacts
<1>2. PICK S, T : S = STRING /\ T = STRING \X Int
  OBVIOUS
<1>5. w \in Seq(S) /\ data \in Seq(T) /\ ListPairs(w, start, data) /\ start \in {0, 1}
  BY <1>1, <1>2
<1>3. /\ DOMAIN Pairs(w, start) = 1 .. Len(data)
      /\ \A i \in 1 .. Len(data) : /\ Pairs(w, start)[i][1] = data[i][1]
                                   /\ Value(Pairs(w, start)[i][2]) = data[i][2]
  BY ONLY <1>5, ListedPairs
<1>6. Pairs(w, start) \in Seq(STRING \X STRING)
  BY PairsAreSeq
<1>4. \A i : RowOf(f, <<k, i>>) = data[i][1] /\ ValueOf(f, <<k, i>>) = data[i][2]
  BY <1>1 DEF RowOf, ValueOf
<1>7. PICK p, n : p = Pairs(w, start) /\ n = Len(data)
  OBVIOUS
<1>8. \A i \in 1 .. n : p[i][1] = RowOf(f, <<k, i>>) /\ Value(p[i][2]) = ValueOf(f, <<k, i>>)
  BY ONLY <1>3, <1>4, <1>7
<1>9. DOMAIN p = 1 .. n /\ p \in Seq(STRING \X STRING) /\ n = Len(Means(f, k).data)
  BY ONLY <1>1, <1>3, <1>6, <1>7
<1>10. SaysPairs(f, k, p)
  BY ONLY <1>8, <1>9 DEF SaysPairs
<1>11. Len(data) \in Nat
  BY <1>1
<1> QED
  BY ONLY <1>1, <1>7, <1>10, <1>11

\* The next pair of a line.
LEMMA PairNext ==
    ASSUME NEW f \in Files, Understood(f), NEW kind \in {"entries", "rhs", "range"}, NEW k \in Said(f, kind),
           NEW i \in 1 .. Len(Means(f, k).data)
    PROVE  \E d, D, E : /\ d = <<k, i>> /\ D = HeardTo(f, kind, k, i - 1) /\ E = HeardTo(f, kind, k, i)
                        /\ d \in Data(f, kind) /\ d \notin D /\ D \in SUBSET Data(f, kind)
                        /\ E \in SUBSET Data(f, kind) /\ E = D \union {d} /\ d[1] = k
<1>1. k \in Nat
  BY LinesFacts
<1>2. /\ \A j \in Nat : HeardTo(f, kind, k, j) \in SUBSET Data(f, kind)
      /\ \A j \in 1 .. Len(Means(f, k).data) :
            /\ <<k, j>> \in Data(f, kind) /\ <<k, j>> \notin HeardTo(f, kind, k, j - 1)
            /\ HeardTo(f, kind, k, j) = HeardTo(f, kind, k, j - 1) \union {<<k, j>>}
  BY <1>1, HeardFacts
<1>3. PICK d, D, E : d = <<k, i>> /\ D = HeardTo(f, kind, k, i - 1) /\ E = HeardTo(f, kind, k, i)
  OBVIOUS
<1>4. i \in Nat /\ i - 1 \in Nat
  OBVIOUS
<1>5. d[1] = k
  BY <1>3
<1>6. d \in Data(f, kind) /\ d \notin D /\ E = D \union {d}
  BY <1>2, <1>3
<1>7. D \in SUBSET Data(f, kind) /\ E \in SUBSET Data(f, kind)
  BY <1>2, <1>3, <1>4
<1> QED
  BY <1>3, <1>5, <1>6, <1>7

LEMMA HeardEnds ==
    ASSUME NEW f \in Files, Understood(f), NEW kind \in {"entries", "rhs", "range"}, NEW k \in Said(f, kind)
    PROVE  /\ HeardTo(f, kind, k, 0) = Heard(f, kind, k)
           /\ HeardTo(f, kind, k, Len(Means(f, k).data)) = Heard(f, kind, k + 1)
           /\ Len(Means(f, k).data) \in Nat /\ k \in Nat
<1>1. k \in Nat
  BY LinesFacts
<1>2. PICK S : Means(f, k).data \in Seq(S)
  BY MeaningFacts
<1> QED
  BY <1>1, <1>2, HeardFacts

\* All the pairs of a line of entries.
LEMMA EntriesHeard ==
    ASSUME NEW f \in Files, Understood(f), NEW k \in Said(f, "entries"),
           NEW base, Parsed(base), RowsSo(f, base), ToSet(base.rows) = RowNames(f),
           IF base.errorFlag THEN ~Fits(f) ELSE EntriesSo(f, Heard(f, "entries", k), base),
           NEW col, base.errorFlag \/ col \in ToSet(base.cols), col = Means(f, k).col,
           NEW seq, SaysPairs(f, k, seq), NEW end, end = EntriesOf(base, col, seq)
    PROVE  /\ SameButEntries(base, end)
           /\ IF end.errorFlag THEN ~Fits(f) ELSE EntriesSo(f, Heard(f, "entries", k + 1), end)
           /\ base.errorFlag => end.errorFlag
<1>1. PICK kind \in {"entries", "rhs", "range"} : kind = "entries"
  OBVIOUS
<1>2. PICK n \in Nat : n = Len(Means(f, k).data)
  BY <1>1, HeardEnds
<1>3. HeardTo(f, "entries", k, 0) = Heard(f, "entries", k)
      /\ HeardTo(f, "entries", k, n) = Heard(f, "entries", k + 1)
  BY <1>1, <1>2, HeardEnds
<1>4. /\ DOMAIN seq = 1 .. n /\ seq \in Seq(STRING \X STRING)
      /\ \A i \in 1 .. n : seq[i][1] = RowOf(f, <<k, i>>) /\ Value(seq[i][2]) = ValueOf(f, <<k, i>>)
  BY <1>2 DEF SaysPairs
<1>5. Passes(n, base, "entry", seq, col, end)
  BY <1>4, EntriesPass
<1>6. Through("entry", f, k, base, 0, base)
  BY <1>3 DEF Through, SameButEntries
<1>7. ASSUME NEW t, NEW i \in 1 .. n, Through("entry", f, k, base, i - 1, t)
      PROVE  Through("entry", f, k, base, i, FoldStep("entry", seq, col, t, i))
  <2>1. PICK u : u = AddEntry(t, col, seq[i])
    OBVIOUS
  <2>2. FoldStep("entry", seq, col, t, i) = u
    BY <2>1 DEF FoldStep
  <2>3. /\ Parsed(t) /\ SameButEntries(base, t)
        /\ IF t.errorFlag THEN ~Fits(f) ELSE EntriesSo(f, HeardTo(f, "entries", k, i - 1), t)
    BY <1>7 DEF Through
  <2>4. (base.errorFlag => t.errorFlag) /\ t.cols = base.cols /\ t.rows = base.rows /\ t.types = base.types /\ t.objRow = base.objRow
    BY <1>7, <2>3 DEF SameButEntries, Through
  <2>5. RowsSo(f, t) /\ ToSet(t.rows) = RowNames(f) /\ (t.errorFlag \/ col \in ToSet(t.cols))
    BY <2>3, <2>4 DEF RowsSo, Through
  <2>7. CASE t.errorFlag
    <3>1. u = t
      BY <2>1, <2>7 DEF AddEntry
    <3> QED
      BY <2>2, <2>3, <2>7, <3>1 DEF Through
  <2>8. CASE ~t.errorFlag
    <3>0. col \in ToSet(t.cols)
      BY <2>5, <2>8
    <3>9. Parsed(u)
      <4>1. seq[i] \in STRING \X STRING
        BY <1>4
      <4> QED
        BY <2>1, <2>3, <3>0, <4>1, AddEntryKeeps
    <3>1. PICK d, D, E : /\ d = <<k, i>> /\ D = HeardTo(f, "entries", k, i - 1) /\ E = HeardTo(f, "entries", k, i)
                         /\ d \in Data(f, "entries") /\ d \notin D /\ D \in SUBSET Data(f, "entries")
                         /\ E \in SUBSET Data(f, "entries") /\ E = D \union {d} /\ d[1] = k
      BY <1>1, <1>2, PairNext
    <3>2. EntriesSo(f, D, t)
      BY <2>3, <2>8, <3>1
    <3>3. col = Column(f, d) /\ seq[i][1] = RowOf(f, d) /\ Value(seq[i][2]) = ValueOf(f, d)
      BY <1>4, <3>1 DEF Column
    <3>4. PICK pair : pair = seq[i]
      OBVIOUS
    <3>5. /\ SameButEntries(t, u)
          /\ u.errorFlag => Cardinality(Terms(f, E)) > Limit
          /\ ~u.errorFlag => EntriesSo(f, E, u)
      <4>1. pair[1] = RowOf(f, d) /\ Value(pair[2]) = ValueOf(f, d) /\ u = AddEntry(t, col, pair)
        BY <2>1, <3>3, <3>4
      <4> QED
        BY ONLY f \in Files, Understood(f), <2>3, <2>5, <2>8, <3>0, <3>1, <3>2, <3>3, <4>1, EntryHeard
    <3>6. u.errorFlag => ~Fits(f)
      BY <3>1, <3>5, TooManyTerms
    <3>7. SameButEntries(base, u)
      BY <2>3, <3>5 DEF SameButEntries
    <3>8. ~u.errorFlag => EntriesSo(f, HeardTo(f, "entries", k, i), u)
      BY <3>1, <3>5
    <3> QED
      BY <2>2, <2>4, <2>8, <3>6, <3>7, <3>8, <3>9 DEF Through
  <2> QED
    BY <2>7, <2>8
<1>8. Through("entry", f, k, base, n, end)
  BY <1>5, <1>6, <1>7, ThroughAll
<1> QED
  BY <1>3, <1>8 DEF Through

\* A state whose sides alone differ has the same rows.
LEMMA RowsStay ==
    ASSUME NEW f, NEW t, NEW u, SameButSides(t, u), RowsSo(f, t), ToSet(t.rows) = RowNames(f)
    PROVE  RowsSo(f, u) /\ ToSet(u.rows) = RowNames(f)
BY DEF SameButSides, SameTables, RowsSo

\* All the pairs of a line of right-hand sides.
LEMMA SidesHeard ==
    ASSUME NEW f \in Files, Understood(f), NEW k \in Said(f, "rhs"), Heard(f, "range", k) = {},
           NEW base, Parsed(base), RowsSo(f, base), ToSet(base.rows) = RowNames(f),
           SidesSo(f, Heard(f, "rhs", k), Heard(f, "range", k), base),
           NEW seq, SaysPairs(f, k, seq), NEW end, end = RhsOf(base, seq)
    PROVE  /\ SameButSides(base, end)
           /\ SidesSo(f, Heard(f, "rhs", k + 1), Heard(f, "range", k), end)
<1>1. PICK kind \in {"entries", "rhs", "range"} : kind = "rhs"
  OBVIOUS
<1>2. PICK n \in Nat : n = Len(Means(f, k).data)
  BY <1>1, HeardEnds
<1>3. HeardTo(f, "rhs", k, 0) = Heard(f, "rhs", k) /\ HeardTo(f, "rhs", k, n) = Heard(f, "rhs", k + 1)
  BY <1>1, <1>2, HeardEnds
<1>4. /\ DOMAIN seq = 1 .. n
      /\ \A i \in 1 .. n : seq[i][1] = RowOf(f, <<k, i>>) /\ Value(seq[i][2]) = ValueOf(f, <<k, i>>)
  BY <1>2 DEF SaysPairs
<1>5. Passes(n, base, "rhs", seq, 0, end)
  BY <1>4, RhsPasses
<1>6. Through("rhs", f, k, base, 0, base)
  BY <1>3 DEF Through, SameButSides, SameTables
<1>7. ASSUME NEW t, NEW i \in 1 .. n, Through("rhs", f, k, base, i - 1, t)
      PROVE  Through("rhs", f, k, base, i, FoldStep("rhs", seq, 0, t, i))
  <2>1. PICK row, v, u : row = seq[i][1] /\ v = Value(seq[i][2]) /\ u = SetRhs(t, row, v)
    OBVIOUS
  <2>2. FoldStep("rhs", seq, 0, t, i) = u
    BY <2>1 DEF FoldStep
  <2>3. /\ Parsed(t) /\ SameButSides(base, t)
        /\ SidesSo(f, HeardTo(f, "rhs", k, i - 1), Heard(f, "range", k), t)
    BY <1>7 DEF Through
  <2>4. RowsSo(f, t) /\ ToSet(t.rows) = RowNames(f)
    BY <2>3, RowsStay
  <2>5. v \in Int /\ Parsed(u)
    BY <2>1, <2>3, ValueIsInt, SetRhsKeeps
  <2>6. PICK d, D, E : /\ d = <<k, i>> /\ D = HeardTo(f, "rhs", k, i - 1) /\ E = HeardTo(f, "rhs", k, i)
                       /\ d \in Data(f, "rhs") /\ d \notin D /\ D \in SUBSET Data(f, "rhs")
                       /\ E \in SUBSET Data(f, "rhs") /\ E = D \union {d} /\ d[1] = k
    BY <1>1, <1>2, PairNext
  <2>7. PICK B : B = Heard(f, "range", k) /\ B = {}
    OBVIOUS
  <2>8. row = RowOf(f, d) /\ v = ValueOf(f, d) /\ SidesSo(f, D, B, t)
    BY <1>4, <2>1, <2>3, <2>6, <2>7
  <2>9. /\ SidesSo(f, E, B, u) /\ SameTables(t, u) /\ u.var = t.var
        /\ u.buffered = t.buffered /\ u.maximize = t.maximize /\ u.errorFlag = t.errorFlag
    <3>1. u = SetRhs(t, row, v)
      BY <2>1
    <3> QED
      BY ONLY f \in Files, Understood(f), <2>3, <2>4, <2>6, <2>7, <2>8, <3>1, SideHeard
  <2>10. SameButSides(base, u)
    BY <2>3, <2>9 DEF SameButSides, SameTables
  <2>11. SidesSo(f, HeardTo(f, "rhs", k, i), Heard(f, "range", k), u)
    BY <2>6, <2>7, <2>9
  <2> QED
    BY <2>2, <2>5, <2>10, <2>11 DEF Through
<1>8. Through("rhs", f, k, base, n, end)
  BY <1>5, <1>6, <1>7, ThroughAll
<1> QED
  BY <1>3, <1>8 DEF Through

\* All the pairs of a line of ranges.
LEMMA RangesHeard ==
    ASSUME NEW f \in Files, Understood(f), NEW k \in Said(f, "range"),
           NEW base, Parsed(base), RowsSo(f, base), ToSet(base.rows) = RowNames(f),
           SidesSo(f, Heard(f, "rhs", k), Heard(f, "range", k), base),
           NEW seq, SaysPairs(f, k, seq), NEW end, end = RangesOf(base, seq)
    PROVE  /\ SameButSides(base, end)
           /\ SidesSo(f, Heard(f, "rhs", k), Heard(f, "range", k + 1), end)
<1>1. PICK kind \in {"entries", "rhs", "range"} : kind = "range"
  OBVIOUS
<1>2. PICK n \in Nat : n = Len(Means(f, k).data)
  BY <1>1, HeardEnds
<1>3. HeardTo(f, "range", k, 0) = Heard(f, "range", k)
      /\ HeardTo(f, "range", k, n) = Heard(f, "range", k + 1)
  BY <1>1, <1>2, HeardEnds
<1>4. /\ DOMAIN seq = 1 .. n
      /\ \A i \in 1 .. n : seq[i][1] = RowOf(f, <<k, i>>) /\ Value(seq[i][2]) = ValueOf(f, <<k, i>>)
  BY <1>2 DEF SaysPairs
<1>5. Passes(n, base, "range", seq, 0, end)
  BY <1>4, RangesPass
<1>6. Through("range", f, k, base, 0, base)
  BY <1>3 DEF Through, SameButSides, SameTables
<1>7. ASSUME NEW t, NEW i \in 1 .. n, Through("range", f, k, base, i - 1, t)
      PROVE  Through("range", f, k, base, i, FoldStep("range", seq, 0, t, i))
  <2>1. PICK row, v, u : row = seq[i][1] /\ v = Value(seq[i][2]) /\ u = SetRange(t, row, v)
    OBVIOUS
  <2>2. FoldStep("range", seq, 0, t, i) = u
    BY <2>1 DEF FoldStep
  <2>3. /\ Parsed(t) /\ SameButSides(base, t)
        /\ SidesSo(f, Heard(f, "rhs", k), HeardTo(f, "range", k, i - 1), t)
    BY <1>7 DEF Through
  <2>4. RowsSo(f, t) /\ ToSet(t.rows) = RowNames(f)
    BY <2>3, RowsStay
  <2>5. Parsed(u)
    BY <2>1, <2>3, SetRangeKeeps
  <2>6. PICK d, D, E : /\ d = <<k, i>> /\ D = HeardTo(f, "range", k, i - 1) /\ E = HeardTo(f, "range", k, i)
                       /\ d \in Data(f, "range") /\ d \notin D /\ D \in SUBSET Data(f, "range")
                       /\ E \in SUBSET Data(f, "range") /\ E = D \union {d} /\ d[1] = k
    BY <1>1, <1>2, PairNext
  <2>7. PICK A : A = Heard(f, "rhs", k) /\ A \in SUBSET Data(f, "rhs")
    BY DEF Heard
  <2>8. row = RowOf(f, d) /\ v = ValueOf(f, d) /\ SidesSo(f, A, D, t)
    BY <1>4, <2>1, <2>3, <2>6, <2>7
  <2>9. /\ SidesSo(f, A, E, u) /\ SameTables(t, u) /\ u.var = t.var
        /\ u.buffered = t.buffered /\ u.maximize = t.maximize /\ u.errorFlag = t.errorFlag
    <3>1. u = SetRange(t, row, v) /\ Parsed(t)
      BY <2>1, <2>3
    <3>2. A \in SUBSET Data(f, "rhs")
      BY <2>7
    <3>3. SidesSo(f, A, E, u)
      BY ONLY f \in Files, Understood(f), <2>4, <2>6, <2>8, <3>1, <3>2, RangeHeard
    <3>4. SameTables(t, u) /\ u.var = t.var
      BY ONLY f \in Files, Understood(f), <2>4, <2>6, <2>8, <3>1, <3>2, <3>3, RangeHeard
    <3>5. u.buffered = t.buffered /\ u.maximize = t.maximize /\ u.errorFlag = t.errorFlag
      BY ONLY f \in Files, Understood(f), <2>4, <2>6, <2>8, <3>1, <3>2, <3>3, RangeHeard
    <3> QED
      BY ONLY <3>3, <3>4, <3>5
  <2>10. SameButSides(base, u)
    BY <2>3, <2>9 DEF SameButSides, SameTables
  <2>11. SidesSo(f, Heard(f, "rhs", k), HeardTo(f, "range", k, i), u)
    BY <2>6, <2>7, <2>9
  <2> QED
    BY <2>2, <2>5, <2>10, <2>11 DEF Through
<1>8. Through("range", f, k, base, n, end)
  BY <1>5, <1>6, <1>7, ThroughAll
<1> QED
  BY <1>3, <1>8 DEF Through

------------------------------------------------------------------------------
(* A line of entries, which may begin a column.                            *)

\* What a line of entries adds to the columns heard of.
LEMMA ColumnNext ==
    ASSUME NEW f \in Files, Understood(f), NEW k \in Said(f, "entries"), NEW col, col = Means(f, k).col
    PROVE  /\ ColumnsBefore(f, k + 1) = ColumnsBefore(f, k) \union {col} /\ ColumnBefore(f, k + 1) = col
           /\ col \in ColumnsBefore(f, k) => Declaring(f, k + 1) = Declaring(f, k)
           /\ col \notin ColumnsBefore(f, k) =>
                 /\ Declaring(f, k + 1) = Declaring(f, k) \union {k}
                 /\ Priced(f, Heard(f, "entries", k), col) = {}
           /\ Declaring(f, k) \in SUBSET Nat /\ IsFiniteSet(Declaring(f, k))
           /\ \A j \in Declaring(f, k) : j < k
           /\ Declaring(f, k + 1) \in SUBSET Declaring0(f) /\ IsFiniteSet(Declaring0(f))
<1>1. k \in Nat /\ IsFiniteSet(Said(f, "entries"))
  BY LinesFacts
<1>2. PICK B, C : B = Before(f, "entries", k) /\ C = Before(f, "entries", k + 1)
  OBVIOUS
<1>3. /\ B \in SUBSET Said(f, "entries") /\ B \in SUBSET Nat /\ IsFiniteSet(B) /\ \A j \in B : j < k
      /\ C = B \union {k} /\ C \in SUBSET Nat
  BY <1>1, <1>2, BeforeFacts
<1>4. EntriesBefore(f, k) = B /\ EntriesBefore(f, k + 1) = C
  BY <1>2 DEF Before, EntriesBefore
<1>5. ColumnsBefore(f, k + 1) = ColumnsBefore(f, k) \union {col}
  BY <1>3, <1>4 DEF ColumnsBefore
<1>6. ColumnBefore(f, k + 1) = col
  <2>1. \A j \in C : j <= k
    BY <1>1, <1>3
  <2>2. k \in C /\ C # {}
    BY <1>3
  <2>3. Max(C) = k
    BY <1>3, <2>1, <2>2, GreatestIs
  <2> QED
    BY <1>4, <2>2, <2>3 DEF ColumnBefore
<1>7. Declares(f, k) <=> col \notin ColumnsBefore(f, k)
  BY <1>4, <1>2 DEF Declares, ColumnsBefore, Before
<1>8. /\ col \in ColumnsBefore(f, k) => Declaring(f, k + 1) = Declaring(f, k)
      /\ col \notin ColumnsBefore(f, k) => Declaring(f, k + 1) = Declaring(f, k) \union {k}
  BY <1>2, <1>3, <1>7 DEF Declaring
<1>9. ASSUME col \notin ColumnsBefore(f, k)
      PROVE  Priced(f, Heard(f, "entries", k), col) = {}
  <2>1. ASSUME NEW d \in Heard(f, "entries", k)
        PROVE  Column(f, d) # col
    <3>1. d[1] \in Said(f, "entries") /\ d[1] < k
      BY <2>1, DataFacts DEF Heard
    <3> QED
      BY <1>9, <3>1 DEF ColumnsBefore, EntriesBefore, Column
  <2> QED
    BY <2>1 DEF Priced
<1>10. Declaring(f, k) \in SUBSET B
  BY <1>2 DEF Declaring
<1>11. Declaring(f, k) \in SUBSET Nat /\ IsFiniteSet(Declaring(f, k)) /\ \A j \in Declaring(f, k) : j < k
  BY <1>3, <1>10, FS_Subset
<1>12. Declaring(f, k + 1) \in SUBSET Declaring0(f)
  BY DEF Declaring, Declaring0, Before
<1>13. IsFiniteSet(Declaring0(f))
  <2>1. Declaring0(f) \in SUBSET Said(f, "entries")
    BY DEF Declaring0
  <2> QED
    BY <1>1, <2>1, FS_Subset
<1> QED
  BY <1>5, <1>6, <1>8, <1>9, <1>11, <1>12, <1>13

\* No bound comes before the last line of entries.
LEMMA NoBoundYet ==
    ASSUME NEW f \in Files, Understood(f), NEW k \in Said(f, "entries"),
           NEW kind \in {"bound", "rhs", "range"}
    PROVE  Before(f, kind, k) = {} /\ Before(f, kind, k + 1) = {}
<1>1. k \in Nat /\ "entries" \in Kinds /\ kind \in Kinds
  BY LinesFacts DEF Kinds
<1>2. Stage(f, k) = 2 /\ Rung(kind) > 2
  <2>1. Rung("entries") = 2 /\ Rung("rhs") = 3 /\ Rung("range") = 4 /\ Rung("bound") = 5
    BY DEF Rung, Order, Part
  <2>2. Stage(f, k) = Rung("entries")
    BY <1>1, LinesInOrder
  <2> QED
    BY <2>1, <2>2
<1>3. ASSUME NEW l \in Said(f, kind), l < k PROVE FALSE
  <2>1. Rung(kind) <= Stage(f, k)
    BY <1>1, <1>3, LinesInOrder
  <2>2. Rung(kind) \in {3, 4, 5}
    BY DEF Rung, Order, Part
  <2> QED
    BY <1>2, <2>1, <2>2
<1>4. k \notin Said(f, kind)
  BY DEF Said
<1>5. Before(f, kind, k) = {}
  BY <1>3 DEF Before
<1>6. Before(f, kind, k + 1) = Before(f, kind, k)
  BY <1>1, <1>4, BeforeFacts
<1> QED
  BY <1>5, <1>6

\* The states before and after the column of line k is found or added.
LEMMA ColumnAdded ==
    ASSUME NEW f \in Files, Understood(f), NEW k \in Said(f, "entries"), NEW col, col = Means(f, k).col,
           NEW t, Parsed(t), ~t.errorFlag, RowsSo(f, t), Lists(t.cols, Declaring(f, k), ColItem(f)),
           ToSet(t.cols) = ColumnsBefore(f, k), t.current = col,
           EntriesSo(f, Heard(f, "entries", k), t), BoundsSo(f, Before(f, "bound", k), t),
           NEW u, u = AddColumn(t, col)
    PROVE  /\ u.buffered = t.buffered /\ u.maximize = t.maximize /\ u.con = t.con /\ u.constant = t.constant
           /\ u.rows = t.rows /\ u.types = t.types /\ u.objRow = t.objRow
           /\ IF u.errorFlag THEN ~Fits(f)
              ELSE /\ ColumnsSo(f, k + 1, u) /\ EntriesSo(f, Heard(f, "entries", k), u)
                   /\ BoundsSo(f, Before(f, "bound", k + 1), u) /\ col \in ToSet(u.cols)
<1>1. k \in Nat /\ col \in STRING
  BY LinesFacts, MeaningFacts
<1>2. PICK L : L = Before(f, "bound", k) /\ L = Before(f, "bound", k + 1) /\ L = {}
  BY NoBoundYet
<1>3. PICK D : D = Declaring(f, k)
  OBVIOUS
<1>4. D \in SUBSET Nat /\ IsFiniteSet(D) /\ \A j \in D : j < k
  BY <1>3, ColumnNext
<1>5. PICK S, cols : S = STRING /\ cols = t.cols /\ cols \in Seq(S)
  BY DEF Parsed
<1>6. Known(t.cols, col) <=> col \in ColumnsBefore(f, k)
  BY DEF Known
<1>7. CASE Known(t.cols, col)
  <2>1. u = t
    BY <1>7 DEF AddColumn
  <2>2. ColumnsBefore(f, k + 1) = ToSet(t.cols)
    <3>1. ColumnsBefore(f, k + 1) = ColumnsBefore(f, k) \union {col}
      BY ColumnNext
    <3> QED
      BY <1>6, <1>7, <3>1
  <2>3. ColumnBefore(f, k + 1) = col /\ Declaring(f, k + 1) = D
    BY <1>3, <1>6, <1>7, ColumnNext
  <2>4. ColumnsSo(f, k + 1, u)
    BY <1>3, <2>1, <2>2, <2>3 DEF ColumnsSo
  <2>5. BoundsSo(f, Before(f, "bound", k + 1), t)
    BY <1>2
  <2>6. col \in ToSet(t.cols)
    BY <1>7 DEF Known
  <2> QED
    BY ONLY ~t.errorFlag, EntriesSo(f, Heard(f, "entries", k), t), <2>1, <2>4, <2>5, <2>6
<1>8. \/ /\ Declaring(f, k + 1) = D \union {k}
         /\ Cardinality(D \union {k}) = Cardinality(D) + 1
         /\ Cardinality(D) \in Nat
         /\ Len(cols) = Cardinality(D)
      \/ Known(t.cols, col)
  <2>1. k \notin D
    BY <1>1, <1>4
  <2>2. Cardinality(D \union {k}) = Cardinality(D) + 1 /\ Cardinality(D) \in Nat
    BY <1>4, <2>1, FS_AddElement, FS_CardinalityType
  <2>3. Len(cols) = Cardinality(D)
    BY <1>3, <1>5 DEF Lists
  <2>4. ~Known(t.cols, col) => Declaring(f, k + 1) = D \union {k}
    BY <1>3, <1>6, ColumnNext
  <2> QED
    BY <2>2, <2>3, <2>4
<1>9. CASE ~Known(t.cols, col) /\ CannotPut(t.cols, col)
  <2>1. u = [t EXCEPT !.errorFlag = TRUE]
    BY <1>9 DEF AddColumn
  <2>2. /\ u.buffered = t.buffered /\ u.maximize = t.maximize /\ u.con = t.con /\ u.constant = t.constant
        /\ u.rows = t.rows /\ u.types = t.types /\ u.objRow = t.objRow /\ u.errorFlag = TRUE
    BY <2>1 DEF Parsed, Fields
  <2>3. PICK a \in Nat : a = Cardinality(D)
    BY <1>8, <1>9
  <2>4. a >= Limit
    BY <1>5, <1>8, <1>9, <2>3 DEF CannotPut
  <2>5. Cardinality(Declaring(f, k + 1)) <= Cardinality(Declaring0(f))
    <3>1. Declaring(f, k + 1) \in SUBSET Declaring0(f) /\ IsFiniteSet(Declaring0(f))
      BY ColumnNext
    <3> QED
      BY <3>1, FS_Subset
  <2>6. PICK b \in Nat, c \in Nat : b = Cardinality(Declaring0(f)) /\ c = Size(f) /\ b <= c
    BY SizeFacts
  <2>7. a + 1 <= b
    BY <1>8, <1>9, <2>3, <2>5, <2>6
  <2>8. Limit \in Nat
    BY MpsAssumption
  <2>9. ~(c <= Limit)
    BY <2>3, <2>4, <2>6, <2>7, <2>8
  <2> QED
    BY <2>2, <2>6, <2>9 DEF Fits
<1>10. CASE ~Known(t.cols, col) /\ ~CannotPut(t.cols, col)
  <2>1. PICK more : more = Append(cols, col)
    OBVIOUS
  <2>2. PICK obj : obj = Extended(t.obj, col, 0)
    OBVIOUS
  <2>3. PICK var : var = Extended(t.var, col, <<0, Inf>>)
    OBVIOUS
  <2>4. u = [t EXCEPT !.cols = more, !.obj = obj, !.var = var]
    BY <1>5, <1>10, <2>1, <2>2, <2>3 DEF AddColumn, Put
  <2>5. /\ u.buffered = t.buffered /\ u.maximize = t.maximize /\ u.con = t.con /\ u.constant = t.constant
        /\ u.rows = t.rows /\ u.types = t.types /\ u.objRow = t.objRow /\ u.errorFlag = t.errorFlag
        /\ u.cols = more /\ u.obj = obj /\ u.var = var /\ u.coo = t.coo /\ u.current = t.current
    BY <2>4 DEF Parsed, Fields
  <2>6. ToSet(more) = ToSet(t.cols) \union {col}
    BY <1>1, <1>5, <2>1, AppendFacts
  <2>7. ColumnsSo(f, k + 1, u)
    <3>1. PICK item : item = ColItem(f)
      OBVIOUS
    <3>2. item[k] = col
      BY <3>1 DEF ColItem
    <3>3. Lists(Append(cols, item[k]), D \union {k}, item)
      BY <1>1, <1>3, <1>4, <1>5, <3>1, <3>2, ListsMore
    <3>4. Lists(more, Declaring(f, k + 1), ColItem(f))
      BY <1>8, <1>10, <2>1, <3>1, <3>2, <3>3
    <3>5. ToSet(more) = ColumnsBefore(f, k + 1) /\ ColumnBefore(f, k + 1) = col
      BY <2>6, ColumnNext
    <3> QED
      BY <2>5, <3>4, <3>5 DEF ColumnsSo
  <2>8. col \notin ToSet(t.cols)
    BY <1>10 DEF Known
  <2>9. /\ obj[col] = 0 /\ \A c \in ToSet(t.cols) : obj[c] = t.obj[c]
        /\ var[col] = <<0, Inf>> /\ \A c \in ToSet(t.cols) : var[c] = t.var[c]
        /\ DOMAIN var = ToSet(t.cols) \union {col}
    <3>1. DOMAIN t.obj = ToSet(t.cols)
      BY DEF Parsed
    <3>2. DOMAIN t.var = ToSet(t.cols)
      BY DEF BoundsSo
    <3>3. obj[col] = 0 /\ \A c \in ToSet(t.cols) : obj[c] = t.obj[c]
      BY <2>2, <2>8, <3>1 DEF Extended
    <3>4. /\ var[col] = <<0, Inf>> /\ \A c \in ToSet(t.cols) : var[c] = t.var[c]
          /\ DOMAIN var = ToSet(t.cols) \union {col}
      BY <2>3, <2>8, <3>2 DEF Extended
    <3> QED
      BY <3>3, <3>4
  <2>10. EntriesSo(f, Heard(f, "entries", k), u)
    <3>1. PICK H : H = Heard(f, "entries", k)
      OBVIOUS
    <3>2. Priced(f, H, col) = {}
      BY <1>6, <1>10, <3>1, ColumnNext
    <3>3. PICK E : E = {} /\ Total(f, E) = 0
      <4>1. PICK E : E = {}
        OBVIOUS
      <4>2. IsFiniteSet(E) /\ \A e \in E : ValueOf(f, e) \in Int
        BY <4>1, FS_EmptySet
      <4>3. Total(f, {}) = 0
        BY <4>2, TotalWith
      <4> QED
        BY <4>1, <4>3
    <3>4. Total(f, Priced(f, H, col)) = 0
      BY <3>2, <3>3
    <3>5. \A c \in ToSet(more) : obj[c] = Total(f, Priced(f, H, c))
      <4>1. \A c \in ToSet(t.cols) : t.obj[c] = Total(f, Priced(f, H, c))
        BY <3>1 DEF EntriesSo
      <4> QED
        BY <2>6, <2>9, <3>4, <4>1
    <3>6. Len(t.coo) = Cardinality(Terms(f, H)) /\ \E s : Traces(s, f, H, t.coo)
      BY <3>1 DEF EntriesSo
    <3> QED
      BY ONLY <2>5, <3>1, <3>5, <3>6 DEF EntriesSo
  <2>11. BoundsSo(f, L, u)
    <3>1. Lowest(f, L, col) = 0 /\ Highest(f, L, col) = Inf
      BY <1>2 DEF Lowest, Highest, Ends
    <3>2. \A c \in ToSet(t.cols) : t.var[c] = <<Lowest(f, L, c), Highest(f, L, c)>>
      BY <1>2 DEF BoundsSo
    <3>3. \A c \in ToSet(more) : var[c] = <<Lowest(f, L, c), Highest(f, L, c)>>
      BY <2>6, <2>9, <3>1, <3>2
    <3>4. DOMAIN var = ToSet(more)
      BY <2>6, <2>9
    <3> QED
      BY ONLY <2>5, <3>3, <3>4 DEF BoundsSo
  <2>12. col \in ToSet(u.cols)
    BY <2>5, <2>6
  <2> QED
    BY <1>2, <2>5, <2>7, <2>10, <2>11, <2>12
<1> QED
  BY <1>7, <1>9, <1>10

\* ParseColumn as a fold over the column it adds.
LEMMA ColumnParsed ==
    ASSUME NEW t, NEW tokens, ~(Len(tokens) < 2 \/ tokens[2] = "'MARKER'")
    PROVE  \E named, start :
              /\ start = Len(tokens) % 2
              /\ named = IF start = 1 THEN [t EXCEPT !.current = tokens[1]] ELSE t
              /\ named.current # None =>
                    ParseColumn(t, tokens) = EntriesOf(AddColumn(named, named.current), named.current,
                                                       Pairs(tokens, start))
<1> DEFINE start == Len(tokens) % 2
           named == IF start = 1 THEN [t EXCEPT !.current = tokens[1]] ELSE t
           col == named.current
<1>1. ASSUME col # None
      PROVE  ParseColumn(t, tokens) = EntriesOf(AddColumn(named, col), col, Pairs(tokens, start))
  BY <1>1 DEF ParseColumn, EntriesOf
<1>2. /\ start = Len(tokens) % 2
      /\ named = IF start = 1 THEN [t EXCEPT !.current = tokens[1]] ELSE t
  OBVIOUS
<1> HIDE DEF named, start
<1> QED
  BY <1>1, <1>2

\* A line of entries: the column is found or added, then its entries are.
LEMMA ColumnStep ==
    ASSUME NEW f \in Files, Understood(f), NEW k \in Said(f, "entries"), section = SectionOf(f, k),
           NEW t, Parsed(t), ~t.errorFlag, Built(f, k, t), NEW u, u = ParseColumn(t, Tokens(t, f.lines[k]))
    PROVE  /\ u.buffered = t.buffered /\ u.maximize = t.maximize
           /\ IF u.errorFlag THEN ~Fits(f) ELSE Built(f, k + 1, u)
<1>1. PICK w, col : w = Tokens(t, f.lines[k]) /\ col = Means(f, k).col
  OBVIOUS
<1>2. k \in Nat /\ col \in STRING /\ col # None /\ f.lines[k] \in ToSet(f.lines)
  BY <1>1, LinesFacts, MeaningFacts
<1>3. w \in Seq(STRING)
  BY <1>1, <1>2, TokensAreSeq
<1>4. PICK data \in Seq(STRING \X Int) : data = Means(f, k).data /\ data # <<>>
  BY MeaningFacts
<1>5. Knows(f, k, t)
  BY BuiltKnows DEF Built
<1>6. /\ \/ w[1] = col /\ ListPairs(w, 1, data)
         \/ col = ColumnBefore(f, k) /\ ListPairs(w, 0, data)
      /\ w[2] # "'MARKER'"
  BY <1>1, <1>4, <1>5, EntriesWords
<1>22. Len(w) >= 2
  <2>1. PICK n \in Nat : n = Len(data) /\ n > 0
    BY <1>4
  <2>2. Len(w) \in {1 + 2 * n, 0 + 2 * n}
    BY <1>6, <2>1 DEF ListPairs
  <2> QED
    BY <2>1, <2>2
<1>23. ~(Len(w) < 2 \/ w[2] = "'MARKER'")
  BY <1>6, <1>22
<1>24. PICK named, start :
          /\ start = Len(w) % 2
          /\ named = IF start = 1 THEN [t EXCEPT !.current = w[1]] ELSE t
          /\ named.current # None =>
                ParseColumn(t, w) = EntriesOf(AddColumn(named, named.current), named.current,
                                              Pairs(w, start))
  BY <1>23, ColumnParsed
<1>7. start = Len(w) % 2
  BY <1>24
<1>8. /\ start \in {0, 1} /\ ListPairs(w, start, data) /\ Len(w) >= 2
      /\ start = 1 => w[1] = col
      /\ start = 0 => col = ColumnBefore(f, k)
  <2>1. PICK n \in Nat : n = Len(data) /\ n > 0
    BY <1>4
  <2>2. CASE w[1] = col /\ ListPairs(w, 1, data)
    <3>1. Len(w) = 1 + 2 * n
      BY <2>1, <2>2 DEF ListPairs
    <3>2. start = 1 /\ Len(w) >= 2
      BY <1>7, <2>1, <3>1
    <3> QED
      BY <2>2, <3>2
  <2>3. CASE col = ColumnBefore(f, k) /\ ListPairs(w, 0, data)
    <3>1. Len(w) = 0 + 2 * n
      BY <2>1, <2>3 DEF ListPairs
    <3>2. start = 0 /\ Len(w) >= 2
      BY <1>7, <2>1, <3>1
    <3> QED
      BY <2>3, <3>2
  <2> QED
    BY <1>6, <2>2, <2>3
<1>9. named = IF start = 1 THEN [t EXCEPT !.current = w[1]] ELSE t
  BY <1>24
<1>10. /\ named.buffered = t.buffered /\ named.maximize = t.maximize /\ named.con = t.con
       /\ named.constant = t.constant /\ named.rows = t.rows /\ named.types = t.types
       /\ named.objRow = t.objRow /\ named.errorFlag = t.errorFlag /\ named.cols = t.cols
       /\ named.obj = t.obj /\ named.var = t.var /\ named.coo = t.coo /\ named.current = col
  <2>1. CASE start = 1
    <3>1. named = [t EXCEPT !.current = col]
      BY <1>8, <1>9, <2>1
    <3> QED
      BY <3>1 DEF Parsed, Fields
  <2>2. CASE start # 1
    <3>1. named = t /\ t.current = col
      BY <1>5, <1>8, <1>9, <2>2 DEF Knows
    <3> QED
      BY <3>1
  <2> QED
    BY <2>1, <2>2
<1>11. Parsed(named)
  <2>1. DOMAIN named = Fields
    BY <1>9 DEF Parsed
  <2> QED
    BY <1>2, <1>10, <2>1 DEF Parsed
<1>12. PICK base : base = AddColumn(named, col)
  OBVIOUS
<1>13. PICK seq : seq = Pairs(w, start)
  OBVIOUS
<1>14. u = EntriesOf(base, col, seq)
  <2>1. named.current # None /\ named.current = col
    BY <1>2, <1>10
  <2>2. u = EntriesOf(AddColumn(named, named.current), named.current, Pairs(w, start))
    BY <1>1, <1>24, <2>1
  <2> QED
    BY <1>12, <1>13, <2>1, <2>2
<1>15. Parsed(base)
  BY <1>2, <1>11, <1>12, AddColumnKeeps
<1>16. /\ base.buffered = named.buffered /\ base.maximize = named.maximize /\ base.con = named.con
       /\ base.constant = named.constant /\ base.rows = named.rows /\ base.types = named.types
       /\ base.objRow = named.objRow
       /\ IF base.errorFlag THEN ~Fits(f)
          ELSE /\ ColumnsSo(f, k + 1, base) /\ EntriesSo(f, Heard(f, "entries", k), base)
               /\ BoundsSo(f, Before(f, "bound", k + 1), base) /\ col \in ToSet(base.cols)
  <2>1. RowsSo(f, named)
    BY <1>10 DEF RowsSo, Built
  <2>2. Lists(named.cols, Declaring(f, k), ColItem(f)) /\ ToSet(named.cols) = ColumnsBefore(f, k)
    BY <1>10 DEF ColumnsSo, Built
  <2>3. EntriesSo(f, Heard(f, "entries", k), named)
    BY <1>10 DEF EntriesSo, Built
  <2>4. BoundsSo(f, Before(f, "bound", k), named)
    BY <1>10 DEF BoundsSo, Built
  <2>5. ~named.errorFlag /\ named.current = col
    BY <1>10
  <2> QED
    BY <1>1, <1>11, <1>12, <2>1, <2>2, <2>3, <2>4, <2>5, ColumnAdded
<1>17. SaysPairs(f, k, seq)
  BY <1>3, <1>4, <1>8, <1>13, SpelledPairs
<1>18. RowsSo(f, base) /\ ToSet(base.rows) = RowNames(f)
  BY <1>5, <1>10, <1>16 DEF RowsSo, Built, Knows
<1>19. /\ SameButEntries(base, u)
       /\ IF u.errorFlag THEN ~Fits(f) ELSE EntriesSo(f, Heard(f, "entries", k + 1), u)
       /\ base.errorFlag => u.errorFlag
  <2>1. IF base.errorFlag THEN ~Fits(f) ELSE EntriesSo(f, Heard(f, "entries", k), base)
    BY <1>16
  <2>2. base.errorFlag \/ col \in ToSet(base.cols)
    BY <1>16
  <2> QED
    BY <1>1, <1>14, <1>15, <1>17, <1>18, <2>1, <2>2, EntriesHeard
<1>20. u.buffered = t.buffered /\ u.maximize = t.maximize
  BY <1>10, <1>16, <1>19 DEF SameButEntries
<1>21. ASSUME ~u.errorFlag PROVE Built(f, k + 1, u)
  <2>1. ~base.errorFlag
    BY <1>19, <1>21
  <2>2. RowsSo(f, u)
    BY <1>18, <1>19 DEF SameButEntries, RowsSo
  <2>3. ColumnsSo(f, k + 1, u)
    BY <1>16, <1>19, <2>1 DEF SameButEntries, ColumnsSo
  <2>4. EntriesSo(f, Heard(f, "entries", k + 1), u)
    BY <1>19, <1>21
  <2>5. BoundsSo(f, Before(f, "bound", k + 1), u)
    BY <1>16, <1>19, <2>1 DEF SameButEntries, BoundsSo
  <2>6. Heard(f, "rhs", k + 1) = Heard(f, "rhs", k) /\ Heard(f, "range", k + 1) = Heard(f, "range", k)
    <3>1. k \notin Said(f, "rhs") /\ k \notin Said(f, "range")
      BY DEF Said
    <3> QED
      BY <1>2, <3>1, SameLines
  <2>7. SidesSo(f, Heard(f, "rhs", k + 1), Heard(f, "range", k + 1), u)
    BY <1>10, <1>16, <1>19, <2>6 DEF SidesSo, Built, SameButEntries
  <2> QED
    BY <2>2, <2>3, <2>4, <2>5, <2>7 DEF Built
<1> QED
  BY <1>19, <1>20, <1>21

\* What a line of sides or of ranges leaves as it is.
LEMMA SidesBuilt ==
    ASSUME NEW f \in Files, Understood(f), NEW k \in Nat, NEW t, Built(f, k, t),
           k \notin Said(f, "entries"), k \notin Said(f, "bound"), NEW u, SameButSides(t, u),
           SidesSo(f, Heard(f, "rhs", k + 1), Heard(f, "range", k + 1), u)
    PROVE  Built(f, k + 1, u)
<1>1. /\ Declaring(f, k + 1) = Declaring(f, k) /\ ColumnsBefore(f, k + 1) = ColumnsBefore(f, k)
      /\ ColumnBefore(f, k + 1) = ColumnBefore(f, k)
      /\ Heard(f, "entries", k + 1) = Heard(f, "entries", k)
      /\ Before(f, "bound", k + 1) = Before(f, "bound", k)
  BY SameLines
<1>2. RowsSo(f, u)
  BY DEF RowsSo, Built, SameButSides, SameTables
<1>3. ColumnsSo(f, k + 1, u)
  BY <1>1 DEF ColumnsSo, Built, SameButSides, SameTables
<1>4. EntriesSo(f, Heard(f, "entries", k + 1), u)
  BY <1>1 DEF EntriesSo, Built, SameButSides, SameTables
<1>5. BoundsSo(f, Before(f, "bound", k + 1), u)
  BY <1>1 DEF BoundsSo, Built, SameButSides, SameTables
<1> QED
  BY <1>2, <1>3, <1>4, <1>5 DEF Built

\* Ranges come after right-hand sides.
LEMMA NoRangeYet ==
    ASSUME NEW f \in Files, Understood(f), NEW k \in Said(f, "rhs")
    PROVE  Heard(f, "range", k) = {} /\ Heard(f, "range", k + 1) = {}
<1>1. k \in Nat /\ "rhs" \in Kinds /\ "range" \in Kinds
  BY LinesFacts DEF Kinds
<1>2. Stage(f, k) = 3 /\ Rung("range") = 4
  <2>1. Rung("rhs") = 3 /\ Rung("range") = 4
    BY DEF Rung, Order, Part
  <2> QED
    BY <1>1, <2>1, LinesInOrder
<1>3. ASSUME NEW d \in Data(f, "range"), d[1] < k PROVE FALSE
  <2>1. d[1] \in Said(f, "range")
    BY DataFacts
  <2>2. Rung("range") <= Stage(f, k)
    BY <1>1, <1>3, <2>1, LinesInOrder
  <2> QED
    BY <1>2, <2>2
<1>4. Heard(f, "range", k) = {}
  BY <1>3 DEF Heard
<1>5. k \notin Said(f, "range")
  BY DEF Said
<1> QED
  BY <1>1, <1>4, <1>5, SameLines

\* A whole line of right-hand sides, in either form.
LEMMA SideStep ==
    ASSUME NEW f \in Files, Understood(f), NEW k \in Said(f, "rhs"), section = SectionOf(f, k),
           NEW t, Parsed(t), Built(f, k, t), NEW u, u = ParseRhs(t, Tokens(t, f.lines[k]))
    PROVE  SameButSides(t, u) /\ Built(f, k + 1, u)
<1>1. PICK w, start : w = Tokens(t, f.lines[k]) /\ start = RowDataStart(t, w)
  OBVIOUS
<1>2. k \in Nat /\ f.lines[k] \in ToSet(f.lines)
  BY LinesFacts
<1>3. w \in Seq(STRING)
  BY <1>1, <1>2, TokensAreSeq
<1>4. Knows(f, k, t) /\ RowsSo(f, t) /\ ToSet(t.rows) = RowNames(f)
  BY BuiltKnows DEF Built, Knows
<1>5. ListPairs(w, start, Means(f, k).data) /\ start \in {0, 1}
  BY <1>1, <1>4, SidesWords
<1>6. PICK seq : seq = Pairs(w, start)
  OBVIOUS
<1>7. SaysPairs(f, k, seq)
  BY <1>3, <1>5, <1>6, SpelledPairs
<1>8. u = RhsOf(t, seq)
  BY <1>1, <1>6 DEF ParseRhs, RhsOf
<1>9. /\ SameButSides(t, u)
      /\ SidesSo(f, Heard(f, "rhs", k + 1), Heard(f, "range", k), u)
  <2>1. Heard(f, "range", k) = {} /\ SidesSo(f, Heard(f, "rhs", k), Heard(f, "range", k), t)
    BY NoRangeYet DEF Built
  <2> QED
    BY <1>4, <1>7, <1>8, <2>1, SidesHeard
<1>10. k \notin Said(f, "entries") /\ k \notin Said(f, "bound") /\ k \notin Said(f, "range")
  BY DEF Said
<1>11. SidesSo(f, Heard(f, "rhs", k + 1), Heard(f, "range", k + 1), u)
  BY <1>9, NoRangeYet
<1> QED
  BY <1>2, <1>9, <1>10, <1>11, SidesBuilt

\* A whole line of ranges, in either form.
LEMMA RangeStep ==
    ASSUME NEW f \in Files, Understood(f), NEW k \in Said(f, "range"), section = SectionOf(f, k),
           NEW t, Parsed(t), Built(f, k, t), NEW u, u = ParseRange(t, Tokens(t, f.lines[k]))
    PROVE  SameButSides(t, u) /\ Built(f, k + 1, u)
<1>1. PICK w, start : w = Tokens(t, f.lines[k]) /\ start = RowDataStart(t, w)
  OBVIOUS
<1>2. k \in Nat /\ f.lines[k] \in ToSet(f.lines)
  BY LinesFacts
<1>3. w \in Seq(STRING)
  BY <1>1, <1>2, TokensAreSeq
<1>4. Knows(f, k, t) /\ RowsSo(f, t) /\ ToSet(t.rows) = RowNames(f)
  BY BuiltKnows DEF Built, Knows
<1>5. ListPairs(w, start, Means(f, k).data) /\ start \in {0, 1}
  BY <1>1, <1>4, SidesWords
<1>6. PICK seq : seq = Pairs(w, start)
  OBVIOUS
<1>7. SaysPairs(f, k, seq)
  BY <1>3, <1>5, <1>6, SpelledPairs
<1>8. u = RangesOf(t, seq)
  BY <1>1, <1>6 DEF ParseRange, RangesOf
<1>9. /\ SameButSides(t, u)
      /\ SidesSo(f, Heard(f, "rhs", k), Heard(f, "range", k + 1), u)
  <2>1. SidesSo(f, Heard(f, "rhs", k), Heard(f, "range", k), t)
    BY DEF Built
  <2> QED
    BY <1>4, <1>7, <1>8, <2>1, RangesHeard
<1>10. k \notin Said(f, "entries") /\ k \notin Said(f, "bound") /\ k \notin Said(f, "rhs")
  BY DEF Said
<1>11. SidesSo(f, Heard(f, "rhs", k + 1), Heard(f, "range", k + 1), u)
  BY <1>2, <1>9, <1>10, SameLines
<1> QED
  BY <1>2, <1>9, <1>10, <1>11, SidesBuilt

------------------------------------------------------------------------------
(* The rows are finalized: the objective is the first free row, the        *)
(* constraints keep the order of their lines.                              *)

\* The numbers of a set without one of them.
LEMMA RankWithout ==
    ASSUME NEW S \in SUBSET Nat, IsFiniteSet(S), NEW m \in S, NEW T, T = S \ {m}, NEW l \in T
    PROVE  /\ l < m => Rank(T, l) = Rank(S, l) /\ Rank(S, l) < Rank(S, m)
           /\ l > m => Rank(T, l) = Rank(S, l) - 1 /\ Rank(S, l) > Rank(S, m)
<1>2. ASSUME l < m PROVE Rank(T, l) = Rank(S, l) /\ Rank(S, l) < Rank(S, m)
  <2>1. {j \in T : j <= l} = {j \in S : j <= l}
    BY <1>2
  <2>2. Rank(T, l) = Rank(S, l)
    BY <2>1 DEF Rank
  <2>3. l \in S
    OBVIOUS
  <2> QED
    BY <1>2, <2>2, <2>3, RankFacts
<1>3. ASSUME l > m PROVE Rank(T, l) = Rank(S, l) - 1 /\ Rank(S, l) > Rank(S, m)
  <2>1. PICK A, B : A = {j \in S : j <= l} /\ B = {j \in T : j <= l}
    OBVIOUS
  <2>2. B = A \ {m} /\ m \in A /\ A \in SUBSET S
    BY <1>3, <2>1
  <2>3. IsFiniteSet(A)
    BY <2>2, FS_Subset
  <2>4. Cardinality(B) = Cardinality(A) - 1
    BY <2>2, <2>3, FS_RemoveElement
  <2>5. Rank(T, l) = Rank(S, l) - 1
    BY <2>1, <2>4 DEF Rank
  <2>6. Rank(S, m) < Rank(S, l) /\ Rank(S, m) \in Nat /\ Rank(S, l) \in Nat
    <3>1. l \in S /\ m < l
      BY <1>3
    <3>2. Rank(S, m) \in 1 .. Cardinality(S) /\ Rank(S, l) \in 1 .. Cardinality(S) /\ Rank(S, m) < Rank(S, l)
      BY <3>1, RankFacts
    <3> QED
      BY <3>2
  <2> QED
    BY <2>5, <2>6
<1> QED
  BY <1>2, <1>3

\* A sequence without one of its elements.
LEMMA RemoveFacts ==
    ASSUME NEW E, NEW s \in Seq(E), NEW at \in 1 .. Len(s)
    PROVE  /\ RemoveAt(s, at) \in Seq(E) /\ Len(RemoveAt(s, at)) = Len(s) - 1
           /\ \A i \in 1 .. Len(s) - 1 : RemoveAt(s, at)[i] = IF i < at THEN s[i] ELSE s[i + 1]
<1>1. PICK n \in Nat : n = Len(s)
  OBVIOUS
<1>2. PICK a, b : a = SubSeq(s, 1, at - 1) /\ b = SubSeq(s, at + 1, n)
  OBVIOUS
<1>3. a \in Seq(E) /\ Len(a) = at - 1 /\ \A i \in 1 .. at - 1 : a[i] = s[i]
  BY <1>1, <1>2
<1>4. b \in Seq(E) /\ Len(b) = n - at /\ \A i \in 1 .. n - at : b[i] = s[at + i]
  BY <1>1, <1>2
<1>5. RemoveAt(s, at) = a \o b
  BY <1>1, <1>2 DEF RemoveAt
<1>6. a \o b \in Seq(E) /\ Len(a \o b) = n - 1
  BY <1>1, <1>3, <1>4
<1>7. ASSUME NEW i \in 1 .. n - 1 PROVE (a \o b)[i] = IF i < at THEN s[i] ELSE s[i + 1]
  <2>1. CASE i < at
    <3>1. i \in 1 .. Len(a) /\ i \in 1 .. at - 1
      BY <1>1, <1>3, <2>1
    <3>2. (a \o b)[i] = a[i]
      BY <1>3, <1>4, <3>1
    <3> QED
      BY <1>3, <2>1, <3>1, <3>2
  <2>2. CASE ~(i < at)
    <3>1. PICK j : j = i - (at - 1)
      OBVIOUS
    <3>2. j \in 1 .. n - at /\ at + j = i + 1 /\ ~(i <= at - 1) /\ i \in 1 .. (at - 1) + (n - at)
      BY <1>1, <2>2, <3>1
    <3>3. (a \o b)[i] = b[j]
      BY <1>3, <1>4, <3>1, <3>2
    <3> QED
      BY <1>4, <2>2, <3>2, <3>3
  <2> QED
    BY <2>1, <2>2
<1> QED
  BY <1>1, <1>5, <1>6, <1>7

\* A list of lines without one of them lists the others.
LEMMA ListsWithout ==
    ASSUME NEW S \in SUBSET Nat, IsFiniteSet(S), NEW m \in S, NEW T, T = S \ {m},
           NEW E, NEW seq \in Seq(E), NEW item, Lists(seq, S, item)
    PROVE  /\ Rank(S, m) \in 1 .. Len(seq) /\ RemoveAt(seq, Rank(S, m)) \in Seq(E)
           /\ Lists(RemoveAt(seq, Rank(S, m)), T, item)
<1>1. PICK at : at = Rank(S, m)
  OBVIOUS
<1>2. /\ Cardinality(S) \in Nat /\ \A l \in S : Rank(S, l) \in 1 .. Cardinality(S)
  BY RankFacts
<1>3. Len(seq) = Cardinality(S) /\ \A l \in S : seq[Rank(S, l)] = item[l]
  BY DEF Lists
<1>4. at \in 1 .. Len(seq)
  BY <1>1, <1>2, <1>3
<1>5. PICK rest : rest = RemoveAt(seq, at)
  OBVIOUS
<1>6. /\ rest \in Seq(E) /\ Len(rest) = Len(seq) - 1
      /\ \A i \in 1 .. Len(seq) - 1 : rest[i] = IF i < at THEN seq[i] ELSE seq[i + 1]
  BY <1>4, <1>5, RemoveFacts
<1>7. Cardinality(T) = Cardinality(S) - 1
  BY FS_RemoveElement
<1>8. ASSUME NEW l \in T PROVE rest[Rank(T, l)] = item[l]
  <2>1. l \in S /\ l \in Nat /\ m \in Nat /\ l # m
    OBVIOUS
  <2>5. /\ l < m => Rank(T, l) = Rank(S, l) /\ Rank(S, l) < at
        /\ l > m => Rank(T, l) = Rank(S, l) - 1 /\ Rank(S, l) > at
    BY <1>1, RankWithout
  <2>2. PICK r \in Nat, N \in Nat : r = Rank(S, l) /\ N = Len(seq) /\ r \in 1 .. N
    BY <1>2, <1>3, <2>1
  <2>3. CASE l < m
    <3>1. Rank(T, l) = r /\ r < at
      BY <2>2, <2>3, <2>5
    <3>2. r \in 1 .. N - 1
      BY <1>4, <2>2, <3>1
    <3>3. rest[r] = seq[r]
      BY <1>6, <2>2, <3>1, <3>2
    <3> QED
      BY <1>3, <2>1, <2>2, <3>1, <3>3
  <2>4. CASE l > m
    <3>1. Rank(T, l) = r - 1 /\ r > at
      BY <2>2, <2>4, <2>5
    <3>2. r - 1 \in 1 .. N - 1 /\ ~(r - 1 < at) /\ (r - 1) + 1 = r
      BY <1>4, <2>2, <3>1
    <3>3. rest[r - 1] = seq[r]
      BY <1>6, <2>2, <3>2
    <3> QED
      BY <1>3, <2>1, <2>2, <3>1, <3>3
  <2> QED
    BY <2>1, <2>3, <2>4
<1>9. Lists(rest, T, item)
  BY <1>3, <1>6, <1>7, <1>8 DEF Lists
<1> QED
  BY <1>1, <1>4, <1>5, <1>6, <1>9

\* The rows that are left once the objective is taken out.
LEMMA OthersFacts ==
    ASSUME NEW f \in Files, Understood(f)
    PROVE  /\ Others(f) \in SUBSET Nat /\ IsFiniteSet(Others(f)) /\ Constraints(f) \in SUBSET Others(f)
           /\ Others(f) \in SUBSET Said(f, "row") /\ Listed(f, 0) = {}
           /\ Cardinality(Others(f)) \in Nat /\ Listed(f, Cardinality(Others(f))) = Constraints(f)
<1>1. Others(f) \in SUBSET Said(f, "row") /\ Said(f, "row") \in SUBSET Nat /\ IsFiniteSet(Said(f, "row"))
  BY LinesFacts DEF Others
<1>2. Others(f) \in SUBSET Nat /\ IsFiniteSet(Others(f))
  BY <1>1, FS_Subset
<1>3. Constraints(f) \in SUBSET Others(f)
  BY NamesFacts DEF Constraints, Others
<1>4. \A l \in Others(f) : Rank(Others(f), l) \in 1 .. Cardinality(Others(f))
  BY <1>2, RankFacts
<1>5. Cardinality(Others(f)) \in Nat
  BY <1>2, RankFacts
<1>6. Listed(f, 0) = {}
  BY <1>3, <1>4, <1>5 DEF Listed
<1>7. Listed(f, Cardinality(Others(f))) = Constraints(f)
  BY <1>3, <1>4, <1>5 DEF Listed
<1> QED
  BY <1>1, <1>2, <1>3, <1>5, <1>6, <1>7

\* One row more.
LEMMA ListedNext ==
    ASSUME NEW f \in Files, Understood(f), NEW i \in Nat \ {0}, NEW l \in Others(f), Rank(Others(f), l) = i,
           NEW C, C = Listed(f, i - 1)
    PROVE  /\ l \in Constraints(f) => Listed(f, i) = C \union {l}
           /\ l \notin Constraints(f) => Listed(f, i) = C
           /\ C \in SUBSET Nat /\ IsFiniteSet(C) /\ l \in Nat /\ \A j \in C : j < l
           /\ Listed(f, i) \in SUBSET Constraints(f) /\ C \in SUBSET Constraints(f)
<1>1. PICK R : R = Others(f) /\ R \in SUBSET Nat /\ IsFiniteSet(R) /\ Constraints(f) \in SUBSET R
  BY OthersFacts
<1>2. \A j \in R : Rank(R, j) \in Nat
  <2>1. Cardinality(R) \in Nat /\ \A j \in R : Rank(R, j) \in 1 .. Cardinality(R)
    BY <1>1, RankFacts
  <2> QED
    BY <2>1
<1>3. \A j \in R : Rank(R, j) <= i <=> Rank(R, j) <= i - 1 \/ j = l
  <2>1. \A j \in R : Rank(R, j) = i => j = l
    BY <1>1, RankApart
  <2>2. \A j \in R : Rank(R, j) <= i <=> Rank(R, j) <= i - 1 \/ Rank(R, j) = i
    BY <1>2
  <2> QED
    BY <1>1, <2>1, <2>2
<1>4. /\ l \in Constraints(f) => Listed(f, i) = C \union {l}
      /\ l \notin Constraints(f) => Listed(f, i) = C
  BY <1>1, <1>3 DEF Listed
<1>5. C \in SUBSET Constraints(f) /\ Listed(f, i) \in SUBSET Constraints(f)
  BY DEF Listed
<1>6. C \in SUBSET Nat /\ IsFiniteSet(C) /\ l \in Nat
  BY <1>1, <1>5, FS_Subset
<1>7. ASSUME NEW j \in C PROVE j < l
  <2>1. j \in R /\ l \in R /\ j \in Nat /\ l \in Nat /\ Rank(R, j) <= i - 1
    BY <1>1, <1>5, <1>6 DEF Listed
  <2>2. Rank(R, j) < Rank(R, l)
    BY <1>1, <1>2, <2>1
  <2>3. ~(l < j)
    <3>1. l < j => Rank(R, l) < Rank(R, j)
      BY <1>1, <2>1, RankFacts
    <3> QED
      BY <1>2, <2>1, <2>2, <3>1
  <2>4. l # j
    BY <1>2, <2>1, <2>2
  <2> QED
    BY <2>1, <2>3, <2>4
<1> QED
  BY <1>4, <1>5, <1>6, <1>7

\* The next row is a constraint and gets an index, or a free row and gets none.
LEMMA RowAdded ==
    ASSUME NEW f \in Files, Understood(f), NEW i \in Nat \ {0}, NEW l \in Others(f), Rank(Others(f), l) = i,
           NEW row, row.type = Means(f, l).type, row.name = Means(f, l).name,
           NEW t, Parsed(t), ~t.errorFlag, ListedSo(f, i - 1, t), NEW u, u = AddRow(t, row)
    PROVE  /\ SameButRows(t, u)
           /\ IF u.errorFlag THEN ~Fits(f) ELSE ListedSo(f, i, u)
<1>1. PICK C : C = Listed(f, i - 1)
  OBVIOUS
<1>2. /\ l \in Constraints(f) => Listed(f, i) = C \union {l}
      /\ l \notin Constraints(f) => Listed(f, i) = C
      /\ C \in SUBSET Nat /\ IsFiniteSet(C) /\ l \in Nat /\ (\A j \in C : j < l)
      /\ Listed(f, i) \in SUBSET Constraints(f) /\ C \in SUBSET Constraints(f)
  BY <1>1, ListedNext
<1>3. l \in Said(f, "row") /\ (l \in Constraints(f) <=> row.type # "N")
  BY OthersFacts DEF Constraints, FreeRows
<1>4. Means(f, l).type \in {"N", "L", "E", "G"} /\ row.name \in STRING
  BY <1>3, MeaningFacts
<1>5. CASE row.type = "N"
  <2>1. u = t
    BY <1>5 DEF AddRow
  <2>2. Listed(f, i) = Listed(f, i - 1)
    BY <1>1, <1>2, <1>3, <1>5
  <2> QED
    BY <2>1, <2>2 DEF SameButRows, ListedSo
<1>6. CASE row.type # "N"
  <2>1. row.type \in {"E", "L", "G"} /\ l \in Constraints(f) /\ Listed(f, i) = C \union {l}
    BY <1>2, <1>3, <1>4, <1>6
  <2>2. PICK S, rows, item : S = STRING /\ rows = t.rows /\ rows \in Seq(S) /\ item = NameItem(f)
    BY DEF Parsed
  <2>3. Lists(rows, C, item) /\ \A j \in C : /\ Means(f, j).name \in DOMAIN t.types
                                             /\ t.types[Means(f, j).name] = Means(f, j).type
    BY <1>1, <2>2 DEF ListedSo
  <2>4. l \notin C
    BY <1>2
  <2>5. ToSet(rows) = {item[j] : j \in C}
    BY <1>2, <2>2, <2>3, ListsSet
  <2>6. \A j \in C : j \in Said(f, "row") /\ item[j] = Means(f, j).name /\ Means(f, j).name # row.name
    BY <1>2, <1>3, <2>2, <2>4, NamesFacts DEF NameItem
  <2>7. ~Known(t.rows, row.name)
    BY <2>2, <2>5, <2>6 DEF Known
  <2>8. Cardinality(C) \in Nat /\ Cardinality(C \union {l}) = Cardinality(C) + 1 /\ Len(rows) = Cardinality(C)
    BY <1>2, <2>3, <2>4, FS_AddElement, FS_CardinalityType DEF Lists
  <2>9. CASE CannotPut(t.rows, row.name)
    <3>1. u = [t EXCEPT !.errorFlag = TRUE]
      BY <2>1, <2>9 DEF AddRow
    <3>2. SameButRows(t, u) /\ u.errorFlag = TRUE
      BY <3>1 DEF SameButRows, Parsed, Fields
    <3>3. PICK a \in Nat : a = Cardinality(C)
      BY <2>8
    <3>4. a >= Limit
      BY <2>2, <2>8, <2>9, <3>3 DEF CannotPut
    <3>5. Cardinality(C \union {l}) <= Cardinality(Constraints(f))
      <4>1. C \union {l} \in SUBSET Constraints(f) /\ IsFiniteSet(Constraints(f))
        BY <1>2, <2>1, NamesFacts
      <4> QED
        BY <4>1, FS_Subset
    <3>6. PICK b \in Nat, c \in Nat : b = Cardinality(Constraints(f)) /\ c = Size(f) /\ b <= c
      BY SizeFacts
    <3>7. Limit \in Nat /\ a + 1 <= b
      BY <2>8, <3>3, <3>5, <3>6, MpsAssumption
    <3>8. ~(c <= Limit)
      BY <3>3, <3>4, <3>6, <3>7
    <3> QED
      BY <3>2, <3>6, <3>8 DEF Fits
  <2>10. CASE ~CannotPut(t.rows, row.name)
    <3>1. PICK more : more = Append(rows, row.name)
      OBVIOUS
    <3>2. PICK types : types = Extended(t.types, row.name, row.type)
      OBVIOUS
    <3>3. u = [t EXCEPT !.rows = more, !.types = types]
      BY <2>1, <2>2, <2>7, <2>10, <3>1, <3>2 DEF AddRow, Put
    <3>4. SameButRows(t, u) /\ u.errorFlag = t.errorFlag /\ u.rows = more /\ u.types = types
      BY <3>3 DEF SameButRows, Parsed, Fields
    <3>5. Lists(more, Listed(f, i), NameItem(f))
      <4>1. item[l] = row.name
        BY <1>3, <2>2 DEF NameItem
      <4>2. Lists(Append(rows, item[l]), C \union {l}, item)
        BY <1>2, <1>4, <2>2, <2>3, <4>1, ListsMore
      <4> QED
        BY <2>1, <2>2, <3>1, <4>1, <4>2
    <3>6. /\ DOMAIN types = {row.name} \union DOMAIN t.types /\ types[row.name] = row.type
          /\ \A name \in DOMAIN t.types : name # row.name => types[name] = t.types[name]
      BY <3>2 DEF Extended
    <3>7. \A j \in Listed(f, i) :
             Means(f, j).name \in DOMAIN types /\ types[Means(f, j).name] = Means(f, j).type
      BY <2>1, <2>3, <2>6, <3>6
    <3>8. ListedSo(f, i, u)
      BY <3>4, <3>5, <3>7 DEF ListedSo
    <3> QED
      BY <3>4, <3>8
  <2> QED
    BY <2>9, <2>10
<1> QED
  BY <1>5, <1>6

\* The fold over the buffered rows without the objective.
LEMMA RowsHeard ==
    ASSUME NEW f \in Files, Understood(f), NEW base, Parsed(base), ~base.errorFlag,
           base.rows = <<>>, NEW seq \in Seq(Buffered), Lists(seq, Others(f), RowItem(f)),
           NEW end, end = RowsOf(base, seq)
    PROVE  /\ SameButRows(base, end) /\ Parsed(end)
           /\ IF end.errorFlag THEN ~Fits(f)
              ELSE /\ Lists(end.rows, Constraints(f), NameItem(f))
                   /\ \A l \in Constraints(f) : end.types[Means(f, l).name] = Means(f, l).type
<1>1. PICK R : R = Others(f)
  OBVIOUS
<1>2. PICK n \in Nat : n = Cardinality(R)
  BY <1>1, OthersFacts
<1>3. Len(seq) = n /\ DOMAIN seq = 1 .. n
  BY <1>1, <1>2 DEF Lists
<1>4. Passes(n, base, "row", seq, 0, end)
  BY <1>3, RowsPass
<1>5. Through("row", f, 0, base, 0, base)
  <2>1. Listed(f, 0) = {}
    BY OthersFacts
  <2>2. PICK C : C = {} /\ Cardinality(C) = 0
    BY FS_EmptySet
  <2>3. Lists(base.rows, C, NameItem(f))
    BY <2>2 DEF Lists
  <2>4. ListedSo(f, 0, base)
    BY <2>1, <2>2, <2>3 DEF ListedSo
  <2> QED
    BY <2>4 DEF Through, SameButRows
<1>6. ASSUME NEW t, NEW i \in 1 .. n, Through("row", f, 0, base, i - 1, t)
      PROVE  Through("row", f, 0, base, i, FoldStep("row", seq, 0, t, i))
  <2>1. PICK row, u : row = seq[i] /\ u = AddRow(t, row)
    OBVIOUS
  <2>2. FoldStep("row", seq, 0, t, i) = u
    BY <2>1 DEF FoldStep
  <2>3. Parsed(t) /\ SameButRows(base, t) /\ (IF t.errorFlag THEN ~Fits(f) ELSE ListedSo(f, i - 1, t))
    BY <1>6 DEF Through
  <2>4. row \in Buffered
    BY <1>3, <2>1
  <2>5. Parsed(u)
    BY <2>1, <2>3, <2>4, AddRowKeeps DEF Buffered
  <2>6. CASE t.errorFlag
    <3>1. u = t
      BY <2>1, <2>6 DEF AddRow
    <3> QED
      BY <2>2, <2>3, <2>6, <3>1 DEF Through
  <2>7. CASE ~t.errorFlag
    <3>1. PICK l \in R : Rank(R, l) = i
      BY <1>1, <1>2, OthersFacts, RankOnto
    <3>2. row.type = Means(f, l).type /\ row.name = Means(f, l).name
      <4>1. l \in Said(f, "row")
        BY <1>1, OthersFacts
      <4>2. row = RowItem(f)[l]
        BY <1>1, <2>1, <3>1 DEF Lists
      <4>3. row = [type |-> Means(f, l).type, name |-> Means(f, l).name]
        BY <4>1, <4>2 DEF RowItem
      <4> QED
        BY <4>3
    <3>3. i \in Nat \ {0} /\ ListedSo(f, i - 1, t)
      BY <2>3, <2>7
    <3>4. SameButRows(t, u) /\ (IF u.errorFlag THEN ~Fits(f) ELSE ListedSo(f, i, u))
      BY <1>1, <2>1, <2>3, <2>7, <3>1, <3>2, <3>3, RowAdded
    <3>5. SameButRows(base, u)
      BY <2>3, <3>4 DEF SameButRows
    <3> QED
      BY <2>2, <2>5, <3>4, <3>5 DEF Through
  <2> QED
    BY <2>6, <2>7
<1>7. Through("row", f, 0, base, n, end)
  BY <1>4, <1>5, <1>6, ThroughAll
<1>8. Listed(f, n) = Constraints(f)
  BY <1>1, <1>2, OthersFacts
<1> QED
  BY <1>7, <1>8 DEF Through, ListedSo

\* The objective is the first of the free rows.
LEMMA ObjectiveFound ==
    ASSUME NEW f \in Files, Understood(f), NEW seq \in Seq(Buffered),
           Lists(seq, Said(f, "row"), RowItem(f))
    PROVE  /\ ObjectiveIndex(seq) = Rank(Said(f, "row"), Min(FreeRows(f)))
           /\ ObjectiveIndex(seq) \in 1 .. Len(seq)
           /\ seq[ObjectiveIndex(seq)].name = ObjectiveRow(f)
<1>1. PICK S, m : S = Said(f, "row") /\ m = Min(FreeRows(f))
  OBVIOUS
<1>2. S \in SUBSET Nat /\ IsFiniteSet(S)
  BY <1>1, LinesFacts
<1>3. m \in FreeRows(f) /\ FreeRows(f) \in SUBSET S /\ \A l \in FreeRows(f) : m <= l
  BY <1>1, NamesFacts
<1>4. PICK n \in Nat : n = Cardinality(S) /\ n = Len(seq) /\ DOMAIN seq = 1 .. n
  BY <1>1, <1>2, RankFacts DEF Lists
<1>5. \A l \in S : /\ Rank(S, l) \in 1 .. n /\ seq[Rank(S, l)].type = Means(f, l).type
                   /\ seq[Rank(S, l)].name = Means(f, l).name
  <2>1. ASSUME NEW l \in S
        PROVE  /\ Rank(S, l) \in 1 .. n /\ seq[Rank(S, l)].type = Means(f, l).type
               /\ seq[Rank(S, l)].name = Means(f, l).name
    <3>1. Rank(S, l) \in 1 .. n
      BY <1>2, <1>4, RankFacts
    <3>2. seq[Rank(S, l)] = RowItem(f)[l]
      BY <1>1 DEF Lists
    <3>3. seq[Rank(S, l)] = [type |-> Means(f, l).type, name |-> Means(f, l).name]
      BY <1>1, <3>2 DEF RowItem
    <3> QED
      BY <3>1, <3>3
  <2> QED
    BY <2>1
<1>6. PICK free : free = {k \in DOMAIN seq : seq[k].type = "N"}
  OBVIOUS
<1>7. \A i \in 1 .. n : \E l \in S : Rank(S, l) = i
  BY <1>2, <1>4, RankOnto
<1>8. Rank(S, m) \in free /\ free \in SUBSET Nat
  BY <1>1, <1>3, <1>4, <1>5, <1>6 DEF FreeRows
<1>9. ASSUME NEW i \in free PROVE Rank(S, m) <= i
  <2>1. i \in 1 .. n /\ seq[i].type = "N"
    BY <1>4, <1>6
  <2>2. PICK l \in S : Rank(S, l) = i
    BY <1>7, <2>1
  <2>3. l \in FreeRows(f) /\ m <= l /\ m \in S /\ m \in Nat /\ l \in Nat
    BY <1>1, <1>2, <1>3, <1>5, <2>1, <2>2 DEF FreeRows
  <2>4. m < l => Rank(S, m) < Rank(S, l)
    BY <1>2, <2>3, RankFacts
  <2>5. Rank(S, m) \in Nat /\ Rank(S, l) \in Nat
    BY <1>5, <2>3
  <2>6. m < l \/ m = l
    BY <2>3
  <2> QED
    BY <2>2, <2>4, <2>5, <2>6
<1>10. Min(free) = Rank(S, m)
  <2>1. Min(free) \in free /\ \A y \in free : Min(free) <= y
    BY <1>8, MinFacts
  <2>2. Min(free) <= Rank(S, m) /\ Rank(S, m) <= Min(free) /\ Min(free) \in Nat /\ Rank(S, m) \in Nat
    BY <1>8, <1>9, <2>1
  <2> QED
    BY <2>2
<1>11. ObjectiveIndex(seq) = Rank(S, m)
  BY <1>6, <1>8, <1>10 DEF ObjectiveIndex
<1>12. Rank(S, m) \in 1 .. n /\ seq[Rank(S, m)].name = ObjectiveRow(f)
  BY <1>1, <1>3, <1>5 DEF ObjectiveRow
<1> QED
  BY <1>1, <1>4, <1>11, <1>12

\* The rows are finalized with every row of the file heard, and none of it lost.
LEMMA RowsFinalized ==
    ASSUME NEW f \in Files, Understood(f), NEW t, Parsed(t), ~t.errorFlag, Blank(t),
           Lists(t.buffered, Said(f, "row"), RowItem(f)), NEW u, u = FinalizeRows(t)
    PROVE  /\ u.buffered = t.buffered /\ u.maximize = t.maximize
           /\ IF u.errorFlag THEN ~Fits(f)
              ELSE /\ RowsSo(f, u) /\ u.cols = <<>> /\ u.coo = <<>> /\ u.var = <<>>
                   /\ u.current = None /\ u.constant = 0 /\ DOMAIN u.con = RowNames(f)
                   /\ \A l \in Constraints(f) : u.con[Means(f, l).name] = FreshInterval(Means(f, l).type)
<1>1. PICK seq \in Seq(Buffered) : seq = t.buffered
  BY DEF Parsed, Buffered
<1>2. PICK at : at = ObjectiveIndex(seq)
  OBVIOUS
<1>3. PICK S, m : S = Said(f, "row") /\ m = Min(FreeRows(f)) /\ Others(f) = S \ {m}
  BY DEF Others
<1>4. at = Rank(S, m) /\ at \in 1 .. Len(seq) /\ seq[at].name = ObjectiveRow(f)
  BY <1>1, <1>2, <1>3, ObjectiveFound
<1>5. PICK rest : rest = RemoveAt(seq, at)
  OBVIOUS
<1>6. rest \in Seq(Buffered) /\ Lists(rest, Others(f), RowItem(f))
  <2>1. S \in SUBSET Nat /\ IsFiniteSet(S) /\ m \in S
    BY <1>3, LinesFacts, NamesFacts
  <2>2. PICK T : T = Others(f) /\ T = S \ {m}
    BY <1>3
  <2>3. Lists(seq, S, RowItem(f))
    BY <1>1, <1>3
  <2> QED
    BY <1>4, <1>5, <2>1, <2>2, <2>3, ListsWithout
<1>7. PICK named : named = [t EXCEPT !.objRow = ObjectiveRow(f)]
  OBVIOUS
<1>8. /\ Parsed(named) /\ named.objRow = ObjectiveRow(f) /\ named.rows = <<>>
      /\ named.buffered = t.buffered /\ named.cols = t.cols /\ named.current = t.current
      /\ named.coo = t.coo /\ named.obj = t.obj /\ named.var = t.var /\ named.constant = t.constant
      /\ named.maximize = t.maximize /\ named.errorFlag = t.errorFlag
  <2>1. PICK name : name = ObjectiveRow(f)
    OBVIOUS
  <2>2. named = [t EXCEPT !.objRow = name]
    BY <1>7, <2>1
  <2>3. t.rows = <<>>
    BY DEF Blank
  <2> QED
    BY <2>1, <2>2, <2>3 DEF Parsed, Fields
<1>9. PICK added : added = RowsOf(named, rest)
  OBVIOUS
<1>10. /\ SameButRows(named, added) /\ Parsed(added)
       /\ IF added.errorFlag THEN ~Fits(f)
          ELSE /\ Lists(added.rows, Constraints(f), NameItem(f))
               /\ \A l \in Constraints(f) : added.types[Means(f, l).name] = Means(f, l).type
  <2>1. ~named.errorFlag
    BY <1>8
  <2> QED
    BY <1>6, <1>8, <1>9, <2>1, RowsHeard
<1>11. PICK con : con = [r \in ToSet(added.rows) |-> FreshInterval(added.types[r])]
  OBVIOUS
<1>12. u = IF added.errorFlag THEN added ELSE [added EXCEPT !.con = con]
  <2>1. at # 0 /\ at = ObjectiveIndex(t.buffered) /\ t.buffered[at].name = ObjectiveRow(f)
        /\ rest = RemoveAt(t.buffered, at)
    BY <1>1, <1>2, <1>4, <1>5
  <2>2. added = FoldLeft(AddRow, named, rest)
    BY <1>9 DEF RowsOf
  <2> QED
    BY <1>7, <1>11, <2>1, <2>2 DEF FinalizeRows
<1>13. /\ added.buffered = t.buffered /\ added.maximize = t.maximize /\ added.objRow = ObjectiveRow(f)
       /\ added.cols = <<>> /\ added.coo = <<>> /\ added.var = <<>> /\ added.current = None
       /\ added.constant = 0
  BY <1>8, <1>10 DEF SameButRows, Blank
<1>14. CASE added.errorFlag
  BY <1>10, <1>12, <1>13, <1>14
<1>15. CASE ~added.errorFlag
  <2>1. u = [added EXCEPT !.con = con]
    BY <1>12, <1>15
  <2>2. /\ u.buffered = t.buffered /\ u.maximize = t.maximize /\ u.objRow = ObjectiveRow(f)
        /\ u.cols = <<>> /\ u.coo = <<>> /\ u.var = <<>> /\ u.current = None
        /\ u.constant = 0 /\ u.rows = added.rows /\ u.types = added.types /\ u.con = con
        /\ u.errorFlag = added.errorFlag
    BY <1>10, <1>13, <2>1 DEF Parsed, Fields
  <2>3. RowsSo(f, u)
    BY <1>10, <1>15, <2>2 DEF RowsSo
  <2>4. ToSet(added.rows) = RowNames(f)
    <3>1. PICK T, C, rows, item : /\ T = STRING /\ C = Constraints(f) /\ rows = added.rows /\ item = NameItem(f)
                                  /\ rows \in Seq(T) /\ Lists(rows, C, item)
      BY <1>10, <1>15 DEF Parsed
    <3>2. C \in SUBSET Nat /\ IsFiniteSet(C) /\ C \in SUBSET Said(f, "row")
      BY <3>1, NamesFacts
    <3>3. ToSet(rows) = {item[l] : l \in C}
      BY <3>1, <3>2, ListsSet
    <3>4. \A l \in C : item[l] = Means(f, l).name
      BY <3>1, <3>2 DEF NameItem
    <3> QED
      BY <3>1, <3>3, <3>4 DEF RowNames
  <2>5. \A l \in Constraints(f) : con[Means(f, l).name] = FreshInterval(Means(f, l).type)
    <3>1. \A l \in Constraints(f) : Means(f, l).name \in RowNames(f)
      BY DEF RowNames
    <3> QED
      BY <1>10, <1>11, <1>15, <2>4, <3>1
  <2>6. DOMAIN con = RowNames(f)
    BY <1>11, <2>4
  <2> QED
    BY <1>15, <2>2, <2>3, <2>5, <2>6
<1> QED
  BY <1>14, <1>15

------------------------------------------------------------------------------
(* From one line of the file to the next.                                  *)

\* Nothing is heard of the columns while the rows are read.
LEMMA NothingHeard ==
    ASSUME NEW f \in Files, Understood(f), NEW k \in Nat, Stage(f, k) <= 1, k \in Headers(f)
    PROVE  /\ \A kind \in {"entries", "rhs", "range", "bound"} : Before(f, kind, k + 1) = {}
           /\ \A kind \in {"entries", "rhs", "range"} : Heard(f, kind, k + 1) = {}
<1>1. ASSUME NEW kind \in {"entries", "rhs", "range", "bound"}, NEW l \in Said(f, kind), l < k + 1
      PROVE  FALSE
  <2>1. kind \in Kinds /\ Rung(kind) \in {2, 3, 4, 5}
    BY DEF Kinds, Rung, Order, Part
  <2>2. l # k /\ l \in Nat
    BY <2>1, RecordFacts, LinesFacts
  <2>3. l < k
    BY <1>1, <2>2
  <2>4. Rung(kind) <= Stage(f, k) /\ Stage(f, k) \in 0 .. 6
    BY <2>1, <2>3, LinesInOrder, StageRange
  <2> QED
    BY <2>1, <2>4
<1>2. \A kind \in {"entries", "rhs", "range", "bound"} : Before(f, kind, k + 1) = {}
  BY <1>1 DEF Before
<1>3. ASSUME NEW kind \in {"entries", "rhs", "range"}, NEW d \in Heard(f, kind, k + 1)
      PROVE  FALSE
  <2>1. d \in Data(f, kind) /\ d[1] < k + 1
    BY DEF Heard
  <2>2. d[1] \in Said(f, kind)
    BY <2>1, DataFacts
  <2>3. kind \in {"entries", "rhs", "range", "bound"}
    OBVIOUS
  <2> QED
    BY <1>1, <2>1, <2>2, <2>3
<1>4. \A kind \in {"entries", "rhs", "range"} : Heard(f, kind, k + 1) = {}
  BY <1>3
<1> QED
  BY <1>2, <1>4

\* What the finalized rows are, before any column.
LEMMA FreshBuilt ==
    ASSUME NEW f \in Files, Understood(f), NEW k \in Nat, Stage(f, k) <= 1, k \in Headers(f),
           NEW u, RowsSo(f, u), u.cols = <<>>, u.coo = <<>>, u.var = <<>>,
           u.current = None, u.constant = 0, DOMAIN u.con = RowNames(f),
           \A l \in Constraints(f) : u.con[Means(f, l).name] = FreshInterval(Means(f, l).type)
    PROVE  Built(f, k + 1, u)
<1>1. /\ Before(f, "entries", k + 1) = {} /\ Before(f, "bound", k + 1) = {}
      /\ Heard(f, "entries", k + 1) = {} /\ Heard(f, "rhs", k + 1) = {} /\ Heard(f, "range", k + 1) = {}
  BY NothingHeard
<1>2. PICK none : none = {} /\ IsFiniteSet(none) /\ Cardinality(none) = 0
  BY FS_EmptySet
<1>3. Total(f, none) = 0
  <2>1. IsFiniteSet(none) /\ \A d \in none : ValueOf(f, d) \in Int
    BY <1>2
  <2>2. Total(f, {}) = 0
    BY <2>1, TotalWith
  <2> QED
    BY <1>2, <2>2
<1>4. ToSet(u.cols) = {}
  BY DEF ToSet
<1>5. ColumnsSo(f, k + 1, u)
  <2>1. Declaring(f, k + 1) = none
    BY <1>1, <1>2 DEF Declaring
  <2>2. EntriesBefore(f, k + 1) = {}
    BY <1>1 DEF Before, EntriesBefore
  <2>3. ColumnsBefore(f, k + 1) = {} /\ ColumnBefore(f, k + 1) = None
    BY <2>2 DEF ColumnsBefore, ColumnBefore
  <2>4. Lists(u.cols, none, ColItem(f))
    BY <1>2 DEF Lists
  <2> QED
    BY <1>4, <2>1, <2>3, <2>4 DEF ColumnsSo
<1>6. EntriesSo(f, Heard(f, "entries", k + 1), u)
  <2>1. Terms(f, none) = none
    BY <1>2 DEF Terms
  <2>2. Traces(<<>>, f, none, u.coo)
    BY <1>2, <2>1 DEF Traces
  <2>3. Len(u.coo) = Cardinality(Terms(f, none))
    BY <1>2, <2>1
  <2> QED
    BY <1>1, <1>2, <1>4, <2>2, <2>3 DEF EntriesSo
<1>7. SidesSo(f, Heard(f, "rhs", k + 1), Heard(f, "range", k + 1), u)
  <2>1. \A name : Of(f, none, name) = none
    BY <1>2 DEF Of
  <2>2. u.constant = -Total(f, Of(f, none, ObjectiveRow(f)))
    <3>1. PICK z \in Int : z = 0
      OBVIOUS
    <3>2. Total(f, Of(f, none, ObjectiveRow(f))) = z /\ u.constant = z
      BY <1>3, <2>1, <3>1
    <3>3. z \in Int /\ z + z = 0
      BY <3>1
    <3>4. z = -z
      BY ONLY <3>3
    <3> QED
      BY ONLY <3>2, <3>4
  <2>3. ASSUME NEW l \in Constraints(f)
        PROVE  FreshInterval(Means(f, l).type) = Side(f, l, none, none)
    <3>1. Means(f, l).type \in {"L", "E", "G"}
      BY NamesFacts
    <3>2. PICK B : B = Of(f, none, Means(f, l).name)
      OBVIOUS
    <3>3. B = {} /\ Total(f, B) = 0
      BY <1>2, <1>3, <2>1, <3>2
    <3>4. 0 + 0 = 0 /\ ~(0 < 0)
      OBVIOUS
    <3> QED
      BY ONLY <3>1, <3>2, <3>3, <3>4 DEF FreshInterval, Side
  <2> QED
    BY <1>1, <1>2, <2>2, <2>3 DEF SidesSo
<1>8. BoundsSo(f, Before(f, "bound", k + 1), u)
  BY <1>4 DEF BoundsSo
<1> QED
  BY <1>5, <1>6, <1>7, <1>8 DEF Built

\* A line that does not set the sense leaves it.
LEMMA SenseStays ==
    ASSUME NEW f \in Files, NEW k \in Nat, k \notin Said(f, "sense"), NEW t, SenseSo(f, k, t),
           NEW u, u.maximize = t.maximize
    PROVE  SenseSo(f, k + 1, u)
<1>1. Before(f, "sense", k + 1) = Before(f, "sense", k)
  BY BeforeFacts
<1> QED
  BY <1>1 DEF SenseSo

\* A line that is no record changes the sense at most.
LEMMA FollowsOn ==
    ASSUME NEW f \in Files, Understood(f), NEW k \in Nat, \A kind \in Kinds : k \notin Said(f, kind),
           NEW t, Follows(f, k, t), Stage(f, k) <= 1 <=> Stage(f, k + 1) <= 1,
           NEW u, SenseSo(f, k + 1, u), SameTables(t, u), u.buffered = t.buffered,
           u.var = t.var, u.con = t.con, u.constant = t.constant
    PROVE  Follows(f, k + 1, u)
<1>1. BufferSo(f, k + 1, u)
  <2>1. k \notin Said(f, "row")
    BY DEF Kinds
  <2>2. Before(f, "row", k + 1) = Before(f, "row", k)
    BY <2>1, BeforeFacts
  <2> QED
    BY <2>2 DEF BufferSo, Follows
<1>2. CASE Stage(f, k) <= 1
  <2>1. Blank(u)
    BY <1>2 DEF Follows, Blank, SameTables
  <2> QED
    BY <1>1, <1>2, <2>1 DEF Follows
<1>3. CASE ~(Stage(f, k) <= 1)
  <2>1. Built(f, k, t)
    BY <1>3 DEF Follows
  <2>2. Built(f, k + 1, u)
    BY <2>1, BuiltStays
  <2> QED
    BY <1>1, <1>3, <2>2 DEF Follows
<1> QED
  BY <1>2, <1>3

\* The section a line is in and how far into the file that is.
LEMMA StageIs ==
    ASSUME NEW f \in Files, NEW k \in Nat
    PROVE  /\ SectionOf(f, k) \in {None, "OBJSENSE", "ROWS", "COLUMNS", "RHS", "RANGES", "BOUNDS", "ENDATA"}
           /\ Stage(f, k) \in 0 .. 6
           /\ SectionOf(f, k) = "ROWS" <=> Stage(f, k) = 1
           /\ SectionOf(f, k) = "COLUMNS" <=> Stage(f, k) = 2
           /\ SectionOf(f, k) = "ENDATA" <=> Stage(f, k) = 6
           /\ SectionOf(f, k) \in {None, "OBJSENSE"} <=> Stage(f, k) = 0
<1>1. SectionOf(f, k) = None \/ \E h \in Headers(f) : SectionOf(f, k) = Opened(f, h)
  BY SectionFacts
<1>2. \A h \in Headers(f) : Opened(f, h) \in DOMAIN Order
  BY SectionsFacts
<1>3. SectionOf(f, k) \in {None, "OBJSENSE", "ROWS", "COLUMNS", "RHS", "RANGES", "BOUNDS", "ENDATA"}
  BY <1>1, <1>2 DEF Order
<1>4. None \notin {"OBJSENSE", "ROWS", "COLUMNS", "RHS", "RANGES", "BOUNDS", "ENDATA"}
  BY DEF None
<1>5. PICK s : s = SectionOf(f, k)
  OBVIOUS
<1>6. Stage(f, k) = IF s = None THEN 0 ELSE Order[s]
  BY <1>5 DEF Stage
<1> QED
  BY <1>3, <1>4, <1>5, <1>6 DEF Order

\* A header says nothing but the sense.
LEMMA HeaderSays ==
    ASSUME NEW f \in Files, Understood(f), NEW k \in Headers(f), NEW words, words = f.lines[k].free
    PROVE  /\ \A kind \in Kinds : k \notin Said(f, kind)
           /\ SectionOf(f, k + 1) = Sections[words[1]] /\ Stage(f, k + 1) = Order[Sections[words[1]]]
           /\ Len(words) > 1 => /\ Sections[words[1]] = "OBJSENSE" /\ k \in Said(f, "sense")
                                /\ Means(f, k).max \in BOOLEAN /\ SpellsSense(words[2], Means(f, k).max)
           /\ ~(Len(words) > 1) => k \notin Said(f, "sense")
<1>1. k \in DOMAIN f.lines /\ k \in Nat /\ words \in Seq(STRING) /\ words # <<>>
  BY LinesFacts DEF Headers
<1>2. \A kind \in Kinds : k \notin Said(f, kind)
  BY RecordFacts
<1>3. SectionOf(f, k + 1) = Sections[words[1]] /\ Stage(f, k + 1) = Order[Sections[words[1]]]
  BY <1>1, NextSection DEF Opened
<1>4. Spelled(f, k)
  BY <1>1 DEF Understood
<1>5. IF Len(words) = 1 THEN Means(f, k).is = "nothing"
      ELSE Means(f, k).is = "sense" /\ Meaningful(f, k) /\ SpellsSense(words[2], Means(f, k).max)
  BY <1>1, <1>4 DEF Spelled
<1>6. PICK n \in Nat : n = Len(words) /\ n # 0
  BY <1>1
<1>7. CASE Len(words) > 1
  <2>1. Len(words) # 1
    <3>1. n = Len(words)
      BY ONLY <1>6
    <3>2. n > 1
      BY ONLY <1>7, <3>1
    <3>3. n # 1
      BY ONLY n \in Nat, <3>2
    <3> QED
      BY ONLY <3>1, <3>3
  <2>2. Means(f, k).is = "sense" /\ Meaningful(f, k) /\ SpellsSense(words[2], Means(f, k).max)
    BY <1>5, <2>1
  <2>3. Means(f, k).max \in BOOLEAN
    BY <2>2 DEF Meaningful
  <2>4. k \in Said(f, "sense")
    BY <1>1, <2>2 DEF Said, Means
  <2>5. Sections[words[1]] = "OBJSENSE"
    <3>1. IsHeader(FreeTokens(f.lines[k]))
      BY DEF Headers
    <3>2. PICK S, line : S = STRING /\ line = f.lines[k] /\ line.free \in Seq(S) /\ words = line.free
      BY <1>1
    <3>3. FreeTokens(line)[1] = words[1] /\ Len(FreeTokens(line)) # 1
      BY <1>1, <2>1, <3>2, FreeTokensFacts
    <3> QED
      BY <3>1, <3>2, <3>3 DEF IsHeader
  <2> QED
    BY <1>2, <1>3, <1>7, <2>2, <2>3, <2>4, <2>5
<1>8. CASE ~(Len(words) > 1)
  <2>1. Len(words) = 1
    <3>1. ~(n > 1) /\ n # 0 /\ n = Len(words)
      BY <1>6, <1>8
    <3>2. n = 1
      BY ONLY <3>1, n \in Nat
    <3> QED
      BY ONLY <3>1, <3>2
  <2>2. Means(f, k).is = "nothing"
    BY <1>5, <2>1
  <2>3. k \notin Said(f, "sense")
    BY <2>2 DEF Said, Means
  <2> QED
    BY <1>2, <1>3, <1>8, <2>3
<1> QED
  BY <1>7, <1>8

\* A header's line: the rows are finalized just when the file leaves ROWS.
LEMMA HeaderStep ==
    ASSUME NEW f \in Files, Understood(f), NEW k \in Headers(f), NEW words, words = f.lines[k].free,
           NEW t, Parsed(t), ~t.errorFlag, Follows(f, k, t),
           NEW part, part = SectionOf(f, k), NEW fin \in BOOLEAN, fin <=> Stage(f, k) >= 2,
           NEW next, next = Sections[words[1]],
           NEW leaving, leaving = (part = "ROWS" /\ next # "ROWS" /\ ~fin),
           NEW closed, closed = IF leaving THEN FinalizeRows(t) ELSE t,
           NEW u, u = IF Len(words) > 1 THEN SetSense(closed, words[2]) ELSE closed
    PROVE  /\ next = SectionOf(f, k + 1) /\ (fin \/ leaving <=> Stage(f, k + 1) >= 2)
           /\ IF u.errorFlag THEN ~Fits(f) ELSE Follows(f, k + 1, u)
<1>1. k \in Nat /\ Opened(f, k) = next
  BY LinesFacts DEF Opened
<1>2. /\ \A kind \in Kinds : k \notin Said(f, kind)
      /\ SectionOf(f, k + 1) = next /\ Stage(f, k + 1) = Order[next]
      /\ Len(words) > 1 => /\ next = "OBJSENSE" /\ k \in Said(f, "sense")
                           /\ Means(f, k).max \in BOOLEAN /\ SpellsSense(words[2], Means(f, k).max)
      /\ ~(Len(words) > 1) => k \notin Said(f, "sense")
  BY HeaderSays
<1>3. PICK a \in 0 .. 6, b \in 0 .. 6 : a = Stage(f, k) /\ b = Stage(f, k + 1)
  BY <1>1, StageIs
<1>4. /\ part = "ROWS" <=> a = 1
      /\ next = "ROWS" <=> b = 1
      /\ next = "OBJSENSE" => b = 0
      /\ a < b \/ a = 0
  <2>1. k + 1 \in Nat
    BY <1>1
  <2>2. part = "ROWS" <=> a = 1
    BY <1>1, <1>3, StageIs
  <2>3. /\ next = "ROWS" <=> b = 1
        /\ next \in {None, "OBJSENSE"} <=> b = 0
    BY <1>2, <1>3, <2>1, StageIs
  <2>4. a < b \/ a = 0
    <3>1. Order[Opened(f, k)] = b /\ k >= k
      BY <1>1, <1>2, <1>3
    <3>2. Stage(f, k) < Order[Opened(f, k)] \/ Stage(f, k) = 0
      BY <1>1, <3>1, HeadersInOrder
    <3> QED
      BY <1>3, <3>1, <3>2
  <2> QED
    BY <2>2, <2>3, <2>4
<1>5. a = 0 => b <= 1
  <2> SUFFICES ASSUME a = 0, b >= 2 PROVE FALSE
    BY <1>3
  <2>1. PICK l : l \in Said(f, "row")
    BY NamesFacts
  <2>2. "row" \in Kinds /\ Rung("row") = 1 /\ l \in Nat /\ l # k
    BY <1>2, <2>1, LinesFacts DEF Kinds, Rung, Order, Part
  <2>3. CASE l < k
    <3>1. Rung("row") <= Stage(f, k)
      BY <1>1, <2>1, <2>2, <2>3, LinesInOrder
    <3> QED
      BY <1>3, <2>2, <3>1
  <2>4. CASE ~(l < k)
    <3>1. l >= k + 1 /\ k + 1 \in Nat
      BY <1>1, <2>2, <2>4
    <3>2. Stage(f, k + 1) <= Rung("row")
      BY <2>1, <2>2, <3>1, LinesInOrder
    <3> QED
      BY <1>3, <2>2, <3>2
  <2> QED
    BY <2>3, <2>4
<1>6. leaving <=> a = 1
  <2>1. leaving <=> (part = "ROWS" /\ next # "ROWS" /\ ~fin)
    OBVIOUS
  <2>2. fin <=> a >= 2
    BY <1>3
  <2>3. a = 1 => b # 1
    BY <1>3, <1>4
  <2>4. a = 1 => ~(a >= 2)
    OBVIOUS
  <2> QED
    BY ONLY <2>1, <2>2, <2>3, <2>4, <1>4
<1>7. fin \/ leaving <=> b >= 2
  <2>1. fin <=> a >= 2
    BY <1>3
  <2> QED
    BY ONLY <2>1, <1>4, <1>5, <1>6, a \in 0 .. 6, b \in 0 .. 6
<1>8. CASE leaving
  <2>1. a = 1 /\ b >= 2 /\ ~(Len(words) > 1)
    <3>1. Len(words) > 1 => b = 0
      BY <1>2, <1>4
    <3> QED
      BY ONLY <3>1, <1>6, <1>7, <1>8, b \in 0 .. 6
  <2>2. u = FinalizeRows(t) /\ Blank(t) /\ BufferSo(f, k, t) /\ SenseSo(f, k, t)
    BY <1>3, <1>8, <2>1 DEF Follows
  <2>3. Before(f, "row", k) = Said(f, "row") /\ Before(f, "row", k + 1) = Said(f, "row")
    <3>1. ASSUME NEW l \in Said(f, "row") PROVE l < k
      <4>1. "row" \in Kinds /\ Rung("row") = 1 /\ l \in Nat /\ l # k
        BY <1>2, LinesFacts DEF Kinds, Rung, Order, Part
      <4>2. l >= k + 1 => Stage(f, k + 1) <= Rung("row")
        <5>1. k + 1 \in Nat
          BY <1>1
        <5> QED
          BY <4>1, <5>1, LinesInOrder
      <4> QED
        BY <1>1, <1>3, <2>1, <4>1, <4>2
    <3>2. \A l \in Said(f, "row") : l < k + 1
      BY <1>1, <3>1, LinesFacts
    <3> QED
      BY <3>1, <3>2 DEF Before
  <2>4. /\ u.buffered = t.buffered /\ u.maximize = t.maximize
        /\ IF u.errorFlag THEN ~Fits(f)
           ELSE /\ RowsSo(f, u) /\ u.cols = <<>> /\ u.coo = <<>> /\ u.var = <<>>
                /\ u.current = None /\ u.constant = 0 /\ DOMAIN u.con = RowNames(f)
                /\ \A l \in Constraints(f) : u.con[Means(f, l).name] = FreshInterval(Means(f, l).type)
    <3>1. Lists(t.buffered, Said(f, "row"), RowItem(f))
      BY <2>2, <2>3 DEF BufferSo
    <3> QED
      BY ONLY f \in Files, Understood(f), Parsed(t), ~t.errorFlag, <2>2, <3>1, RowsFinalized
  <2>5. ASSUME ~u.errorFlag PROVE Follows(f, k + 1, u)
    <3>1. Built(f, k + 1, u)
      <4>1. Stage(f, k) <= 1
        BY <1>3, <2>1
      <4> QED
        BY <1>1, <2>4, <2>5, <4>1, FreshBuilt
    <3>2. BufferSo(f, k + 1, u)
      BY <2>2, <2>3, <2>4 DEF BufferSo
    <3>3. SenseSo(f, k + 1, u)
      BY <1>1, <1>2, <2>1, <2>2, <2>4, SenseStays
    <3>4. ~(Stage(f, k + 1) <= 1)
      BY <1>3, <2>1
    <3> QED
      BY <3>1, <3>2, <3>3, <3>4 DEF Follows
  <2>6. next = SectionOf(f, k + 1) /\ (fin \/ leaving <=> Stage(f, k + 1) >= 2)
    BY <1>2, <1>3, <1>7
  <2> QED
    BY <2>4, <2>5, <2>6
<1>9. CASE ~leaving
  <2>1. u = IF Len(words) > 1 THEN SetSense(t, words[2]) ELSE t
    BY <1>9
  <2>2. Stage(f, k) <= 1 <=> Stage(f, k + 1) <= 1
    BY <1>3, <1>4, <1>5, <1>6, <1>9
  <2>3. SenseSo(f, k, t)
    BY DEF Follows
  <2>4. /\ SenseSo(f, k + 1, u) /\ SameTables(t, u) /\ u.buffered = t.buffered
        /\ u.var = t.var /\ u.con = t.con /\ u.constant = t.constant /\ u.errorFlag = t.errorFlag
    <3>1. CASE Len(words) > 1
      <4>1. u = SetSense(t, words[2])
        BY <2>1, <3>1
      <4> QED
        <5>1. PICK token : token = words[2]
          OBVIOUS
        <5>2. /\ f \in Files /\ k \in Said(f, "sense") /\ k \in Nat /\ Means(f, k).max \in BOOLEAN
              /\ Parsed(t) /\ SpellsSense(token, Means(f, k).max) /\ u = SetSense(t, token)
          BY <1>1, <1>2, <3>1, <4>1, <5>1
        <5> QED
          BY ONLY <5>2, SenseSet
    <3>2. CASE ~(Len(words) > 1)
      <4>1. u = t
        BY <2>1, <3>2
      <4>2. SenseSo(f, k + 1, u)
        BY <1>1, <1>2, <2>3, <3>2, <4>1, SenseStays
      <4> QED
        BY <4>1, <4>2 DEF SameTables
    <3> QED
      BY <3>1, <3>2
  <2>5. Follows(f, k + 1, u)
    BY <1>1, <1>2, <2>2, <2>4, FollowsOn
  <2>6. next = SectionOf(f, k + 1) /\ (fin \/ leaving <=> Stage(f, k + 1) >= 2)
    BY <1>2, <1>3, <1>7
  <2>7. ~u.errorFlag
    BY <2>4
  <2> QED
    BY <2>5, <2>6, <2>7
<1> QED
  BY <1>8, <1>9

\* What a record may be: nothing at all, the sense, or one of the kinds.
LEMMA RecordIs ==
    ASSUME NEW f \in Files, Understood(f), NEW k \in DOMAIN f.lines, k \notin Headers(f),
           f.lines[k].free # <<>>
    PROVE  \/ /\ Means(f, k).is = "nothing" /\ k \notin Said(f, "sense")
              /\ \A kind \in Kinds : k \notin Said(f, kind)
              /\ \/ SectionOf(f, k) \in {None, "ENDATA"}
                 \/ SectionOf(f, k) = "COLUMNS" /\ Clear(f, k)
           \/ /\ Means(f, k).is = "sense" /\ k \in Said(f, "sense")
              /\ \A kind \in Kinds : k \notin Said(f, kind)
              /\ SectionOf(f, k) = "OBJSENSE" /\ Means(f, k).max \in BOOLEAN /\ Clear(f, k)
           \/ /\ k \notin Said(f, "sense")
              /\ \E kind \in Kinds : k \in Said(f, kind) /\ SectionOf(f, k) = Part[kind]
<1>1. PICK m : m = Means(f, k)
  OBVIOUS
<1>2. Spelled(f, k)
  BY DEF Understood
<1>3. IF m.is = "nothing"
      THEN \/ SectionOf(f, k) \in {None, "ENDATA"}
           \/ SectionOf(f, k) = "COLUMNS" /\ Clear(f, k)
      ELSE /\ m.is \in DOMAIN Part /\ SectionOf(f, k) = Part[m.is]
           /\ Meaningful(f, k) /\ Clear(f, k)
  BY <1>1, <1>2 DEF Spelled
<1>4. \A kind : k \in Said(f, kind) <=> m.is = kind
  BY <1>1 DEF Said, Means
<1>5. DOMAIN Part = Kinds \union {"sense"}
  BY DEF Part, Kinds
<1>6. "nothing" \notin Kinds /\ "sense" \notin Kinds /\ "nothing" # "sense"
  BY DEF Kinds
<1>7. CASE m.is = "nothing"
  BY <1>1, <1>3, <1>4, <1>6, <1>7
<1>8. CASE m.is = "sense"
  <2>1. SectionOf(f, k) = "OBJSENSE" /\ Meaningful(f, k) /\ Clear(f, k)
    BY <1>3, <1>6, <1>8 DEF Part
  <2>2. m.max \in BOOLEAN
    BY <1>1, <1>8, <2>1 DEF Meaningful
  <2> QED
    BY <1>1, <1>4, <1>6, <1>8, <2>1, <2>2
<1>9. CASE m.is \in Kinds
  BY <1>3, <1>4, <1>6, <1>9
<1> QED
  BY <1>3, <1>5, <1>7, <1>8, <1>9

\* A marker line is passed over.
LEMMA MarkerPassed ==
    ASSUME NEW f \in Files, Understood(f), NEW k \in DOMAIN f.lines, Means(f, k).is = "nothing",
           Clear(f, k), section = SectionOf(f, k), section = "COLUMNS", NEW t, Knows(f, k, t)
    PROVE  ParseColumn(t, Tokens(t, f.lines[k])) = t
<1>1. PICK line, fields, m, w : /\ line = f.lines[k] /\ fields = line.fixed /\ m = Means(f, k)
                                /\ w = Tokens(t, line)
  OBVIOUS
<1>2. \/ FreeSays(f, k) /\ w = line.free
      \/ FixedSays(f, k) /\ (TokenizeFixedRecord(t, line) # <<>> => w = TokenizeFixedRecord(t, line))
  <2>1. FreeRecordIsValid(section, t, FreeTokens(line)) <=>
              FreeRecordIsValid(section, Declared(f, k), FreeTokens(line))
    BY KnowsFacts
  <2> QED
    BY <1>1, <2>1, ClearTokens
<1>3. w[2] = "'MARKER'"
  <2>1. CASE FreeSays(f, k) /\ w = line.free
    BY <1>1, <2>1 DEF FreeSays
  <2>2. CASE FixedSays(f, k) /\ (TokenizeFixedRecord(t, line) # <<>> => w = TokenizeFixedRecord(t, line))
    <3>1. InColumns(f, k) /\ fields[2] # None /\ fields[3] = "'MARKER'"
      BY <1>1, <2>2 DEF FixedSays
    <3>2. TokenizeFixedRecord(t, line) = FixedColumns(t, fields)
      BY <1>1, <3>1, InColumnsReading
    <3>3. TokenizeFixedRecord(t, line) = <<fields[2], fields[3]>>
      BY <3>1, <3>2 DEF FixedColumns
    <3> QED
      BY <2>2, <3>1, <3>3
  <2> QED
    BY <1>2, <2>1, <2>2
<1> QED
  BY <1>1, <1>3 DEF ParseColumn

\* The sense stands in a line of its own.
LEMMA SenseSpoken ==
    ASSUME NEW f \in Files, Understood(f), NEW k \in DOMAIN f.lines, Means(f, k).is = "sense",
           Clear(f, k), section = SectionOf(f, k), section = "OBJSENSE", NEW t
    PROVE  SpellsSense(Tokens(t, f.lines[k])[1], Means(f, k).max)
<1>1. PICK line, m : line = f.lines[k] /\ m = Means(f, k)
  OBVIOUS
<1>2. FreeSays(f, k) /\ Tokens(t, line) = line.free
  <2>1. \A s, tokens : FreeRecordIsValid(section, s, tokens)
    BY DEF FreeRecordIsValid
  <2>2. FreeRecordIsValid(section, t, FreeTokens(line)) <=>
              FreeRecordIsValid(section, Declared(f, k), FreeTokens(line))
    BY <2>1
  <2>3. ~FixedSays(f, k)
    BY DEF FixedSays
  <2> QED
    BY <1>1, <2>2, <2>3, ClearTokens
<1>3. SpellsSense(line.free[1], m.max)
  BY <1>1, <1>2 DEF FreeSays
<1> QED
  BY <1>1, <1>2, <1>3

\* The text before a record, and what stays the same at it.
LEMMA RecordStage ==
    ASSUME NEW f \in Files, Understood(f), NEW k \in DOMAIN f.lines, k \notin Headers(f)
    PROVE  /\ k \in Nat /\ SectionOf(f, k + 1) = SectionOf(f, k) /\ Stage(f, k + 1) = Stage(f, k)
           /\ \A kind \in Kinds : k \in Said(f, kind) =>
                 Stage(f, k) = Rung(kind) /\ (Rung(kind) <= 1 <=> kind = "row")
<1>1. k \in Nat
  BY LinesFacts
<1>2. SectionOf(f, k + 1) = SectionOf(f, k) /\ Stage(f, k + 1) = Stage(f, k)
  BY <1>1, NextSection
<1>3. ASSUME NEW kind \in Kinds, k \in Said(f, kind)
      PROVE  Stage(f, k) = Rung(kind) /\ (Rung(kind) <= 1 <=> kind = "row")
  <2>1. Stage(f, k) = Rung(kind)
    BY <1>1, <1>3, LinesInOrder
  <2>2. Rung(kind) <= 1 <=> kind = "row"
    BY DEF Kinds, Rung, Order, Part
  <2> QED
    BY <2>1, <2>2
<1> QED
  BY <1>1, <1>2, <1>3

\* What a record of a kind makes of the tables.
LEMMA KindHeard ==
    ASSUME NEW f \in Files, Understood(f), NEW kind \in Kinds \ {"row"}, NEW k \in Said(f, kind),
           section = SectionOf(f, k), section = Part[kind],
           NEW t, Parsed(t), ~t.errorFlag, Built(f, k, t),
           NEW u, u = ParseRecord(t, Tokens(t, f.lines[k]))
    PROVE  /\ u.buffered = t.buffered /\ u.maximize = t.maximize
           /\ IF u.errorFlag THEN ~Fits(f) ELSE Built(f, k + 1, u)
<1>1. CASE kind = "entries"
  <2>1. section = "COLUMNS"
    BY <1>1 DEF Part
  <2>2. u = ParseColumn(t, Tokens(t, f.lines[k]))
    BY <2>1 DEF ParseRecord
  <2> QED
    BY <1>1, <2>2, ColumnStep
<1>2. CASE kind = "rhs"
  <2>1. section = "RHS"
    BY <1>2 DEF Part
  <2>2. u = ParseRhs(t, Tokens(t, f.lines[k]))
    BY <2>1 DEF ParseRecord
  <2>3. SameButSides(t, u) /\ Built(f, k + 1, u)
    BY <1>2, <2>2, SideStep
  <2>4. u.buffered = t.buffered /\ u.maximize = t.maximize /\ ~u.errorFlag
    BY <2>3 DEF SameButSides
  <2> QED
    BY <2>3, <2>4
<1>3. CASE kind = "range"
  <2>1. section = "RANGES"
    BY <1>3 DEF Part
  <2>2. u = ParseRange(t, Tokens(t, f.lines[k]))
    BY <2>1 DEF ParseRecord
  <2>3. SameButSides(t, u) /\ Built(f, k + 1, u)
    BY <1>3, <2>2, RangeStep
  <2>4. u.buffered = t.buffered /\ u.maximize = t.maximize /\ ~u.errorFlag
    BY <2>3 DEF SameButSides
  <2> QED
    BY <2>3, <2>4
<1>4. CASE kind = "bound"
  <2>1. section = "BOUNDS"
    BY <1>4 DEF Part
  <2>2. u = ParseBound(t, Tokens(t, f.lines[k]))
    BY <2>1 DEF ParseRecord
  <2>3. /\ Built(f, k + 1, u) /\ u.buffered = t.buffered /\ u.maximize = t.maximize
        /\ u.errorFlag = t.errorFlag
    <3>1. k \in Said(f, "bound") /\ section = SectionOf(f, k) /\ f \in Files /\ Understood(f)
      BY <1>4
    <3>2. Parsed(t) /\ Built(f, k, t)
      OBVIOUS
    <3>3. Built(f, k + 1, u)
      BY ONLY <2>2, <3>1, <3>2, BoundStep
    <3> QED
      BY ONLY <2>2, <3>1, <3>2, <3>3, BoundStep
  <2>4. ~u.errorFlag
    BY <2>3
  <2> QED
    BY <2>3, <2>4
<1> QED
  BY <1>1, <1>2, <1>3, <1>4 DEF Kinds

\* A line that says nothing to the tables.
LEMMA QuietStep ==
    ASSUME NEW f \in Files, Understood(f), NEW k \in DOMAIN f.lines, k \notin Headers(f),
           \A kind \in Kinds : k \notin Said(f, kind), k \notin Said(f, "sense"),
           NEW t, Follows(f, k, t)
    PROVE  Follows(f, k + 1, t)
<1>1. k \in Nat /\ Stage(f, k + 1) = Stage(f, k)
  BY RecordStage
<1>2. SenseSo(f, k, t)
  BY DEF Follows
<1>3. SenseSo(f, k + 1, t)
  BY <1>1, <1>2, SenseStays
<1>4. SameTables(t, t)
  BY DEF SameTables
<1>5. Stage(f, k) <= 1 <=> Stage(f, k + 1) <= 1
  BY <1>1
<1> QED
  BY <1>1, <1>3, <1>4, <1>5, FollowsOn

\* A record's line, of whatever kind and in either form.
LEMMA RecordStep ==
    ASSUME NEW f \in Files, Understood(f), NEW k \in DOMAIN f.lines, k \notin Headers(f),
           f.lines[k].free # <<>>, section = SectionOf(f, k),
           NEW t, Parsed(t), ~t.errorFlag, Follows(f, k, t),
           NEW u, u = ParseRecord(t, Tokens(t, f.lines[k]))
    PROVE  IF u.errorFlag THEN ~Fits(f) ELSE Follows(f, k + 1, u)
<1>1. k \in Nat /\ SectionOf(f, k + 1) = SectionOf(f, k) /\ Stage(f, k + 1) = Stage(f, k)
  BY RecordStage
<1>2. /\ BufferSo(f, k, t) /\ SenseSo(f, k, t)
      /\ IF Stage(f, k) <= 1 THEN Blank(t) ELSE Built(f, k, t)
  BY DEF Follows
<1>3. CASE /\ Means(f, k).is = "nothing" /\ k \notin Said(f, "sense")
           /\ \A kind \in Kinds : k \notin Said(f, kind)
           /\ \/ SectionOf(f, k) \in {None, "ENDATA"}
              \/ SectionOf(f, k) = "COLUMNS" /\ Clear(f, k)
  <2>1. u = t
    <3>1. CASE SectionOf(f, k) \in {None, "ENDATA"}
      BY <3>1 DEF ParseRecord, None
    <3>2. CASE SectionOf(f, k) = "COLUMNS" /\ Clear(f, k)
      <4>1. Stage(f, k) = 2
        BY <1>1, <3>2, StageIs
      <4>2. Knows(f, k, t)
        BY <1>2, <4>1, BuiltKnows DEF Built
      <4>3. u = ParseColumn(t, Tokens(t, f.lines[k]))
        BY <3>2 DEF ParseRecord
      <4> QED
        BY <1>3, <3>2, <4>2, <4>3, MarkerPassed
    <3> QED
      BY <1>3, <3>1, <3>2
  <2>2. Follows(f, k + 1, t)
    BY <1>3, QuietStep
  <2> QED
    BY <2>1, <2>2
<1>4. CASE /\ Means(f, k).is = "sense" /\ k \in Said(f, "sense")
           /\ \A kind \in Kinds : k \notin Said(f, kind)
           /\ SectionOf(f, k) = "OBJSENSE" /\ Means(f, k).max \in BOOLEAN /\ Clear(f, k)
  <2>1. PICK token : token = Tokens(t, f.lines[k])[1]
    OBVIOUS
  <2>2. SpellsSense(token, Means(f, k).max)
    BY <1>4, <2>1, SenseSpoken
  <2>3. u = SetSense(t, token)
    BY <1>4, <2>1 DEF ParseRecord
  <2>4. /\ SenseSo(f, k + 1, u) /\ SameTables(t, u)
        /\ u.buffered = t.buffered /\ u.var = t.var /\ u.con = t.con /\ u.constant = t.constant
        /\ u.errorFlag = t.errorFlag
    BY <1>1, <1>4, <2>2, <2>3, SenseSet
  <2>5. Stage(f, k) <= 1 <=> Stage(f, k + 1) <= 1
    BY <1>1
  <2>6. Follows(f, k + 1, u)
    BY <1>1, <1>4, <2>4, <2>5, FollowsOn
  <2>7. ~u.errorFlag
    BY <2>4
  <2> QED
    BY <2>6, <2>7
<1>5. CASE /\ k \notin Said(f, "sense")
           /\ \E kind \in Kinds : k \in Said(f, kind) /\ SectionOf(f, k) = Part[kind]
  <2>1. PICK kind \in Kinds : k \in Said(f, kind) /\ SectionOf(f, k) = Part[kind]
    BY <1>5
  <2>2. Stage(f, k) = Rung(kind) /\ (Rung(kind) <= 1 <=> kind = "row")
    BY <2>1, RecordStage
  <2>3. CASE kind = "row"
    <3>1. section = "ROWS"
      BY <2>1, <2>3 DEF Part
    <3>2. u = ParseRow(t, Tokens(t, f.lines[k]))
      BY <3>1 DEF ParseRecord
    <3>3. /\ BufferSo(f, k + 1, u) /\ SameTables(t, u)
          /\ u.var = t.var /\ u.con = t.con /\ u.constant = t.constant /\ u.maximize = t.maximize
          /\ u.errorFlag = t.errorFlag
      BY <1>2, <2>1, <2>3, <3>2, RowBuffered
    <3>4. Stage(f, k) <= 1 /\ Stage(f, k + 1) <= 1
      BY <1>1, <2>2, <2>3
    <3>5. Blank(u)
      BY <1>2, <3>3, <3>4 DEF Blank, SameTables
    <3>6. SenseSo(f, k + 1, u)
      BY <1>1, <1>2, <1>5, <3>3, SenseStays
    <3>7. Follows(f, k + 1, u)
      BY <3>3, <3>4, <3>5, <3>6 DEF Follows
    <3>8. ~u.errorFlag
      BY <3>3
    <3> QED
      BY <3>7, <3>8
  <2>4. CASE kind # "row"
    <3>1. ~(Stage(f, k) <= 1) /\ ~(Stage(f, k + 1) <= 1)
      BY <1>1, <2>2, <2>4
    <3>2. /\ u.buffered = t.buffered /\ u.maximize = t.maximize
          /\ IF u.errorFlag THEN ~Fits(f) ELSE Built(f, k + 1, u)
      <4>1. Built(f, k, t) /\ kind \in Kinds \ {"row"} /\ section = Part[kind]
        BY <1>2, <2>1, <2>4, <3>1
      <4> QED
        BY <2>1, <4>1, KindHeard
    <3>3. BufferSo(f, k + 1, u)
      <4>1. k \notin Said(f, "row")
        BY <2>1, <2>4 DEF Said
      <4>2. Before(f, "row", k + 1) = Before(f, "row", k)
        BY <1>1, <4>1, BeforeFacts
      <4> QED
        BY <1>2, <3>2, <4>2 DEF BufferSo
    <3>4. SenseSo(f, k + 1, u)
      BY <1>1, <1>2, <1>5, <3>2, SenseStays
    <3> QED
      BY <3>1, <3>2, <3>3, <3>4 DEF Follows
  <2> QED
    BY <2>3, <2>4
<1> QED
  BY <1>3, <1>4, <1>5, RecordIs

\* Where the reader is in a file it understands: at the section, and with
\* the tables, of the lines before line k.
TextSo(f, k, part, fin, t) ==
    /\ part = SectionOf(f, k) /\ k <= Len(f.lines) + 1
    /\ fin \in BOOLEAN /\ (fin <=> Stage(f, k) >= 2)
    /\ IF t.errorFlag THEN ~Fits(f) ELSE Follows(f, k, t)

TextInv ==
    Whole(file) /\ Understood(file) =>
        /\ TextSo(file, pos + 1, section, finalized, state)
        /\ pc \in {"parsed", "built", "loaded", "freed"} =>
              state.errorFlag \/ Stage(file, pos + 1) = 6
        /\ pc \in {"built", "loaded", "freed"} => ~state.errorFlag

\* Before the first line nothing is heard.
LEMMA TextInit == Init => TextInv
<1> SUFFICES ASSUME Init, Whole(file), Understood(file) PROVE TextInv
  BY DEF TextInv
<1>1. PICK f \in Files : f = file
  BY DEF Init, MpsInit
<1>2. /\ pos = 0 /\ section = None /\ finalized = FALSE
      /\ state = InitialState /\ pc = "open"
  BY DEF Init, MpsInit
<1>3. 1 \in Nat /\ 0 + 1 = 1 /\ Understood(f)
  BY <1>1
<1>4. /\ \A kind : Before(f, kind, 1) = {}
      /\ \A h \in Headers(f) : h >= 1
  <2>1. \A k \in DOMAIN f.lines : k >= 1
    BY <1>1, LinesFacts
  <2>2. \A kind : Before(f, kind, 1) \in SUBSET DOMAIN f.lines
    BY <1>1, <1>3, LinesFacts DEF Before
  <2>3. \A h \in Headers(f) : h \in DOMAIN f.lines
    BY <1>1, LinesFacts
  <2>4. \A kind : \A j \in Before(f, kind, 1) : FALSE
    <3> SUFFICES ASSUME NEW kind, NEW j \in Before(f, kind, 1) PROVE FALSE
      OBVIOUS
    <3>1. j \in DOMAIN f.lines /\ j < 1
      BY <2>2 DEF Before
    <3>2. j \in Nat /\ j >= 1
      BY <1>1, <2>1, <3>1, LinesFacts
    <3> QED
      BY <3>1, <3>2
  <2> QED
    BY <2>1, <2>3, <2>4
<1>5. SectionOf(f, 1) = None /\ Stage(f, 1) = 0
  <2>1. \A h \in Headers(f) : ~(h < 1)
    BY <1>1, <1>4, LinesFacts
  <2> QED
    BY <1>3, <2>1, SectionFacts
<1>6. Follows(f, 1, state)
  <2>1. /\ state.buffered = <<>> /\ state.rows = <<>> /\ state.cols = <<>> /\ state.coo = <<>>
        /\ state.var = <<>> /\ state.current = None /\ state.constant = 0 /\ state.maximize = FALSE
    BY <1>2 DEF InitialState
  <2>2. BufferSo(f, 1, state)
    <3>1. PICK none : none = {}
      OBVIOUS
    <3>2. Before(f, "row", 1) = none /\ Cardinality(none) = 0
      BY <1>4, <3>1, FS_EmptySet
    <3>3. Len(state.buffered) = 0
      BY <2>1
    <3> QED
      BY <3>1, <3>2, <3>3 DEF BufferSo, Lists
  <2>3. SenseSo(f, 1, state)
    BY <1>4, <2>1 DEF SenseSo
  <2>4. Blank(state)
    BY <2>1 DEF Blank
  <2>5. Stage(f, 1) <= 1
    BY <1>5
  <2> QED
    BY <2>2, <2>3, <2>4, <2>5 DEF Follows
<1>7. ~state.errorFlag
  BY <1>2 DEF InitialState
<1>8. 1 <= Len(f.lines) + 1
  <2>1. Len(f.lines) \in Nat
    BY <1>1, LinesFacts
  <2> QED
    BY <2>1
<1>9. TextSo(f, 1, section, finalized, state)
  <2>1. section = SectionOf(f, 1)
    BY <1>2, <1>5
  <2>2. ~(Stage(f, 1) >= 2)
    BY <1>5
  <2>3. finalized \in BOOLEAN /\ (finalized <=> Stage(f, 1) >= 2)
    BY ONLY <1>2, <2>2
  <2> QED
    BY ONLY <1>6, <1>7, <1>8, <2>1, <2>3 DEF TextSo
<1>10. pos + 1 = 1
  BY <1>2
<1>11. TextSo(file, pos + 1, section, finalized, state)
  BY ONLY <1>1, <1>9, <1>10
<1> QED
  BY ONLY <1>2, <1>11 DEF TextInv

\* The line the reader is at is a line of the text.
LEMMA LineIs ==
    ASSUME StateInv, pc = "reading", ~Stops, NEW k, k = pos + 1
    PROVE  /\ k \in DOMAIN file.lines /\ k \in Nat /\ k <= Len(file.lines) /\ Line = file.lines[k]
           /\ ~state.errorFlag /\ Parsed(state) /\ file \in Files
<1>1. /\ pos \in Nat /\ file \in Files /\ Parsed(state)
  BY DEF StateInv
<1>2. Len(file.lines) \in Nat /\ DOMAIN file.lines = 1 .. Len(file.lines)
  BY <1>1, LinesFacts
<1>3. pos < Len(file.lines) /\ ~state.errorFlag
  BY DEF Stops, Delivered
<1> QED
  BY <1>1, <1>2, <1>3 DEF Line

\* The three ways a line is read lead from its text to the next line's.
LEMMA TextSkip ==
    ASSUME StateInv, TextInv, SkipLine, Whole(file), Understood(file), NEW k, k = pos + 1
    PROVE  TextSo(file, k + 1, section, finalized, state)
<1>1. pc = "reading" /\ ~Stops /\ Line.free = <<>>
  BY DEF SkipLine
<1>2. PICK f \in Files : f = file
  BY DEF StateInv
<1>3. /\ k \in DOMAIN f.lines /\ k \in Nat /\ k <= Len(f.lines) /\ Line = f.lines[k]
      /\ ~state.errorFlag
  BY <1>1, <1>2, LineIs
<1>4. TextSo(f, k, section, finalized, state)
  BY <1>2 DEF TextInv
<1>5. k \notin Headers(f) /\ Understood(f) /\ Spelled(f, k)
  BY <1>1, <1>2, <1>3 DEF Headers, Understood
<1>6. \A kind \in Kinds : k \notin Said(f, kind)
  <2>1. Means(f, k).is = "nothing"
    BY <1>1, <1>3, <1>5 DEF Spelled
  <2> QED
    BY <2>1 DEF Said, Means, Kinds
<1>7. k \notin Said(f, "sense")
  <2>1. Means(f, k).is = "nothing"
    BY <1>1, <1>3, <1>5 DEF Spelled
  <2> QED
    BY <2>1 DEF Said, Means
<1>8. Follows(f, k, state)
  BY <1>3, <1>4 DEF TextSo
<1>9. Follows(f, k + 1, state)
  BY <1>3, <1>5, <1>6, <1>7, <1>8, QuietStep
<1>10. SectionOf(f, k + 1) = SectionOf(f, k) /\ Stage(f, k + 1) = Stage(f, k)
  BY <1>3, <1>5, RecordStage
<1>11. k + 1 <= Len(f.lines) + 1
  <2>1. Len(f.lines) \in Nat
    BY LinesFacts
  <2> QED
    BY <1>3, <2>1
<1> QED
  BY <1>2, <1>3, <1>4, <1>9, <1>10, <1>11 DEF TextSo

LEMMA TextHeader ==
    ASSUME StateInv, TextInv, HeaderLine, Whole(file), Understood(file), NEW k, k = pos + 1
    PROVE  \E part, fin, u : /\ section' = part /\ finalized' = fin /\ Reads(u)
                             /\ TextSo(file, k + 1, part, fin, u)
<1>1. pc = "reading" /\ ~Stops /\ Line.free # <<>> /\ IsHeader(FreeTokens(Line))
  BY DEF HeaderLine
<1>2. PICK f \in Files : f = file
  BY DEF StateInv
<1>3. /\ k \in DOMAIN f.lines /\ k \in Nat /\ k <= Len(f.lines) /\ Line = f.lines[k]
      /\ ~state.errorFlag /\ Parsed(state)
  BY <1>1, <1>2, LineIs
<1>4. TextSo(f, k, section, finalized, state)
  BY <1>2 DEF TextInv
<1>5. k \in Headers(f) /\ Understood(f)
  BY <1>1, <1>2, <1>3 DEF Headers
<1>6. PICK words : words = f.lines[k].free
  OBVIOUS
<1>7. PICK t, part, fin : t = state /\ part = section /\ fin = finalized
  OBVIOUS
<1>8. PICK next, leaving, closed, u :
         /\ next = Sections[words[1]]
         /\ leaving = (part = "ROWS" /\ next # "ROWS" /\ ~fin)
         /\ closed = (IF leaving THEN FinalizeRows(t) ELSE t)
         /\ u = (IF Len(words) > 1 THEN SetSense(closed, words[2]) ELSE closed)
  OBVIOUS
<1>9. /\ finalized' = (fin \/ leaving) /\ section' = next /\ Reads(u)
  BY <1>3, <1>6, <1>7, <1>8 DEF HeaderLine
<1>10. /\ part = SectionOf(f, k) /\ fin \in BOOLEAN /\ (fin <=> Stage(f, k) >= 2)
       /\ Follows(f, k, t) /\ Parsed(t) /\ ~t.errorFlag
  BY <1>3, <1>4, <1>7 DEF TextSo
<1>11. /\ next = SectionOf(f, k + 1) /\ (fin \/ leaving <=> Stage(f, k + 1) >= 2)
       /\ IF u.errorFlag THEN ~Fits(f) ELSE Follows(f, k + 1, u)
  BY ONLY f \in Files, <1>5, <1>6, <1>8, <1>10, HeaderStep
<1>12. k + 1 <= Len(f.lines) + 1
  <2>1. Len(f.lines) \in Nat
    BY LinesFacts
  <2> QED
    BY <1>3, <2>1
<1>13. PICK ended : ended = (fin \/ leaving)
  OBVIOUS
<1>14. ended \in BOOLEAN /\ (ended <=> Stage(f, k + 1) >= 2)
  BY <1>11, <1>13
<1>15. TextSo(f, k + 1, next, ended, u)
  BY <1>11, <1>12, <1>14 DEF TextSo
<1> QED
  BY <1>2, <1>9, <1>13, <1>15

LEMMA TextRecord ==
    ASSUME StateInv, TextInv, RecordLine, Whole(file), Understood(file), NEW k, k = pos + 1
    PROVE  \E u : Reads(u) /\ TextSo(file, k + 1, section, finalized, u)
<1>1. pc = "reading" /\ ~Stops /\ Line.free # <<>> /\ ~IsHeader(FreeTokens(Line))
  BY DEF RecordLine
<1>2. PICK f \in Files : f = file
  BY DEF StateInv
<1>3. /\ k \in DOMAIN f.lines /\ k \in Nat /\ k <= Len(f.lines) /\ Line = f.lines[k]
      /\ ~state.errorFlag /\ Parsed(state)
  BY <1>1, <1>2, LineIs
<1>4. TextSo(f, k, section, finalized, state)
  BY <1>2 DEF TextInv
<1>5. k \notin Headers(f) /\ Understood(f) /\ f.lines[k].free # <<>>
  BY <1>1, <1>2, <1>3 DEF Headers
<1>6. PICK t : t = state
  OBVIOUS
<1>7. PICK u : u = ParseRecord(t, Tokens(t, f.lines[k]))
  OBVIOUS
<1>8. Reads(u)
  BY <1>3, <1>6, <1>7 DEF RecordLine
<1>9. /\ section = SectionOf(f, k) /\ Follows(f, k, t) /\ Parsed(t) /\ ~t.errorFlag
  BY <1>3, <1>4, <1>6 DEF TextSo
<1>10. IF u.errorFlag THEN ~Fits(f) ELSE Follows(f, k + 1, u)
  BY <1>3, <1>5, <1>7, <1>9, RecordStep
<1>11. SectionOf(f, k + 1) = SectionOf(f, k) /\ Stage(f, k + 1) = Stage(f, k)
  BY <1>3, <1>5, RecordStage
<1>12. k + 1 <= Len(f.lines) + 1
  <2>1. Len(f.lines) \in Nat
    BY LinesFacts
  <2> QED
    BY <1>3, <2>1
<1>13. TextSo(f, k + 1, section, finalized, u)
  BY <1>4, <1>10, <1>11, <1>12 DEF TextSo
<1> QED
  BY <1>2, <1>8, <1>13

\* The reader of a whole file stops at its ENDATA, or refuses it.
LEMMA TextEnds ==
    ASSUME StateInv, TextInv, Stops, Whole(file), Understood(file), NEW k, k = pos + 1
    PROVE  state.errorFlag \/ Stage(file, k) = 6
<1> SUFFICES ASSUME ~state.errorFlag PROVE Stage(file, k) = 6
  OBVIOUS
<1>1. PICK f \in Files : f = file
  BY DEF StateInv
<1>2. TextSo(f, k, section, finalized, state) /\ Understood(f) /\ pos \in Nat /\ k \in Nat
  BY <1>1 DEF TextInv, StateInv
<1>3. CASE section = "ENDATA"
  <2>1. SectionOf(f, k) = "ENDATA"
    BY <1>2, <1>3 DEF TextSo
  <2> QED
    BY <1>1, <1>2, <2>1, StageIs
<1>4. CASE ~Delivered
  <2>1. PICK n \in Nat : n = Len(f.lines)
    BY LinesFacts
  <2>2. ~(pos < n)
    BY <1>1, <1>4, <2>1 DEF Delivered, Whole
  <2>3. k <= n + 1
    BY <1>2, <2>1 DEF TextSo
  <2>4. k = n + 1
    BY <1>2, <2>2, <2>3
  <2>5. PICK h \in Headers(f) : Opened(f, h) = "ENDATA"
    BY <1>2 DEF Understood, InSections
  <2>6. h \in 1 .. n
    BY <2>1, LinesFacts
  <2>7. h < k
    BY <2>4, <2>6
  <2>8. Order[Opened(f, h)] <= Stage(f, k)
    BY <1>2, <2>7, HeadersInOrder
  <2>9. 6 <= Stage(f, k)
    BY <2>5, <2>8 DEF Order
  <2>10. Stage(f, k) \in 0 .. 6
    BY <1>2, StageIs
  <2> QED
    BY <1>1, <2>9, <2>10
<1> QED
  BY <1>3, <1>4 DEF Stops

LEMMA TextMoved ==
    ASSUME NEW k, k = pos + 1, NEW u, Reads(u), pc = "reading",
           NEW part, part = section', NEW fin, fin = finalized',
           Whole(file) /\ Understood(file) => TextSo(file, k + 1, part, fin, u)
    PROVE  TextInv'
<1>1. file' = file /\ pos' = k /\ state' = u /\ pc' = "reading"
  BY DEF Reads
<1>2. Whole(file') /\ Understood(file') => TextSo(file', pos' + 1, section', finalized', state')
  BY <1>1
<1> QED
  BY <1>1, <1>2 DEF TextInv

\* Every step keeps the reader in agreement with the text.
LEMMA TextStep ==
    ASSUME StateInv, TextInv, [Next]_vars
    PROVE  TextInv'
<1>1. PICK k : k = pos + 1
  OBVIOUS
<1>2. ASSUME UNCHANGED <<file, pos, section, finalized, state>>,
             Whole(file) /\ Understood(file) =>
                /\ pc' \in {"parsed", "built", "loaded", "freed"} =>
                      state.errorFlag \/ Stage(file, pos + 1) = 6
                /\ pc' \in {"built", "loaded", "freed"} => ~state.errorFlag
      PROVE  TextInv'
  <2>1. file' = file /\ pos' = pos /\ section' = section /\ finalized' = finalized /\ state' = state
    BY <1>2
  <2>2. Whole(file') /\ Understood(file') => TextSo(file', pos' + 1, section', finalized', state')
    BY <2>1 DEF TextInv
  <2>3. Whole(file') /\ Understood(file') =>
           /\ pc' \in {"parsed", "built", "loaded", "freed"} =>
                 state'.errorFlag \/ Stage(file', pos' + 1) = 6
           /\ pc' \in {"built", "loaded", "freed"} => ~state'.errorFlag
    BY <1>2, <2>1
  <2> QED
    BY <2>2, <2>3 DEF TextInv
<1>3. CASE SkipLine
  <2>1. PICK part, fin : part = section /\ fin = finalized
    OBVIOUS
  <2>2. Reads(state) /\ pc = "reading" /\ part = section' /\ fin = finalized'
    BY <1>3, <2>1 DEF SkipLine
  <2>3. Whole(file) /\ Understood(file) => TextSo(file, k + 1, part, fin, state)
    BY <1>1, <1>3, <2>1, TextSkip
  <2> QED
    BY <1>1, <2>2, <2>3, TextMoved
<1>4. CASE HeaderLine
  <2>1. CASE Whole(file) /\ Understood(file)
    <3>1. PICK part, fin, u : /\ section' = part /\ finalized' = fin /\ Reads(u)
                              /\ TextSo(file, k + 1, part, fin, u)
      BY <1>1, <1>4, <2>1, TextHeader
    <3>2. pc = "reading"
      BY <1>4 DEF HeaderLine
    <3> QED
      BY <1>1, <3>1, <3>2, TextMoved
  <2>2. CASE ~(Whole(file) /\ Understood(file))
    <3>1. \E u : Reads(u)
      BY <1>4 DEF HeaderLine
    <3>2. file' = file
      BY <3>1 DEF Reads
    <3>3. ~(Whole(file') /\ Understood(file'))
      BY <2>2, <3>2
    <3> QED
      BY <3>3 DEF TextInv
  <2> QED
    BY <2>1, <2>2
<1>5. CASE RecordLine
  <2>1. CASE Whole(file) /\ Understood(file)
    <3>1. PICK u : Reads(u) /\ TextSo(file, k + 1, section, finalized, u)
      BY <1>1, <1>5, <2>1, TextRecord
    <3>2. PICK part, fin : part = section /\ fin = finalized
      OBVIOUS
    <3>3. pc = "reading" /\ part = section' /\ fin = finalized'
      BY <1>5, <3>2 DEF RecordLine
    <3> QED
      BY <1>1, <3>1, <3>2, <3>3, TextMoved
  <2>2. CASE ~(Whole(file) /\ Understood(file))
    <3>1. file' = file
      BY <1>5 DEF RecordLine, Reads
    <3>2. ~(Whole(file') /\ Understood(file'))
      BY <2>2, <3>1
    <3> QED
      BY <3>2 DEF TextInv
  <2> QED
    BY <2>1, <2>2
<1>6. CASE CloseReader
  <2>1. UNCHANGED <<file, pos, section, finalized, state>> /\ pc' = "parsed" /\ Stops
    BY <1>6 DEF CloseReader
  <2>2. Whole(file) /\ Understood(file) => state.errorFlag \/ Stage(file, pos + 1) = 6
    BY <1>1, <2>1, TextEnds
  <2> QED
    BY <1>2, <2>1, <2>2
<1>7. CASE Build
  <2>1. UNCHANGED <<file, pos, section, finalized, state>> /\ pc = "parsed" /\ ~state.errorFlag
    BY <1>7 DEF Build, Acceptable
  <2> QED
    BY <1>2, <2>1 DEF TextInv
<1>8. CASE OpenFails \/ Open \/ Reject \/ WrapFails
  <2>1. /\ UNCHANGED <<file, pos, section, finalized, state>>
        /\ pc' \in {"null", "reading"}
    BY <1>8 DEF OpenFails, Open, Reject, WrapFails
  <2> QED
    BY <1>2, <2>1
<1>9. CASE Wrap \/ FreeProblem
  <2>1. /\ UNCHANGED <<file, pos, section, finalized, state>>
        /\ pc \in {"built", "loaded"}
    BY <1>9 DEF Wrap, FreeProblem
  <2> QED
    BY <1>2, <2>1 DEF TextInv
<1>10. CASE Load
  BY <1>3, <1>4, <1>5, <1>6, <1>7, <1>8, <1>9, <1>10 DEF Load, MpsNext
<1>11. CASE Raise \/ CopyModel \/ Construct \/ Solve \/ Return \/ Rests \/ UNCHANGED vars
  <2>1. UNCHANGED <<file, pos, section, finalized, state>> /\ pc' = pc
    BY <1>11 DEF Raise, CopyModel, Construct, Solve, Return, Rests, vars, mpsVars
  <2> QED
    BY <1>2, <2>1 DEF TextInv
<1> QED
  BY <1>10, <1>11 DEF Next

\* Row pointers grow from each row to every later one.
LEMMA PointersGrow ==
    ASSUME NEW m \in Nat, NEW ptr, \A i \in 0 .. m : ptr[i] \in Nat,
           \A i \in 1 .. m : ptr[i - 1] <= ptr[i]
    PROVE  \A i, j \in 0 .. m : i <= j => ptr[i] <= ptr[j]
<1> DEFINE Good(i, d) == i + d <= m => ptr[i] <= ptr[i + d]
           B == {d \in Nat : \A i \in 0 .. m : Good(i, d)}
<1>1. 0 \in B
  <2>1. \A i \in 0 .. m : i + 0 = i /\ ptr[i] <= ptr[i]
    OBVIOUS
  <2> QED
    BY <2>1
<1>2. ASSUME NEW d \in B PROVE d + 1 \in B
  <2>1. ASSUME NEW i \in 0 .. m, i + (d + 1) <= m PROVE ptr[i] <= ptr[i + (d + 1)]
    <3>1. d \in Nat /\ i + d <= m /\ i + d \in 0 .. m /\ i + (d + 1) \in 1 .. m
          /\ (i + (d + 1)) - 1 = i + d /\ i + (d + 1) \in 0 .. m
      BY <2>1
    <3>2. ptr[i] <= ptr[i + d]
      BY <3>1
    <3>3. ptr[i + d] <= ptr[i + (d + 1)]
      BY <3>1
    <3>4. PICK x \in Nat, y \in Nat, z \in Nat : x = ptr[i] /\ y = ptr[i + d] /\ z = ptr[i + (d + 1)]
      BY <3>1
    <3> QED
      BY <3>2, <3>3, <3>4
  <2> QED
    BY <2>1
<1>3. B \in SUBSET Nat
  OBVIOUS
<1>4. \A d \in Nat : d \in B
  <2> HIDE DEF B
  <2> QED
    BY <1>1, <1>2, <1>3, Induction
<1> TAKE i, j \in 0 .. m
<1> HAVE i <= j
<1>5. j - i \in Nat /\ i + (j - i) = j
  OBVIOUS
<1>6. Good(i, j - i)
  BY <1>4, <1>5
<1> QED
  BY <1>5, <1>6

\* An entry of a matrix is a sum over its places.
Weighed(p, Q) == MapThenSumSet(LAMBDA q : p.values[q], Q)

LEMMA EntryOver ==
    ASSUME NEW p, NEW Q, IsFiniteSet(Q), \A q \in Q : p.values[q] \in Int
    PROVE  \E g : Sums(g, [q \in Q |-> p.values[q]], Q) /\ Weighed(p, Q) = g[Q]
<1>0. PICK v : v = [q \in Q |-> p.values[q]]
  OBVIOUS
<1>1. \A s \in SUBSET Q : s # {} => Chosen(s) \in s
  BY DEF Chosen
<1>2. /\ \E g : FoldOver(SUBSET Q, Picking(Q), 0, "sum", 0, v, g)
      /\ \A g : FoldOver(SUBSET Q, Picking(Q), 0, "sum", 0, v, g) =>
            g = [s \in SUBSET Q |-> IF s = {} THEN 0 ELSE v[Chosen(s)] + g[s \ {Chosen(s)}]]
  BY SumOver
<1>3. \A s \in SUBSET Q : s # {} => v[Chosen(s)] = p.values[Chosen(s)]
  BY <1>0, <1>1
<1>4. \A g : g = [s \in SUBSET Q |-> IF s = {} THEN 0 ELSE v[Chosen(s)] + g[s \ {Chosen(s)}]]
           <=> g = [s \in SUBSET Q |-> IF s = {} THEN 0 ELSE p.values[Chosen(s)] + g[s \ {Chosen(s)}]]
  <2> TAKE g
  <2>1. [s \in SUBSET Q |-> IF s = {} THEN 0 ELSE v[Chosen(s)] + g[s \ {Chosen(s)}]]
          = [s \in SUBSET Q |-> IF s = {} THEN 0 ELSE p.values[Chosen(s)] + g[s \ {Chosen(s)}]]
    BY <1>3
  <2> QED
    BY <2>1
<1>5. PICK h : h = [s \in SUBSET Q |-> IF s = {} THEN 0 ELSE p.values[Chosen(s)] + h[s \ {Chosen(s)}]]
  BY <1>2, <1>4
<1>6. \E g : /\ g = [s \in SUBSET Q |-> IF s = {} THEN 0 ELSE p.values[Chosen(s)] + g[s \ {Chosen(s)}]]
             /\ Weighed(p, Q) = g[Q]
  BY <1>5 DEF Weighed, MapThenSumSet, MapThenFoldSet, Chosen
<1>7. PICK g : /\ g = [s \in SUBSET Q |-> IF s = {} THEN 0 ELSE v[Chosen(s)] + g[s \ {Chosen(s)}]]
               /\ Weighed(p, Q) = g[Q]
  BY <1>4, <1>6
<1>8. \A q \in Q : v[q] \in Int
  BY <1>0
<1>9. Sums(g, v, Q)
  <2>1. g[{}] = 0 /\ \A s \in SUBSET Q : s # {} => g[s] = v[Chosen(s)] + g[s \ {Chosen(s)}]
    BY <1>7
  <2> QED
    BY ONLY <1>8, <2>1, IsFiniteSet(Q), SumIsSum
<1> QED
  BY <1>0, <1>7, <1>9

\* A place in the matrix for each of N coordinates.
PlacedBy(place, N, c, t) ==
    /\ \A k \in 1 .. N : place[k] \in 1 .. N /\ Holds(c, place[k], t.rows, t.cols, t.coo[k])
    /\ \A k, l \in 1 .. N : place[k] = place[l] => k = l
    /\ \A q \in 1 .. N : \E k \in 1 .. N : place[k] = q

\* The bijection between the coordinates and the entries of the matrix.
LEMMA PlacesFound ==
    ASSUME EntriesKnown, Parsed(state), NEW c, c = Converted(state), NEW N, N = Len(state.coo)
    PROVE  /\ N \in Nat /\ DOMAIN state.coo = 1 .. N /\ c.m = Len(state.rows) /\ c.n = Len(state.cols)
           /\ c.m \in Nat /\ \A i \in 0 .. c.m : c.rowPtr[i] \in 0 .. N
           /\ \A i, j \in 0 .. c.m : i <= j => c.rowPtr[i] <= c.rowPtr[j]
           /\ \A q \in 1 .. N : c.colInd[q] \in 1 .. c.n
           /\ \E place : PlacedBy(place, N, c, state)
<1>1. N \in Nat /\ DOMAIN state.coo = 1 .. N /\ Len(state.rows) \in Nat
  BY DEF Parsed
<1>2. c.m = Len(state.rows) /\ c.n = Len(state.cols) /\ c.nnz = N
  BY DEF Converted
<1>3. ValidCsr(c) /\ c.colInd \in [1 .. N -> 1 .. Len(state.cols)]
  BY ConvertedIsCsr
<1>4. /\ \A i \in 0 .. c.m : c.rowPtr[i] \in 0 .. N
      /\ \A i \in 1 .. c.m : c.rowPtr[i - 1] <= c.rowPtr[i]
  <2>1. \A i \in 0 .. c.m : c.rowPtr[i] \in 0 .. c.nnz /\ (i > 0 => c.rowPtr[i] >= c.rowPtr[i - 1])
    BY <1>3 DEF ValidCsr
  <2>2. \A i \in 0 .. c.m : c.rowPtr[i] \in 0 .. N
    BY <1>2, <2>1
  <2>3. ASSUME NEW i \in 1 .. c.m PROVE c.rowPtr[i - 1] <= c.rowPtr[i]
    <3>1. i \in 0 .. c.m /\ i - 1 \in 0 .. c.m /\ i > 0
      BY <1>1, <1>2
    <3>2. c.rowPtr[i] >= c.rowPtr[i - 1] /\ c.rowPtr[i] \in Nat /\ c.rowPtr[i - 1] \in Nat
      BY <1>1, <2>1, <2>2, <3>1
    <3> QED
      BY <3>2
  <2> QED
    BY <2>2, <2>3
<1>5. \A i, j \in 0 .. c.m : i <= j => c.rowPtr[i] <= c.rowPtr[j]
  <2>1. PICK m \in Nat : m = c.m
    BY <1>1, <1>2
  <2>2. PICK ptr : ptr = c.rowPtr
    OBVIOUS
  <2>3. \A i \in 0 .. m : ptr[i] \in Nat
    BY <1>1, <1>4, <2>1, <2>2
  <2>4. \A i \in 1 .. m : ptr[i - 1] <= ptr[i]
    BY <1>4, <2>1, <2>2
  <2>5. \A i, j \in 0 .. m : i <= j => ptr[i] <= ptr[j]
    BY ONLY <2>3, <2>4, m \in Nat, PointersGrow
  <2> QED
    BY <2>1, <2>2, <2>5
<1>6. PICK place \in Bijection(1 .. N, 1 .. N) :
         \A k \in 1 .. N : Holds(c, place[k], state.rows, state.cols, state.coo[k])
  <2>1. HoldsCoordinates(c, state)
    BY ConvertedHolds
  <2> QED
    BY <1>1, <1>2, <2>1 DEF HoldsCoordinates
<1>7. /\ \A k \in 1 .. N : place[k] \in 1 .. N
      /\ \A k, l \in 1 .. N : place[k] = place[l] => k = l
      /\ \A q \in 1 .. N : \E k \in 1 .. N : place[k] = q
  BY DEF Bijection, Injection, Surjection, IsInjective
<1>8. PlacedBy(place, N, c, state)
  BY <1>6, <1>7 DEF PlacedBy
<1> QED
  BY <1>1, <1>2, <1>3, <1>4, <1>5, <1>8

\* A coordinate is the entry of its row and its column.
LEMMA HeldWhere ==
    ASSUME NEW c, c.m \in Nat, \A i \in 0 .. c.m : c.rowPtr[i] \in Nat,
           \A i, j \in 0 .. c.m : i <= j => c.rowPtr[i] <= c.rowPtr[j],
           NEW rows, \A i, j \in 1 .. c.m : rows[i] = rows[j] => i = j,
           NEW cols, \A i, j \in 1 .. c.n : cols[i] = cols[j] => i = j,
           NEW q \in Nat, c.colInd[q] \in 1 .. c.n, NEW e, Holds(c, q, rows, cols, e),
           NEW i \in 1 .. c.m, NEW j \in 1 .. c.n
    PROVE  /\ c.values[q] = e.value
           /\ (c.rowPtr[i - 1] < q /\ q <= c.rowPtr[i] /\ c.colInd[q] = j)
                 <=> (e.row = rows[i] /\ e.col = cols[j])
<1>1. PICK h \in 1 .. c.m : rows[h] = e.row /\ c.rowPtr[h - 1] < q /\ q <= c.rowPtr[h]
  BY DEF Holds
<1>2. c.values[q] = e.value /\ cols[c.colInd[q]] = e.col
  BY DEF Holds
<1>3. c.colInd[q] = j <=> e.col = cols[j]
  BY <1>2
<1>4. i \in Nat /\ h \in Nat /\ i \in 0 .. c.m /\ h \in 0 .. c.m /\ i - 1 \in 0 .. c.m /\ h - 1 \in 0 .. c.m
  OBVIOUS
<1>5. PICK a \in Nat, b \in Nat, x \in Nat, y \in Nat :
         a = c.rowPtr[i - 1] /\ b = c.rowPtr[i] /\ x = c.rowPtr[h - 1] /\ y = c.rowPtr[h]
  BY <1>4
<1>6. ASSUME a < q, q <= b PROVE h = i
  <2>1. h <= i - 1 => y <= a
    BY <1>4, <1>5
  <2>2. i <= h - 1 => b <= x
    BY <1>4, <1>5
  <2>3. x < q /\ q <= y
    BY <1>1, <1>5
  <2>4. ~(h <= i - 1) /\ ~(i <= h - 1)
    BY <1>6, <2>1, <2>2, <2>3
  <2> QED
    BY <1>4, <2>4
<1>7. (a < q /\ q <= b) <=> e.row = rows[i]
  <2>1. ASSUME e.row = rows[i] PROVE a < q /\ q <= b
    <3>1. h = i
      BY <1>1, <2>1
    <3> QED
      BY <1>1, <1>5, <3>1
  <2>2. ASSUME a < q, q <= b PROVE e.row = rows[i]
    BY <1>1, <1>6, <2>2
  <2> QED
    BY <2>1, <2>2
<1> QED
  BY <1>2, <1>3, <1>5, <1>7

\* Terms moved to places: the places of row i and column j are those of its terms.
LEMMA EntryIs ==
    ASSUME NEW f \in Files, Understood(f), EntriesKnown, Parsed(state),
           NEW c, c = Converted(state), NEW s, Traces(s, f, Data(f, "entries"), state.coo),
           NEW i \in 1 .. c.m, NEW j \in 1 .. c.n, state.rows[i] \in RowNames(f),
           NEW T, T = {d \in Data(f, "entries") :
                         RowOf(f, d) = state.rows[i] /\ Column(f, d) = state.cols[j]}
    PROVE  Entry(c, i, j) = Total(f, T)
<1>1. PICK N, coo, rows, cols : /\ N = Len(state.coo) /\ coo = state.coo
                                /\ rows = state.rows /\ cols = state.cols
  OBVIOUS
<1>2. /\ N \in Nat /\ DOMAIN coo = 1 .. N /\ c.m = Len(rows) /\ c.n = Len(cols)
      /\ c.m \in Nat /\ \A h \in 0 .. c.m : c.rowPtr[h] \in 0 .. N
      /\ \A g, h \in 0 .. c.m : g <= h => c.rowPtr[g] <= c.rowPtr[h]
      /\ \A q \in 1 .. N : c.colInd[q] \in 1 .. c.n
  BY <1>1, PlacesFound
<1>3. PICK place : /\ \A k \in 1 .. N : place[k] \in 1 .. N
                   /\ \A k, l \in 1 .. N : place[k] = place[l] => k = l
                   /\ \A q \in 1 .. N : \E k \in 1 .. N : place[k] = q
                   /\ \A k \in 1 .. N : Holds(c, place[k], rows, cols, coo[k])
  <2>1. N = Len(state.coo)
    BY <1>1
  <2>2. \E place : PlacedBy(place, N, c, state)
    BY ONLY <2>1, EntriesKnown, Parsed(state), c = Converted(state), PlacesFound
  <2>3. PICK place : PlacedBy(place, N, c, state)
    BY <2>2
  <2>4. \A k \in 1 .. N : Holds(c, place[k], rows, cols, coo[k])
    BY <1>1, <2>3 DEF PlacedBy
  <2> QED
    BY <2>3, <2>4 DEF PlacedBy
<1>4. /\ \A g, h \in 1 .. c.m : rows[g] = rows[h] => g = h
      /\ \A g, h \in 1 .. c.n : cols[g] = cols[h] => g = h
  <2>1. rows \in Seq(STRING) /\ cols \in Seq(STRING) /\ Table(rows) /\ Table(cols)
    BY <1>1 DEF Parsed
  <2>2. DOMAIN rows = 1 .. c.m /\ DOMAIN cols = 1 .. c.n
    <3>1. DOMAIN rows = 1 .. Len(rows) /\ DOMAIN cols = 1 .. Len(cols)
      BY <2>1
    <3> QED
      BY ONLY <1>2, <3>1
  <2> QED
    BY <2>1, <2>2 DEF Table
<1>5. PICK a \in Nat, b \in Nat : a = c.rowPtr[i - 1] /\ b = c.rowPtr[i] /\ b <= N
  <2>1. i \in 0 .. c.m /\ i - 1 \in 0 .. c.m
    BY <1>2
  <2>2. c.rowPtr[i - 1] \in 0 .. N /\ c.rowPtr[i] \in 0 .. N
    BY <1>2, <2>1
  <2> QED
    BY <1>2, <2>2
<1>6. PICK Q : Q = {q \in a + 1 .. b : c.colInd[q] = j}
  OBVIOUS
<1>7. \A q \in Q : q \in 1 .. N
  <2> SUFFICES ASSUME NEW q \in Q PROVE q \in 1 .. N
    OBVIOUS
  <2>1. q \in a + 1 .. b /\ N \in Nat
    BY <1>2, <1>6
  <2> QED
    BY ONLY <1>5, <2>1, a \in Nat, b \in Nat
<1>8. IsFiniteSet(Q)
  <2>1. Q \in SUBSET (1 .. N)
    BY <1>7
  <2> QED
    <3>1. N \in Nat
      BY <1>2
    <3>2. IsFiniteSet(1 .. N)
      BY ONLY <3>1, FS_Interval
    <3> QED
      BY ONLY <2>1, <3>2, FS_Subset
<1>9. ASSUME NEW k \in 1 .. N
      PROVE  /\ c.values[place[k]] = coo[k].value
             /\ place[k] \in Q <=> coo[k].row = rows[i] /\ coo[k].col = cols[j]
  <2>1. PICK q, e : q = place[k] /\ e = coo[k]
    OBVIOUS
  <2>2. q \in Nat /\ q \in 1 .. N /\ c.colInd[q] \in 1 .. c.n /\ Holds(c, q, rows, cols, e)
    <3>1. N \in Nat /\ q \in 1 .. N
      BY <1>2, <1>3, <2>1
    <3>2. q \in Nat
      BY ONLY <3>1
    <3>3. Holds(c, q, rows, cols, e)
      BY <1>3, <2>1
    <3>4. c.colInd[q] \in 1 .. c.n
      BY ONLY <1>2, <3>1
    <3> QED
      BY <3>1, <3>2, <3>3, <3>4
  <2>3. \A h \in 0 .. c.m : c.rowPtr[h] \in Nat
    BY <1>2
  <2>4. /\ c.values[q] = e.value
        /\ (c.rowPtr[i - 1] < q /\ q <= c.rowPtr[i] /\ c.colInd[q] = j)
              <=> (e.row = rows[i] /\ e.col = cols[j])
    <3>1. /\ c.m \in Nat /\ q \in Nat /\ c.colInd[q] \in 1 .. c.n /\ i \in 1 .. c.m /\ j \in 1 .. c.n
          /\ \A g, h \in 0 .. c.m : g <= h => c.rowPtr[g] <= c.rowPtr[h]
      BY <1>2, <2>2
    <3> QED
      BY ONLY <1>4, <2>2, <2>3, <3>1, HeldWhere
  <2>5. q \in Q <=> a < q /\ q <= b /\ c.colInd[q] = j
    BY <1>6, <2>2
  <2> QED
    BY <1>5, <2>1, <2>4, <2>5
<1>10. ASSUME NEW k \in 1 .. N
       PROVE  /\ s[k] \in Data(f, "entries") /\ coo[k].row = RowOf(f, s[k])
              /\ coo[k].col = Column(f, s[k]) /\ coo[k].value = ValueOf(f, s[k])
  <2>1. s[k] \in Terms(f, Data(f, "entries")) /\ coo[k] = Term(f, s[k])
    BY <1>1, <1>2 DEF Traces
  <2> QED
    BY <2>1 DEF Terms, Term
<1>11. \A k, l \in 1 .. N : s[k] = s[l] => k = l
  BY <1>1, <1>2 DEF Traces
<1>12. \A d \in T : \E k \in 1 .. N : s[k] = d
  <2> SUFFICES ASSUME NEW d \in T PROVE \E k \in 1 .. N : s[k] = d
    OBVIOUS
  <2>1. d \in Terms(f, Data(f, "entries"))
    BY <1>1 DEF Terms
  <2> QED
    BY <1>1, <1>2, <2>1 DEF Traces
<1>13. PICK m : m = [d \in T |-> place[CHOOSE k \in 1 .. N : s[k] = d]]
  OBVIOUS
<1>14. ASSUME NEW d \in T
       PROVE  \E k \in 1 .. N : s[k] = d /\ m[d] = place[k]
  BY <1>12, <1>13
<1>15. ASSUME NEW k \in 1 .. N
       PROVE  s[k] \in T <=> place[k] \in Q
  <2>1. s[k] \in T <=> RowOf(f, s[k]) = rows[i] /\ Column(f, s[k]) = cols[j]
    BY <1>1, <1>10
  <2> QED
    BY <1>9, <1>10, <2>1
<1>16. ASSUME NEW d \in T
       PROVE  m[d] \in Q /\ c.values[m[d]] = ValueOf(f, d)
  <2>1. PICK k \in 1 .. N : s[k] = d /\ m[d] = place[k]
    BY <1>14
  <2> QED
    BY <1>9, <1>10, <1>15, <2>1
<1>17. \A d, e \in T : m[d] = m[e] => d = e
  <2> SUFFICES ASSUME NEW d \in T, NEW e \in T, m[d] = m[e] PROVE d = e
    OBVIOUS
  <2>1. PICK k \in 1 .. N : s[k] = d /\ m[d] = place[k]
    BY <1>14
  <2>2. PICK l \in 1 .. N : s[l] = e /\ m[e] = place[l]
    BY <1>14
  <2>3. place[k] = place[l]
    BY <2>1, <2>2
  <2>4. k = l
    BY <1>3, <2>3
  <2> QED
    BY <2>1, <2>2, <2>4
<1>18. {m[d] : d \in T} = Q
  <2>1. \A d \in T : m[d] \in Q
    BY <1>16
  <2>2. \A q \in Q : \E d \in T : m[d] = q
    <3> SUFFICES ASSUME NEW q \in Q PROVE \E d \in T : m[d] = q
      OBVIOUS
    <3>1. PICK k \in 1 .. N : place[k] = q
      BY <1>3, <1>7
    <3>2. s[k] \in T
      BY <1>15, <3>1
    <3>3. PICK l \in 1 .. N : s[l] = s[k] /\ m[s[k]] = place[l]
      BY <1>14, <3>2
    <3> QED
      BY <1>11, <3>1, <3>2, <3>3
  <2> QED
    BY <2>1, <2>2
<1>19. IsFiniteSet(T) /\ \A d \in T : ValueOf(f, d) \in Int
  <2>1. IsFiniteSet(Data(f, "entries")) /\ \A d \in Data(f, "entries") : ValueOf(f, d) \in Int
    BY DataFacts
  <2>2. T \in SUBSET Data(f, "entries")
    OBVIOUS
  <2> QED
    BY <2>1, <2>2, FS_Subset
<1>20. \A q \in Q : c.values[q] \in Int
  <2> SUFFICES ASSUME NEW q \in Q PROVE c.values[q] \in Int
    OBVIOUS
  <2>1. PICK k \in 1 .. N : place[k] = q
    BY <1>3, <1>7
  <2>2. s[k] \in T
    BY <1>15, <2>1
  <2> QED
    BY <1>9, <1>10, <1>19, <2>1, <2>2
<1>21. PICK v, w : v = [d \in T |-> ValueOf(f, d)] /\ w = [q \in Q |-> c.values[q]]
  OBVIOUS
<1>22. PICK g : Sums(g, v, T) /\ Total(f, T) = g[T]
  BY <1>19, <1>21, TotalOver
<1>23. PICK h : Sums(h, w, Q) /\ Weighed(c, Q) = h[Q]
  BY <1>8, <1>20, <1>21, EntryOver
<1>24. \A d \in T : m[d] \in Q /\ v[d] = w[m[d]]
  BY <1>16, <1>21
<1>25. g[T] = h[{m[d] : d \in T}]
  BY ONLY <1>17, <1>19, <1>22, <1>23, <1>24, SumMoves
<1>26. Entry(c, i, j) = Weighed(c, Q)
  BY <1>5, <1>6 DEF Entry, Weighed
<1> QED
  BY <1>18, <1>22, <1>23, <1>25, <1>26

\* At ENDATA every line that says something is before the reader.
LEMMA AllHeard ==
    ASSUME NEW f \in Files, Understood(f), NEW k \in Nat, Stage(f, k) = 6
    PROVE  /\ \A kind \in Kinds : Before(f, kind, k) = Said(f, kind)
           /\ \A kind \in {"entries", "rhs", "range"} : Heard(f, kind, k) = Data(f, kind)
           /\ Before(f, "sense", k) = Said(f, "sense")
<1>1. ASSUME NEW kind \in Kinds, NEW l \in Said(f, kind) PROVE l < k
  <2>1. l \in Nat /\ Rung(kind) <= 5
    BY LinesFacts DEF Kinds, Rung, Order, Part
  <2>2. l >= k => Stage(f, k) <= Rung(kind)
    BY LinesInOrder
  <2>3. ~(l >= k)
    <3>1. Rung(kind) \in Nat
      BY DEF Kinds, Rung, Order, Part
    <3> QED
      BY <2>1, <2>2, <3>1
  <2> QED
    BY <2>1, <2>3
<1>2. ASSUME NEW l \in Said(f, "sense") PROVE l < k
  <2>1. l \in Nat /\ l \in DOMAIN f.lines /\ Means(f, l).is = "sense"
    BY LinesFacts DEF Said, Means
  <2> SUFFICES ASSUME l >= k PROVE FALSE
    BY <2>1
  <2>2. f.lines[l].free # <<>>
    <3>1. Spelled(f, l)
      BY <2>1 DEF Understood
    <3> QED
      BY <2>1, <3>1 DEF Spelled
  <2>3. CASE l \in Headers(f)
    <3>1. PICK words : words = f.lines[l].free
      OBVIOUS
    <3>2. Sections[words[1]] = "OBJSENSE"
      BY <2>3, <3>1, HeaderSays
    <3>3. Opened(f, l) = "OBJSENSE"
      BY <3>1, <3>2 DEF Opened
    <3>4. Order[Opened(f, l)] = 0
      BY <3>3 DEF Order
    <3>5. Stage(f, k) < Order[Opened(f, l)] \/ Stage(f, k) = 0
      BY <2>3, HeadersInOrder
    <3> QED
      BY <3>4, <3>5
  <2>4. CASE l \notin Headers(f)
    <3>1. SectionOf(f, l) = "OBJSENSE"
      BY <2>1, <2>2, <2>4, RecordIs
    <3>2. Stage(f, l) = 0
      BY <2>1, <3>1, StageIs
    <3>3. Stage(f, k) <= Stage(f, l)
      BY <2>1, StagesInOrder
    <3> QED
      BY <3>2, <3>3
  <2> QED
    BY <2>3, <2>4
<1>3. \A kind \in Kinds : Before(f, kind, k) = Said(f, kind)
  BY <1>1 DEF Before
<1>4. Before(f, "sense", k) = Said(f, "sense")
  BY <1>2 DEF Before
<1>5. ASSUME NEW kind \in {"entries", "rhs", "range"}
      PROVE  Heard(f, kind, k) = Data(f, kind)
  <2>1. \A d \in Data(f, kind) : d[1] \in Said(f, kind)
    BY DataFacts
  <2>2. \A d \in Data(f, kind) : d[1] < k
    BY <1>1, <2>1 DEF Kinds
  <2> QED
    BY <2>2 DEF Heard
<1> QED
  BY <1>3, <1>4, <1>5

\* The rows and columns of the text are the names in the tables.
LEMMA NamesListed ==
    ASSUME NEW f \in Files, Understood(f), NEW t, Parsed(t), Lists(t.rows, Constraints(f), NameItem(f)),
           Lists(t.cols, Declaring0(f), ColItem(f)), NEW rows, rows = ConstraintLines(f)
    PROVE  /\ Len(rows) = Len(t.rows) /\ DOMAIN rows = DOMAIN t.rows /\ DOMAIN t.rows = 1 .. Len(t.rows)
           /\ \A i \in DOMAIN t.rows : rows[i] \in Constraints(f) /\ t.rows[i] = Means(f, rows[i]).name
                                       /\ t.rows[i] \in RowNames(f)
           /\ ColumnNames(f) = t.cols /\ Len(ColumnNames(f)) = Len(t.cols)
           /\ DOMAIN t.cols = 1 .. Len(t.cols)
<1>1. /\ Constraints(f) \in SUBSET Nat /\ IsFiniteSet(Constraints(f))
      /\ Constraints(f) \in SUBSET Said(f, "row")
  BY NamesFacts
<1>2. PICK C, E : C = Constraints(f) /\ E = Declaring0(f)
  OBVIOUS
<1>3. C \in SUBSET Nat /\ IsFiniteSet(C) /\ rows = InOrder(C)
  BY <1>1, <1>2 DEF ConstraintLines, Constraints
<1>4. E \in SUBSET Nat /\ IsFiniteSet(E) /\ E \in SUBSET Said(f, "entries")
  <2>1. Said(f, "entries") \in SUBSET Nat /\ IsFiniteSet(Said(f, "entries"))
    BY LinesFacts
  <2>2. E \in SUBSET Said(f, "entries")
    BY <1>2 DEF Declaring0
  <2> QED
    BY <2>1, <2>2, FS_Subset
<1>5. PICK S : S = STRING /\ t.rows \in Seq(S) /\ t.cols \in Seq(S)
  BY DEF Parsed
<1>6. /\ Len(rows) = Cardinality(C) /\ DOMAIN rows = 1 .. Cardinality(C)
  BY <1>3, InOrderFacts
<1>7. /\ DOMAIN t.rows = 1 .. Cardinality(C)
      /\ \A i \in DOMAIN t.rows : t.rows[i] = NameItem(f)[InOrder(C)[i]] /\ InOrder(C)[i] \in C
  <2>1. PICK seq, item : seq = t.rows /\ item = NameItem(f)
    OBVIOUS
  <2>2. Lists(seq, C, item) /\ seq \in Seq(S)
    BY <1>2, <1>5, <2>1
  <2>3. /\ DOMAIN seq = 1 .. Cardinality(C)
        /\ \A i \in DOMAIN seq : seq[i] = item[InOrder(C)[i]] /\ InOrder(C)[i] \in C
    BY <1>3, <2>2, ListsSet
  <2> QED
    BY <2>1, <2>3
<1>8. /\ DOMAIN t.cols = 1 .. Cardinality(E)
      /\ \A i \in DOMAIN t.cols : t.cols[i] = ColItem(f)[InOrder(E)[i]] /\ InOrder(E)[i] \in E
  <2>1. PICK seq, item : seq = t.cols /\ item = ColItem(f)
    OBVIOUS
  <2>2. Lists(seq, E, item) /\ seq \in Seq(S)
    BY <1>2, <1>5, <2>1
  <2>3. /\ DOMAIN seq = 1 .. Cardinality(E)
        /\ \A i \in DOMAIN seq : seq[i] = item[InOrder(E)[i]] /\ InOrder(E)[i] \in E
    BY <1>4, <2>2, ListsSet
  <2> QED
    BY <2>1, <2>3
<1>9. /\ Len(t.rows) = Cardinality(C) /\ Len(t.cols) = Cardinality(E)
  BY <1>2 DEF Lists
<1>10. ASSUME NEW i \in DOMAIN t.rows
       PROVE  /\ rows[i] \in Constraints(f) /\ t.rows[i] = Means(f, rows[i]).name
              /\ t.rows[i] \in RowNames(f)
  <2>1. rows[i] \in C /\ t.rows[i] = NameItem(f)[rows[i]]
    BY <1>3, <1>7
  <2>2. rows[i] \in Constraints(f) /\ rows[i] \in Said(f, "row")
    BY <1>1, <1>2, <2>1
  <2>3. t.rows[i] = Means(f, rows[i]).name
    BY <2>1, <2>2 DEF NameItem
  <2> QED
    BY <2>2, <2>3 DEF RowNames
<1>11. ColumnNames(f) = t.cols
  <2>1. PICK lines : lines = InOrder(E)
    OBVIOUS
  <2>2. DOMAIN lines = 1 .. Cardinality(E)
    BY <1>4, <2>1, InOrderFacts
  <2>3. ColumnNames(f) = [i \in DOMAIN lines |-> Means(f, lines[i]).col]
    BY <1>2, <2>1 DEF ColumnNames, Declaring0
  <2>4. \A i \in DOMAIN t.cols : t.cols[i] = Means(f, lines[i]).col
    BY <1>4, <1>8, <2>1 DEF ColItem
  <2>5. t.cols = [i \in DOMAIN t.cols |-> t.cols[i]]
    <3>1. \A q \in Seq(S) : q = [i \in DOMAIN q |-> q[i]]
      OBVIOUS
    <3> QED
      BY <1>5, <3>1
  <2>6. DOMAIN t.cols = DOMAIN lines
    BY <1>8, <2>2
  <2> QED
    BY <2>3, <2>4, <2>5, <2>6
<1> QED
  BY <1>2, <1>6, <1>7, <1>8, <1>9, <1>10, <1>11

\* At ENDATA the tables hold the whole of what the file says.
LEMMA AllBuilt ==
    ASSUME NEW f \in Files, Understood(f), NEW k \in Nat, Stage(f, k) = 6, NEW t, Follows(f, k, t)
    PROVE  /\ RowsSo(f, t) /\ Lists(t.cols, Declaring0(f), ColItem(f))
           /\ EntriesSo(f, Data(f, "entries"), t) /\ SidesSo(f, Data(f, "rhs"), Data(f, "range"), t)
           /\ BoundsSo(f, Said(f, "bound"), t) /\ (t.maximize <=> Maximizes(f))
<1>1. Built(f, k, t) /\ SenseSo(f, k, t)
  BY DEF Follows
<1>2. /\ Before(f, "entries", k) = Said(f, "entries") /\ Before(f, "bound", k) = Said(f, "bound")
      /\ Heard(f, "entries", k) = Data(f, "entries") /\ Heard(f, "rhs", k) = Data(f, "rhs")
      /\ Heard(f, "range", k) = Data(f, "range") /\ Before(f, "sense", k) = Said(f, "sense")
  BY AllHeard DEF Kinds
<1>3. Declaring(f, k) = Declaring0(f)
  BY <1>2 DEF Declaring, Declaring0
<1>4. t.maximize <=> Maximizes(f)
  BY <1>1, <1>2 DEF SenseSo, Maximizes
<1> QED
  BY <1>1, <1>2, <1>3, <1>4 DEF Built, ColumnsSo

\* Tables that hold all of it are within the limit: so the file fits.
LEMMA AllFits ==
    ASSUME NEW f \in Files, Understood(f), NEW t, Parsed(t), RowsSo(f, t),
           Lists(t.cols, Declaring0(f), ColItem(f)), EntriesSo(f, Data(f, "entries"), t)
    PROVE  Fits(f)
<1>1. /\ Len(t.rows) = Cardinality(Constraints(f)) /\ Len(t.cols) = Cardinality(Declaring0(f))
      /\ Len(t.coo) = Cardinality(Terms(f, Data(f, "entries")))
  BY DEF RowsSo, Lists, EntriesSo
<1>2. Len(t.rows) <= Limit /\ Len(t.cols) <= Limit /\ Len(t.coo) <= Limit
  BY DEF Parsed, Table
<1>3. Size(f) \in {Cardinality(Constraints(f)), Cardinality(Declaring0(f)),
                   Cardinality(Terms(f, Data(f, "entries")))}
  BY SizeFacts
<1> QED
  BY <1>1, <1>2, <1>3 DEF Fits

\* The interval of a constraint once every side is heard, as the text has it.
LEMMA SideIs ==
    ASSUME NEW f, NEW l
    PROVE  Side(f, l, Data(f, "rhs"), Data(f, "range")) = Interval(f, l)
<1>1. \A kind, row : Of(f, Data(f, kind), row) = About(f, kind, row)
  BY DEF Of, About
<1> QED
  BY <1>1 DEF Side, Interval

LEMMA EndsAre ==
    ASSUME NEW f, NEW c
    PROVE  /\ Lowest(f, Said(f, "bound"), c) = Settled(f, c, LowerTypes, 0, LowerBound)
           /\ Highest(f, Said(f, "bound"), c) = Settled(f, c, UpperTypes, Inf, UpperBound)
  BY DEF Lowest, Highest, Ends, Settled

\* A coefficient is the total of its terms.
LEMMA CoefficientIs ==
    ASSUME NEW f, NEW c, NEW row
    PROVE  /\ Coefficient(f, row, c) =
                 Total(f, {d \in Data(f, "entries") : RowOf(f, d) = row /\ Column(f, d) = c})
           /\ Coefficient(f, ObjectiveRow(f), c) = Total(f, Priced(f, Data(f, "entries"), c))
<1>1. \A r : {d \in About(f, "entries", r) : Means(f, d[1]).col = c}
           = {d \in Data(f, "entries") : RowOf(f, d) = r /\ Column(f, d) = c}
  BY DEF About, Column
<1>2. \A r : Coefficient(f, r, c) =
                 Total(f, {d \in Data(f, "entries") : RowOf(f, d) = r /\ Column(f, d) = c})
  BY <1>1 DEF Coefficient
<1>3. Priced(f, Data(f, "entries"), c) =
         {d \in Data(f, "entries") : RowOf(f, d) = ObjectiveRow(f) /\ Column(f, d) = c}
  BY DEF Priced
<1> QED
  BY <1>2, <1>3

LEMMA SenseMeans ==
    ASSUME NEW f \in Files, Understood(f), NEW k \in Said(f, "sense")
    PROVE  Means(f, k).max \in BOOLEAN
<1>1. k \in DOMAIN f.lines /\ Means(f, k).is = "sense"
  BY DEF Said, Means
<1>2. Spelled(f, k)
  BY <1>1 DEF Understood
<1>3. Meaningful(f, k)
  BY <1>1, <1>2 DEF Spelled
<1> QED
  BY <1>1, <1>3 DEF Meaningful

\* Tables that hold all the file says are converted into the model it means.
LEMMA LoadedIs ==
    ASSUME NEW f \in Files, Understood(f), EntriesKnown, Parsed(state),
           RowsSo(f, state), Lists(state.cols, Declaring0(f), ColItem(f)),
           EntriesSo(f, Data(f, "entries"), state), SidesSo(f, Data(f, "rhs"), Data(f, "range"), state),
           BoundsSo(f, Said(f, "bound"), state), state.maximize <=> Maximizes(f)
    PROVE  Loaded(Converted(state)) = Meaning(f)
<1>1. PICK t, c, rows : t = state /\ c = Converted(state) /\ rows = ConstraintLines(f)
  OBVIOUS
<1>2. /\ Len(rows) = Len(t.rows) /\ DOMAIN rows = DOMAIN t.rows /\ DOMAIN t.rows = 1 .. Len(t.rows)
      /\ \A i \in DOMAIN t.rows : rows[i] \in Constraints(f) /\ t.rows[i] = Means(f, rows[i]).name
                                  /\ t.rows[i] \in RowNames(f)
      /\ ColumnNames(f) = t.cols /\ Len(ColumnNames(f)) = Len(t.cols)
      /\ DOMAIN t.cols = 1 .. Len(t.cols)
  <2>1. Parsed(t) /\ Lists(t.rows, Constraints(f), NameItem(f)) /\ Lists(t.cols, Declaring0(f), ColItem(f))
    BY <1>1 DEF RowsSo
  <2> QED
    BY <1>1, <2>1, NamesListed
<1>3. /\ c.n = Len(t.cols) /\ c.m = Len(t.rows) /\ c.constant = t.constant /\ c.maximize = t.maximize
      /\ c.con = [i \in DOMAIN t.rows |-> t.con[t.rows[i]]]
      /\ c.var = [j \in DOMAIN t.cols |-> t.var[t.cols[j]]]
      /\ c.objective = [j \in DOMAIN t.cols |-> t.obj[t.cols[j]]]
  BY <1>1 DEF Converted
<1>4. \A j \in DOMAIN t.cols : t.cols[j] \in ToSet(t.cols)
  BY DEF ToSet
<1>5. c.con = [i \in DOMAIN rows |-> Interval(f, rows[i])]
  <2>1. ASSUME NEW i \in DOMAIN t.rows PROVE t.con[t.rows[i]] = Interval(f, rows[i])
    <3>1. PICK l : l = rows[i] /\ l \in Constraints(f) /\ t.rows[i] = Means(f, l).name
      BY <1>2
    <3>2. t.con[Means(f, l).name] = Side(f, l, Data(f, "rhs"), Data(f, "range"))
      BY <1>1, <3>1 DEF SidesSo
    <3> QED
      BY <3>1, <3>2, SideIs
  <2> QED
    BY <1>2, <1>3, <2>1
<1>6. c.var = [j \in DOMAIN t.cols |-> <<Settled(f, t.cols[j], LowerTypes, 0, LowerBound),
                                         Settled(f, t.cols[j], UpperTypes, Inf, UpperBound)>>]
  <2>1. ASSUME NEW j \in DOMAIN t.cols
        PROVE  t.var[t.cols[j]] = <<Settled(f, t.cols[j], LowerTypes, 0, LowerBound),
                                    Settled(f, t.cols[j], UpperTypes, Inf, UpperBound)>>
    <3>1. PICK e : e = t.cols[j] /\ e \in ToSet(t.cols)
      BY <1>4
    <3>2. t.var[e] = <<Lowest(f, Said(f, "bound"), e), Highest(f, Said(f, "bound"), e)>>
      BY <1>1, <3>1 DEF BoundsSo
    <3> QED
      BY <3>1, <3>2, EndsAre
  <2> QED
    BY <1>3, <2>1
<1>7. c.objective = [j \in DOMAIN t.cols |-> Coefficient(f, ObjectiveRow(f), t.cols[j])]
  <2>1. ASSUME NEW j \in DOMAIN t.cols
        PROVE  t.obj[t.cols[j]] = Coefficient(f, ObjectiveRow(f), t.cols[j])
    <3>1. PICK e : e = t.cols[j] /\ e \in ToSet(t.cols)
      BY <1>4
    <3>2. t.obj[e] = Total(f, Priced(f, Data(f, "entries"), e))
      BY <1>1, <3>1 DEF EntriesSo
    <3> QED
      BY <3>1, <3>2, CoefficientIs
  <2> QED
    BY <1>3, <2>1
<1>8. c.constant = -Total(f, About(f, "rhs", ObjectiveRow(f)))
  <2>1. Of(f, Data(f, "rhs"), ObjectiveRow(f)) = About(f, "rhs", ObjectiveRow(f))
    BY DEF Of, About
  <2>2. t.constant = -Total(f, Of(f, Data(f, "rhs"), ObjectiveRow(f)))
    BY <1>1 DEF SidesSo
  <2> QED
    BY <1>3, <2>1, <2>2
<1>9. c.maximize = Maximizes(f)
  <2>1. t.maximize \in BOOLEAN /\ (t.maximize <=> Maximizes(f))
    BY <1>1 DEF Parsed
  <2>2. PICK x : x = Maximizes(f)
    OBVIOUS
  <2>3. Maximizes(f) \in BOOLEAN
    <3>1. PICK lines : lines = Said(f, "sense")
      OBVIOUS
    <3>2. lines # {} => Means(f, Max(lines)).max \in BOOLEAN
      <4> SUFFICES ASSUME lines # {} PROVE Means(f, Max(lines)).max \in BOOLEAN
        OBVIOUS
      <4>1. lines \in SUBSET Nat /\ IsFiniteSet(lines)
        BY <3>1, LinesFacts
      <4>2. Max(lines) \in lines
        BY <4>1, GreatestFacts
      <4> QED
        BY <3>1, <4>2, SenseMeans
    <3> QED
      BY <3>1, <3>2 DEF Maximizes
  <2> QED
    BY <1>3, <2>1, <2>3
<1>10. PICK matrix : matrix = [i \in 1 .. c.m |-> [j \in 1 .. c.n |-> Entry(c, i, j)]]
  OBVIOUS
<1>11. matrix = [i \in DOMAIN rows |-> [j \in DOMAIN t.cols |->
                   Coefficient(f, Means(f, rows[i]).name, t.cols[j])]]
  <2>1. PICK s : Traces(s, f, Data(f, "entries"), state.coo)
    BY DEF EntriesSo
  <2>2. ASSUME NEW i \in 1 .. c.m, NEW j \in 1 .. c.n
        PROVE  Entry(c, i, j) = Coefficient(f, Means(f, rows[i]).name, t.cols[j])
    <3>1. PICK T : T = {d \in Data(f, "entries") :
                          RowOf(f, d) = state.rows[i] /\ Column(f, d) = state.cols[j]}
      OBVIOUS
    <3>2. /\ i \in DOMAIN t.rows /\ state.rows[i] \in RowNames(f)
          /\ state.rows[i] = Means(f, rows[i]).name
      BY <1>1, <1>2, <1>3
    <3>3. Entry(c, i, j) = Total(f, T)
      BY <1>1, <2>1, <3>1, <3>2, EntryIs
    <3>4. Coefficient(f, state.rows[i], state.cols[j]) = Total(f, T)
      BY <3>1, CoefficientIs
    <3> QED
      BY <1>1, <3>2, <3>3, <3>4
  <2>3. 1 .. c.m = DOMAIN rows /\ 1 .. c.n = DOMAIN t.cols
    BY <1>2, <1>3
  <2> QED
    BY <1>10, <2>2, <2>3
<1>12. Loaded(c) = [n |-> c.n, m |-> c.m, con |-> c.con, var |-> c.var, objective |-> c.objective,
                    constant |-> c.constant, maximize |-> c.maximize, matrix |-> matrix]
  BY <1>10 DEF Loaded
<1>13. Meaning(f) = [n |-> Len(t.cols), m |-> Len(rows), con |-> c.con, var |-> c.var,
                     objective |-> c.objective, constant |-> c.constant,
                     maximize |-> c.maximize, matrix |-> matrix]
  BY <1>1, <1>2, <1>5, <1>6, <1>7, <1>8, <1>9, <1>11 DEF Meaning
<1> QED
  BY <1>1, <1>2, <1>3, <1>12, <1>13

\* What has been read at ENDATA is the model the text means.
LEMMA TextLoaded ==
    ASSUME StateInv, TextInv, ModelInv
    PROVE  LoadsWhatTheFileSays
<1>1. ASSUME Whole(file), Understood(file), state.errorFlag
      PROVE  ~Fits(file)
  BY <1>1 DEF TextInv, TextSo
<1>2. ASSUME Whole(file), Understood(file), pc \in {"built", "loaded"}
      PROVE  Fits(file) /\ Loaded(problem) = Meaning(file)
  <2>1. PICK f \in Files : f = file
    BY DEF StateInv
  <2>2. PICK k \in Nat : k = pos + 1
    BY DEF StateInv
  <2>3. Understood(f) /\ ~state.errorFlag /\ Stage(f, k) = 6 /\ TextSo(f, k, section, finalized, state)
    BY <1>2, <2>1, <2>2 DEF TextInv
  <2>4. Follows(f, k, state)
    BY <2>3 DEF TextSo
  <2>5. /\ RowsSo(f, state) /\ Lists(state.cols, Declaring0(f), ColItem(f))
        /\ EntriesSo(f, Data(f, "entries"), state)
        /\ SidesSo(f, Data(f, "rhs"), Data(f, "range"), state)
        /\ BoundsSo(f, Said(f, "bound"), state) /\ (state.maximize <=> Maximizes(f))
    BY <2>3, <2>4, AllBuilt
  <2>6. Parsed(state) /\ EntriesKnown
    BY KnownEntries DEF StateInv
  <2>7. Fits(f)
    BY <2>3, <2>5, <2>6, AllFits
  <2>8. Loaded(Converted(state)) = Meaning(f)
    BY <2>3, <2>5, <2>6, LoadedIs
  <2>9. problem = Converted(state)
    BY <1>2 DEF ModelInv
  <2> QED
    BY <2>1, <2>7, <2>8, <2>9
<1> QED
  BY <1>1, <1>2 DEF LoadsWhatTheFileSays

(***************************************************************************)
(* Every file of any length that spells its meaning, in any of the ways of *)
(* MpsText, and is delivered whole: the problem handed to the caller is    *)
(* the model it means, matrix, sides, bounds, objective and sense, and a   *)
(* file is refused only when it does not fit the reader's indices.         *)
(***************************************************************************)
THEOREM MpsLoadsWhatTheFileSays == Spec => []LoadsWhatTheFileSays
<1>1. Init => StateInv /\ TextInv /\ ModelInv
  BY StateInit, TextInit DEF Init, MpsInit, ModelInv
<1>2. StateInv /\ TextInv /\ ModelInv /\ [Next]_vars => StateInv' /\ TextInv' /\ ModelInv'
  BY StateStep, TextStep, StepModel
<1>3. StateInv /\ TextInv /\ ModelInv => LoadsWhatTheFileSays
  BY TextLoaded
<1> QED
  BY <1>1, <1>2, <1>3, PTL DEF Spec
==============================================================================
