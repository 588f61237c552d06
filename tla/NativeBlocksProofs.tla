-------------------------- MODULE NativeBlocksProofs --------------------------
(***************************************************************************)
(* For every block length, batch capacity and footprint, a block applies   *)
(* each of its iterations once, measures materialized iterates of a single *)
(* iteration, and keeps the lazy graph within its budget.                  *)
(*                                                                         *)
(* A minor batch of any size ends with its last iteration in the outputs:  *)
(* the read-after-write barriers make every kernel wait for its            *)
(* predecessor, and the alternation keeps it from writing what it reads.   *)
(* So a block that dispatches such batches implements the block that runs  *)
(* its iterations one by one.                                              *)
(***************************************************************************)
EXTENDS NativeBlocks, TLAPS

------------------------------------------------------------------------------
(* Blocks (IterationBlock).                                                *)

LEMMA DivMod ==
    ASSUME NEW a \in Nat, NEW b \in Nat, b > 0
    PROVE  a = b * (a \div b) + (a % b) /\ a \div b \in Nat /\ a % b \in 0 .. b - 1
OBVIOUS

LEMMA Remainder ==
    ASSUME NEW q \in Int, NEW b \in Nat, b > 0, NEW r \in 0 .. b - 1
    PROVE  (q * b + r) % b = r
OBVIOUS

LEMMA Multiples ==
    ASSUME NEW x \in Nat, NEW y \in Nat, NEW z \in Nat, x <= y
    PROVE  x * z <= y * z
OBVIOUS

\* Advancing within a period, up to its end.
LEMMA Advance ==
    ASSUME NEW a \in Nat, NEW b \in Nat, b > 0, NEW c \in Nat, (a % b) + c <= b
    PROVE  (a + c) % b = IF (a % b) + c = b THEN 0 ELSE (a % b) + c
<1> DEFINE q == a \div b
           r == a % b
<1>1. a = b * q + r /\ q \in Nat /\ r \in 0 .. b - 1
  BY DivMod
<1>2. CASE r + c = b
  <2>1. a + c = (q + 1) * b + 0
    BY <1>1, <1>2
  <2>2. ((q + 1) * b + 0) % b = 0
    BY <1>1, Remainder
  <2> QED
    BY <1>2, <2>1, <2>2
<1>3. CASE r + c < b
  <2>1. a + c = q * b + (r + c) /\ r + c \in 0 .. b - 1
    BY <1>1, <1>3
  <2>2. (q * b + (r + c)) % b = r + c
    BY <1>1, <2>1, Remainder
  <2> QED
    BY <1>3, <2>1, <2>2
<1> QED
  BY <1>1, <1>2, <1>3

\* The Halpern indices of m iterations, and c more.
Counted(m) == [j \in 1 .. m |-> j]

LEMMA CountedOn ==
    ASSUME NEW m \in Nat, NEW c \in Nat
    PROVE  Counted(m) \o [j \in 1 .. c |-> m + j] = Counted(m + c)
BY DEF Counted

LEMMA CountedIs ==
    ASSUME NEW m \in Nat
    PROVE  Counted(m) \in Seq(Nat) /\ Len(Counted(m)) = m
BY DEF Counted

\* A batch holds at least one iteration, and more only while they fit.
LEMMA BatchFits ==
    ASSUME path \in Paths
    PROVE  /\ Batch \in Nat /\ Batch > 0 /\ Batch <= MaxNative
           /\ Batch > 1 => path.fused /\ Batch * path.size <= Target
<1>1. path.size \in Nat /\ path.size > 0 /\ path.fused \in BOOLEAN
  <2>1. path \in [fused : BOOLEAN, batching : BOOLEAN, size : Sizes]
    BY DEF Paths
  <2>2. path.size \in Nat /\ path.size > 0
    <3>1. path.size \in Sizes
      BY <2>1
    <3>2. path.size \in Nat \ {0}
      BY <3>1, BlockAssumption
    <3> QED
      BY <3>2
  <2>3. path.fused \in BOOLEAN
    BY <2>1
  <2> QED
    BY <2>2, <2>3
<1> DEFINE whole == Target \div path.size
<1>2. Target = path.size * whole + (Target % path.size) /\ whole \in Nat
         /\ Target % path.size \in 0 .. path.size - 1
  BY <1>1, BlockAssumption, DivMod
<1>3. path.size <= Target => whole > 0
  <2>1. whole = 0 => Target = Target % path.size
    BY <1>1, <1>2
  <2> QED
    BY <1>1, <1>2, <2>1, BlockAssumption
<1>4. whole * path.size <= Target
  BY <1>1, <1>2
<1>5. Least(whole, MaxNative) <= whole /\ Least(whole, MaxNative) <= MaxNative
         /\ Least(whole, MaxNative) \in {whole, MaxNative}
  BY <1>2, BlockAssumption DEF Least
<1>6. Least(whole, MaxNative) * path.size <= whole * path.size
  BY <1>1, <1>2, <1>5, BlockAssumption, Multiples
<1>7. CASE ~path.fused \/ path.size > Target
  BY <1>7, BlockAssumption DEF Batch
<1>8. CASE ~(~path.fused \/ path.size > Target)
  <2>1. Batch = Least(whole, MaxNative)
    BY <1>8 DEF Batch
  <2>2. Batch \in Nat /\ Batch > 0 /\ Batch <= MaxNative
    <3>1. whole > 0
      BY <1>1, <1>3, <1>8, BlockAssumption
    <3>2. Least(whole, MaxNative) \in Nat /\ Least(whole, MaxNative) > 0
      BY <1>2, <1>5, <3>1, BlockAssumption
    <3> QED
      BY <1>5, <2>1, <3>2
  <2>3. Batch * path.size <= Target
    BY <1>1, <1>2, <1>4, <1>6, <2>1, <2>2, BlockAssumption
  <2> QED
    BY <1>8, <2>2, <2>3
<1> QED
  BY <1>7, <1>8

(***************************************************************************)
(* The inductive invariant: where the block stands (Place), how far the    *)
(* Halpern indices have come (Progress), which iterates are known to be of *)
(* one iteration (Coherent), and how much is lazy (Pending).               *)
(***************************************************************************)
Place ==
    /\ path \in Paths /\ pc \in {"first", "baseline", "minor", "evaluate"}
    /\ block \in Blocks \cup {0} /\ i \in Nat /\ doRestart \in BOOLEAN
    /\ total \in Nat /\ inner \in Nat /\ at \in [Iterates -> Nat]
    /\ pc # "first" => block \in Blocks
    /\ pc \in {"baseline", "minor"} =>
         (i \in 1 .. block /\ (block = 1 => i = 2)) \/ (block = 1 /\ i = 2)
    /\ pc = "baseline" => i = 2

Progress ==
    /\ pc = "first" => weights = Counted(inner)
    /\ pc \in {"baseline", "minor"} => weights = Counted(inner + i - 1)
    /\ pc = "evaluate" => weights = Counted(inner + block)

Coherent ==
    /\ pc = "baseline" \/ (pc = "minor" /\ block = 1) =>
         lazy = 0 /\ \A b \in Iterates : at[b] = total + 1
    /\ pc = "evaluate" => lazy = 0 /\ \A b \in Iterates : at[b] = total + block

Pending ==
    /\ lazy \in Nat /\ graph \in Nat /\ graph <= Batch
    /\ pc = "first" => lazy = 0
    /\ pc \in {"baseline", "minor"} => lazy <= (i - 1) % Batch

IbInv == Place /\ Progress /\ Coherent /\ Pending

LEMMA InvInit == IbInit => IbInv
<1> SUFFICES ASSUME IbInit PROVE IbInv
  OBVIOUS
<1>1. Batch \in Nat /\ Batch > 0
  BY BatchFits DEF IbInit
<1>2. Counted(0) = <<>>
  BY DEF Counted
<1>3. Place /\ Coherent
  BY DEF IbInit, Place, Coherent
<1>4. Progress /\ Pending
  BY <1>1, <1>2 DEF IbInit, Progress, Pending
<1> QED
  BY <1>3, <1>4 DEF IbInv

\* What a step that runs iterations i .. i + c - 1 leaves behind.
LEMMA IterateEffect ==
    ASSUME IbInv, NEW c \in Nat \ {0}, NEW major \in BOOLEAN, NEW eval \in BOOLEAN,
           NEW f \in Nat \ {0}, weights = Counted(inner + f - 1),
           Iterate(f, c, major, eval)
    PROVE  /\ weights' = Counted(inner + f + c - 1)
           /\ at' \in [Iterates -> Nat]
           /\ major => \A b \in Iterates : at'[b] = total + f + c - 1
           /\ graph' = lazy + c
           /\ lazy' = 0 \/ (lazy' = lazy + c /\ path.fused /\ ~eval)
           /\ eval => lazy' = 0
<1>0. total \in Nat /\ inner \in Nat /\ at \in [Iterates -> Nat] /\ lazy \in Nat
        /\ path.fused \in BOOLEAN
  BY DEF IbInv, Place, Pending, Paths
<1>1. weights' = weights \o [j \in 1 .. c |-> inner + f + j - 1]
  BY DEF Iterate, Proceed
<1>2. [j \in 1 .. c |-> inner + f + j - 1] = [j \in 1 .. c |-> (inner + f - 1) + j]
  BY <1>0
<1>3. inner + f - 1 \in Nat /\ (inner + f - 1) + c = inner + f + c - 1
  BY <1>0
<1>4. weights' = Counted(inner + f + c - 1)
  BY <1>1, <1>2, <1>3, CountedOn
<1>5. at' \in [Iterates -> Nat]
  BY <1>0 DEF Iterate, Proceed
<1>6. major => \A b \in Iterates : at'[b] = total + f + c - 1
  BY DEF Iterate, Proceed, Written, Snapshots, Iterates
<1> QED
  BY <1>0, <1>4, <1>5, <1>6 DEF Iterate, Proceed

LEMMA FirstKeeps == ASSUME IbInv, FirstIteration PROVE IbInv'
<1>0. /\ path \in Paths /\ total \in Nat /\ inner \in Nat /\ lazy = 0 /\ graph \in Nat
      /\ doRestart \in BOOLEAN /\ at \in [Iterates -> Nat] /\ graph <= Batch
      /\ weights = Counted(inner)
  BY DEF IbInv, Place, Pending, Progress, FirstIteration
<1>1. Batch \in Nat /\ Batch > 0 /\ Batch' = Batch /\ (Batch > 1 => path.fused)
  BY <1>0, BatchFits DEF FirstIteration, counts, Batch
<1>2. PICK b \in Blocks :
        /\ block' = b
        /\ IF ~UseMinorBatch \/ FirstIsMajor(b)
           THEN i' = 2 /\ Iterate(1, 1, FirstIsMajor(b), FirstIsMajor(b) \/ Batch = 1)
           ELSE i' = 1 /\ UNCHANGED <<at, weights, graph, lazy>>
  BY DEF FirstIteration
<1>3. b \in Nat /\ b > 0
  BY BlockAssumption
<1>4. /\ UNCHANGED <<path, total, inner, doRestart>>
      /\ pc' = IF doRestart THEN "baseline" ELSE "minor"
  BY DEF FirstIteration, counts
<1>5. CASE ~UseMinorBatch \/ FirstIsMajor(b)
  <2>1. i' = 2 /\ Iterate(1, 1, FirstIsMajor(b), FirstIsMajor(b) \/ Batch = 1)
    BY <1>2, <1>5
  <2>2. PICK major \in BOOLEAN, eval \in BOOLEAN :
          /\ major <=> FirstIsMajor(b)
          /\ eval <=> FirstIsMajor(b) \/ Batch = 1
          /\ Iterate(1, 1, major, eval)
    BY <2>1 DEF Iterate, Proceed, Written
  <2>3. /\ weights' = Counted(inner + 1) /\ at' \in [Iterates -> Nat]
        /\ FirstIsMajor(b) => lazy' = 0 /\ \A x \in Iterates : at'[x] = total + 1
        /\ graph' = 1 /\ lazy' \in {0, 1} /\ (Batch = 1 => lazy' = 0)
    <3>1. weights = Counted(inner + 1 - 1)
      BY <1>0
    <3>2. /\ weights' = Counted(inner + 1 + 1 - 1) /\ at' \in [Iterates -> Nat]
          /\ major => \A x \in Iterates : at'[x] = total + 1 + 1 - 1
          /\ graph' = lazy + 1
          /\ lazy' = 0 \/ lazy' = lazy + 1
          /\ eval => lazy' = 0
      BY <2>2, <3>1, IterateEffect
    <3> QED
      BY <1>0, <2>2, <3>2
  <2>4. lazy' <= (i' - 1) % Batch'
    <3>1. Batch > 1 => 1 % Batch = 1
      <4>1. ASSUME Batch > 1 PROVE (0 * Batch + 1) % Batch = 1
        BY <1>1, <4>1, Remainder
      <4> QED
        BY <1>1, <4>1
    <3>2. Batch = 1 => 1 % Batch = 0
      BY <1>1
    <3> QED
      BY <1>1, <2>1, <2>3, <3>1, <3>2
  <2>5. Place'
    BY <1>0, <1>2, <1>3, <1>4, <2>1, <2>3 DEF Place
  <2>6. Progress'
    BY <1>0, <1>4, <2>1, <2>3 DEF Progress
  <2>7. Coherent'
    BY <1>0, <1>2, <1>4, <2>3 DEF Coherent, FirstIsMajor
  <2> QED
    BY <1>1, <1>4, <2>3, <2>4, <2>5, <2>6, <2>7 DEF IbInv, Pending
<1>6. CASE ~(~UseMinorBatch \/ FirstIsMajor(b))
  <2>1. i' = 1 /\ UNCHANGED <<at, weights, graph, lazy>> /\ ~doRestart /\ b # 1
    BY <1>2, <1>6 DEF FirstIsMajor
  <2>2. 0 % Batch \in 0 .. Batch - 1
    BY <1>1
  <2> QED
    BY <1>0, <1>1, <1>2, <1>3, <1>4, <2>1, <2>2
       DEF IbInv, Place, Progress, Coherent, Pending
<1> QED
  BY <1>5, <1>6

LEMMA BaselineKeeps == ASSUME IbInv, MeasureBaseline PROVE IbInv'
<1>1. Batch' = Batch
  BY DEF MeasureBaseline, counts, Batch
<1>2. i = 2 /\ lazy <= (i - 1) % Batch /\ weights = Counted(inner + i - 1)
        /\ \A b \in Iterates : at[b] = total + 1
  BY DEF IbInv, Place, Progress, Coherent, Pending, MeasureBaseline
<1>3. Place' /\ Progress' /\ Coherent'
  BY <1>2 DEF IbInv, Place, Progress, Coherent, MeasureBaseline, counts
<1> QED
  BY <1>1, <1>2, <1>3 DEF IbInv, Pending, MeasureBaseline

\* A minor step of c iterations that stays within the batch and the block.
LEMMA MinorKeeps ==
    ASSUME IbInv, pc = "minor", i < block, NEW c \in Nat \ {0},
           c <= block - i, ((i - 1) % Batch) + c <= Batch,
           NEW major \in BOOLEAN, ~major,
           NEW eval \in BOOLEAN, eval <=> (i + c - 1) % Batch = 0,
           Iterate(i, c, major, eval), i' = i + c,
           UNCHANGED <<path, total, inner, pc, block, doRestart>>
    PROVE  IbInv'
<1>0. /\ i \in Nat /\ i > 0 /\ block \in Nat /\ block \in Blocks /\ block # 1
      /\ lazy \in Nat /\ lazy <= (i - 1) % Batch /\ weights = Counted(inner + i - 1)
      /\ total \in Nat /\ inner \in Nat
  BY BlockAssumption DEF IbInv, Place, Progress, Pending
<1>1. Batch \in Nat /\ Batch > 0 /\ Batch' = Batch
  BY BatchFits DEF IbInv, Place, Batch
<1>2. /\ weights' = Counted(inner + i + c - 1) /\ at' \in [Iterates -> Nat]
      /\ graph' = lazy + c
      /\ lazy' = 0 \/ (lazy' = lazy + c /\ ~eval)
  <2>1. i \in Nat \ {0}
    BY <1>0
  <2> QED
    BY <1>0, <2>1, IterateEffect
<1>3. (i - 1) % Batch \in 0 .. Batch - 1
  BY <1>0, <1>1, DivMod
<1>4. (i + c - 1) % Batch =
        IF ((i - 1) % Batch) + c = Batch THEN 0 ELSE ((i - 1) % Batch) + c
  <2>1. i - 1 \in Nat /\ (i - 1) + c = i + c - 1
    BY <1>0
  <2>2. ((i - 1) + c) % Batch =
          IF ((i - 1) % Batch) + c = Batch THEN 0 ELSE ((i - 1) % Batch) + c
    BY <1>1, <2>1, Advance
  <2> QED
    BY <2>1, <2>2
<1>5. graph' \in Nat /\ graph' <= Batch /\ lazy' \in Nat
  BY <1>0, <1>1, <1>2, <1>3
<1>6. lazy' <= (i + c - 1) % Batch
  BY <1>0, <1>1, <1>2, <1>3, <1>4
<1>7. i' - 1 = i + c - 1 /\ inner + i' - 1 = inner + i + c - 1 /\ i' \in 1 .. block
  BY <1>0
<1>8. Place'
  BY <1>0, <1>2, <1>7 DEF IbInv, Place
<1>9. Progress' /\ Coherent'
  BY <1>0, <1>2, <1>7 DEF Progress, Coherent
<1>10. Pending'
  BY <1>1, <1>5, <1>6, <1>7 DEF Pending
<1> QED
  BY <1>8, <1>9, <1>10 DEF IbInv

LEMMA MinorBatchKeeps == ASSUME IbInv, MinorBatch PROVE IbInv'
<1>0. i \in Nat /\ i > 0 /\ block \in Nat /\ i < block
  BY BlockAssumption DEF IbInv, Place, MinorBatch
<1>1. Batch \in Nat /\ Batch > 0
  BY BatchFits DEF IbInv, Place
<1>2. (i - 1) % Batch \in 0 .. Batch - 1
  BY <1>0, <1>1, DivMod
<1>3. /\ MinorCount \in Nat \ {0} /\ MinorCount <= block - i
      /\ ((i - 1) % Batch) + MinorCount <= Batch
  BY <1>0, <1>1, <1>2 DEF MinorCount, Least
<1>4. PICK major \in BOOLEAN, eval \in BOOLEAN :
        /\ ~major /\ (eval <=> (i + MinorCount - 1) % Batch = 0)
        /\ Iterate(i, MinorCount, major, eval)
  BY DEF MinorBatch, Iterate, Proceed, Written
<1> QED
  BY <1>0, <1>3, <1>4, MinorKeeps DEF MinorBatch, counts

LEMMA MinorIterationKeeps == ASSUME IbInv, MinorIteration PROVE IbInv'
<1>0. i \in Nat /\ i > 0 /\ block \in Nat /\ i < block
  BY BlockAssumption DEF IbInv, Place, MinorIteration
<1>1. Batch \in Nat /\ Batch > 0
  BY BatchFits DEF IbInv, Place
<1>2. (i - 1) % Batch \in 0 .. Batch - 1
  BY <1>0, <1>1, DivMod
<1>3. 1 <= block - i /\ ((i - 1) % Batch) + 1 <= Batch /\ i + 1 - 1 = i
  BY <1>0, <1>1, <1>2
<1>4. PICK major \in BOOLEAN, eval \in BOOLEAN :
        ~major /\ (eval <=> (i + 1 - 1) % Batch = 0) /\ Iterate(i, 1, major, eval)
  BY <1>3 DEF MinorIteration, Iterate, Proceed, Written
<1>5. /\ pc = "minor" /\ i' = i + 1
      /\ UNCHANGED <<path, total, inner, pc, block, doRestart>>
  BY DEF MinorIteration, counts
<1> QED
  BY <1>0, <1>3, <1>4, <1>5, MinorKeeps

LEMMA LastKeeps == ASSUME IbInv, LastIteration PROVE IbInv'
<1>0. /\ block \in Blocks /\ block \in Nat /\ block > 0 /\ total \in Nat /\ inner \in Nat
      /\ pc = "minor" /\ lazy \in Nat /\ weights = Counted(inner + i - 1)
      /\ lazy <= (i - 1) % Batch /\ i \in Nat /\ graph \in Nat /\ graph <= Batch
  BY BlockAssumption DEF IbInv, Place, Progress, Pending, LastIteration
<1>1. Batch \in Nat /\ Batch > 0 /\ Batch' = Batch
  BY BatchFits DEF IbInv, Place, Batch, LastIteration, counts
<1>2. CASE block > 1
  <2>1. i = block
    BY <1>0, <1>2 DEF IbInv, Place, LastIteration
  <2>2. PICK major \in BOOLEAN, eval \in BOOLEAN :
          major /\ eval /\ Iterate(block, 1, major, eval)
    BY <1>2 DEF LastIteration, Iterate, Proceed, Written
  <2>3. /\ weights' = Counted(inner + block + 1 - 1) /\ at' \in [Iterates -> Nat]
        /\ \A b \in Iterates : at'[b] = total + block + 1 - 1
        /\ graph' = lazy + 1 /\ lazy' = 0
    <3>1. block \in Nat \ {0} /\ 1 \in Nat \ {0} /\ weights = Counted(inner + block - 1)
      BY <1>0, <2>1
    <3>2. /\ weights' = Counted(inner + block + 1 - 1) /\ at' \in [Iterates -> Nat]
          /\ major => \A b \in Iterates : at'[b] = total + block + 1 - 1
          /\ graph' = lazy + 1
          /\ eval => lazy' = 0
      BY <2>2, <3>1, IterateEffect
    <3> QED
      BY <2>2, <3>2
  <2>4. (block - 1) % Batch \in 0 .. Batch - 1
    BY <1>0, <1>1, DivMod
  <2>5. graph' \in Nat /\ graph' <= Batch
    BY <1>0, <1>1, <2>1, <2>3, <2>4
  <2>6. inner + block + 1 - 1 = inner + block /\ total + block + 1 - 1 = total + block
    BY <1>0
  <2>7. Place'
    BY <1>0, <2>3 DEF IbInv, Place, LastIteration, counts
  <2> QED
    BY <1>1, <2>3, <2>5, <2>6, <2>7
       DEF IbInv, Progress, Coherent, Pending, LastIteration, counts
<1>3. CASE ~(block > 1)
  <2>1. block = 1 /\ UNCHANGED <<at, weights, graph, lazy>>
    BY <1>0, <1>3 DEF LastIteration
  <2>2. i = 2 /\ lazy = 0 /\ \A b \in Iterates : at[b] = total + 1
    BY <1>0, <2>1 DEF IbInv, Place, Coherent
  <2>3. inner + i - 1 = inner + block
    BY <1>0, <2>1, <2>2
  <2>4. Place'
    BY <1>0, <2>1 DEF IbInv, Place, LastIteration, counts
  <2> QED
    BY <1>0, <1>1, <2>1, <2>2, <2>3, <2>4
       DEF IbInv, Progress, Coherent, Pending, LastIteration, counts
<1> QED
  BY <1>2, <1>3

LEMMA EvaluateKeeps == ASSUME IbInv, Evaluate PROVE IbInv'
<1>0. /\ block \in Nat /\ total \in Nat /\ inner \in Nat /\ lazy = 0
      /\ weights = Counted(inner + block)
  BY BlockAssumption DEF IbInv, Place, Progress, Coherent, Evaluate
<1>1. Batch' = Batch
  BY DEF Evaluate, Batch
<1>2. Counted(0) = <<>>
  BY DEF Counted
<1>3. pc' = "first" /\ total' \in Nat /\ inner' \in Nat /\ doRestart' \in BOOLEAN
  BY <1>0 DEF Evaluate
<1>4. Place'
  BY <1>3 DEF IbInv, Place, Evaluate
<1>5. Progress' /\ Coherent'
  BY <1>0, <1>2, <1>3 DEF Progress, Coherent, Evaluate
<1>6. Pending'
  BY <1>0, <1>1, <1>3 DEF IbInv, Pending, Evaluate
<1> QED
  BY <1>4, <1>5, <1>6 DEF IbInv

LEMMA InvNext == ASSUME IbInv, [IbNext]_ibVars PROVE IbInv'
<1>1. CASE UNCHANGED ibVars
  BY <1>1 DEF ibVars, IbInv, Place, Progress, Coherent, Pending, Batch
<1> QED
  BY <1>1, FirstKeeps, BaselineKeeps, MinorBatchKeeps, MinorIterationKeeps, LastKeeps,
     EvaluateKeeps DEF IbNext, Stopped

LEMMA BlockInvariant == IbSpec => []IbInv
BY InvInit, InvNext, PTL DEF IbSpec

(***************************************************************************)
(* For every configuration, the state of a block has its type.             *)
(***************************************************************************)
THEOREM BlockTypeCorrect == IbSpec => []IbTypeOK
<1>1. IbInv => IbTypeOK
  <2> SUFFICES ASSUME IbInv PROVE IbTypeOK
    OBVIOUS
  <2>1. PICK m \in Nat : weights = Counted(m)
    BY BlockAssumption DEF IbInv, Place, Progress
  <2>2. weights \in Seq(Nat)
    BY <2>1, CountedIs
  <2> QED
    BY <2>2 DEF IbInv, Place, Pending, IbTypeOK
<1> QED
  BY <1>1, BlockInvariant, PTL

(***************************************************************************)
(* For every block length and batch capacity, a block runs each of its     *)
(* iterations once, with consecutive Halpern indices since the restart.    *)
(***************************************************************************)
THEOREM IterationsConsecutive == IbSpec => []HalpernConsecutive
<1>1. IbInv => HalpernConsecutive
  <2> SUFFICES ASSUME IbInv PROVE HalpernConsecutive
    OBVIOUS
  <2>1. PICK m \in Nat : weights = Counted(m) /\ (pc = "evaluate" => m = inner + block)
    BY BlockAssumption DEF IbInv, Place, Progress
  <2>2. Len(weights) = m
    BY <2>1, CountedIs
  <2> QED
    BY <2>1, <2>2 DEF HalpernConsecutive, Counted
<1> QED
  BY <1>1, BlockInvariant, PTL

(***************************************************************************)
(* For every configuration, fixed-point errors compare materialized        *)
(* iterates of one and the same iteration.                                 *)
(***************************************************************************)
THEOREM ComparesOneIteration == IbSpec => []SnapshotsCoherent
<1>1. IbInv => SnapshotsCoherent
  BY DEF IbInv, Coherent, SnapshotsCoherent
<1> QED
  BY <1>1, BlockInvariant, PTL

(***************************************************************************)
(* For every problem size and target, the lazy graph holds one iteration   *)
(* or stays within the target footprint and a native batch's capacity.     *)
(***************************************************************************)
THEOREM LazyGraphFits == IbSpec => []LazyGraphBounded
<1>1. IbInv => LazyGraphBounded
  <2> SUFFICES ASSUME IbInv, graph > 1 PROVE graph * path.size <= Target /\ graph <= MaxNative
    BY DEF LazyGraphBounded, IbInv, Pending
  <2>1. /\ Batch \in Nat /\ Batch > 0 /\ Batch <= MaxNative
        /\ Batch > 1 => Batch * path.size <= Target
    BY BatchFits DEF IbInv, Place
  <2>2. graph \in Nat /\ graph <= Batch
    BY DEF IbInv, Pending
  <2>3. path.size \in Nat
    <3>1. path \in [fused : BOOLEAN, batching : BOOLEAN, size : Sizes]
      BY DEF IbInv, Place, Paths
    <3>2. path.size \in Sizes
      BY <3>1
    <3> QED
      BY <3>2, BlockAssumption
  <2>4. graph * path.size <= Batch * path.size
    BY <2>1, <2>2, <2>3, Multiples
  <2>5. Batch * path.size \in Nat /\ graph * path.size \in Nat
    BY <2>1, <2>2, <2>3
  <2> QED
    BY <2>1, <2>2, <2>4, <2>5, BlockAssumption
<1> QED
  BY <1>1, BlockInvariant, PTL

------------------------------------------------------------------------------
(* Batches (MinorBatch).                                                   *)

\* Consecutive iterations alternate, and the last one does not.
LEMMA Alternation ==
    ASSUME n \in Nat, NEW k \in Nat
    PROVE  /\ k > 0 => (Alternate(k) <=> ~Alternate(k - 1))
           /\ k = n - 1 => ~Alternate(k)
BY DEF Alternate

\* What a kernel reads and writes, by iteration and half step.
LEMMA KernelShape ==
    ASSUME NEW k \in Nat
    PROVE  /\ Iteration(2 * k + 1) = k /\ IsPrimal(2 * k + 1)
           /\ Iteration(2 * k + 2) = k /\ ~IsPrimal(2 * k + 2)
BY DEF Iteration, IsPrimal

LEMMA Halves ==
    ASSUME NEW d \in Nat \ {0}
    PROVE  \E k \in Nat : d = 2 * k + 1 \/ d = 2 * k + 2
<1>1. d = 2 * ((d - 1) \div 2) + 1 \/ d = 2 * ((d - 1) \div 2) + 2
  OBVIOUS
<1>2. (d - 1) \div 2 \in Nat
  OBVIOUS
<1> QED
  BY <1>1, <1>2

LEMMA PrimalAccess ==
    ASSUME NEW k \in Nat
    PROVE  /\ Reads(2 * k + 1) = {CurX(k), CurY(k)}
           /\ Writes(2 * k + 1) = {NextX(k), "outRef"}
BY KernelShape DEF Reads, Writes

LEMMA DualAccess ==
    ASSUME NEW k \in Nat
    PROVE  /\ Reads(2 * k + 2) = {"outRef", CurY(k)}
           /\ Writes(2 * k + 2) = {NextY(k)} \cup {b \in {"outYRef"} : spmm}
BY KernelShape DEF Reads, Writes

\* The two buffers of an iterate are never the same for two iterations in a row.
LEMMA Distinct ==
    ASSUME n \in Nat, NEW k \in Nat
    PROVE  /\ CurX(k) # NextX(k) /\ CurY(k) # NextY(k)
           /\ {CurX(k), CurY(k), NextX(k), NextY(k)} \cap {"outRef", "outYRef"} = {}
           /\ {CurX(k), NextX(k)} \cap {CurY(k), NextY(k)} = {}
           /\ {CurX(k), CurY(k), NextX(k), NextY(k)} \subseteq Buffers
BY Alternation DEF CurX, CurY, NextX, NextY, Buffers

LEMMA NoAliasing ==
    ASSUME n \in Nat, NEW d \in Nat \ {0}
    PROVE  ~Clash(Reads(d), Writes(d))
<1>1. PICK k \in Nat : d = 2 * k + 1 \/ d = 2 * k + 2
  BY Halves
<1>2. CASE d = 2 * k + 1
  BY <1>2, PrimalAccess, Distinct DEF Clash
<1>3. CASE d = 2 * k + 2
  BY <1>3, DualAccess, Distinct DEF Clash
<1> QED
  BY <1>1, <1>2, <1>3

\* Every kernel reads something its predecessor writes.
LEMMA Chain ==
    ASSUME NEW d \in Nat, d > 1
    PROVE  Clash(Writes(d - 1), Reads(d))
<1>1. PICK k \in Nat : d = 2 * k + 1 \/ d = 2 * k + 2
  BY Halves
<1>2. CASE d = 2 * k + 2
  <2>1. d - 1 = 2 * k + 1
    BY <1>2
  <2> QED
    BY <1>2, <2>1, PrimalAccess, DualAccess DEF Clash
<1>3. CASE d = 2 * k + 1
  <2>1. k - 1 \in Nat /\ d - 1 = 2 * (k - 1) + 2
    BY <1>3
  <2>2. NextY(k - 1) \in Writes(d - 1)
    BY <2>1, DualAccess
  <2>3. NextY(k - 1) \in Reads(d)
    BY <1>3, <2>1, PrimalAccess DEF CurY
  <2> QED
    BY <2>2, <2>3 DEF Clash
<1> QED
  BY <1>1, <1>2, <1>3

(***************************************************************************)
(* The inductive invariant.  Kernels run one at a time, in order, so after *)
(* f of them the current buffers hold the iterations their names promise   *)
(* (Ready), and while kernel f + 1 runs the ones it does not write still   *)
(* do (Kept).                                                              *)
(***************************************************************************)
Ready(f) ==
    \A j \in Nat :
        /\ f = 2 * j =>
             /\ content[CurX(j)] = j /\ content[CurY(j)] = j
             /\ j > 0 => content["outRef"] = j /\ (spmm => content["outYRef"] = j)
        /\ f = 2 * j + 1 =>
             /\ content[NextX(j)] = j + 1 /\ content["outRef"] = j + 1
             /\ content[CurY(j)] = j

Kept(f) ==
    \A j \in Nat :
        /\ f = 2 * j => content[CurY(j)] = j
        /\ f = 2 * j + 1 => content[NextX(j)] = j + 1 /\ content["outRef"] = j + 1

Between(f) == finished = 1 .. f /\ running = {} /\ Ready(f)
During(f) ==
    /\ f < 2 * n /\ finished = 1 .. f /\ running = {f + 1} /\ intact = {f + 1}
    /\ Kept(f)

InOrder == \E f \in 0 .. 2 * n : Between(f) \/ During(f)
MbInv == MbTypeOK /\ InOrder

LEMMA SizeIsPositive == ASSUME MbTypeOK PROVE n \in Nat /\ n > 0
BY MinorBatchAssumption DEF MbTypeOK

LEMMA TypeInit == MbInit => MbTypeOK
BY MinorBatchAssumption DEF MbInit, MbTypeOK, Kernels, Buffers

LEMMA TypeStart ==
    ASSUME MbTypeOK, NEW d \in Kernels, Start(d)
    PROVE  MbTypeOK'
<1>1. content' \in [Buffers -> 0 .. n \cup {Garbage}]
  BY DEF MbTypeOK, Start
<1>2. intact' \subseteq running' /\ running' \subseteq Kernels
  BY DEF MbTypeOK, Start
<1> QED
  BY <1>1, <1>2 DEF MbTypeOK, Start, Kernels

LEMMA TypeFinish ==
    ASSUME MbTypeOK, NEW d \in Kernels, Finish(d)
    PROVE  MbTypeOK'
<1>1. Iteration(d) + 1 \in 0 .. n
  BY SizeIsPositive DEF Kernels, Iteration
<1>2. content' \in [Buffers -> 0 .. n \cup {Garbage}]
  BY <1>1 DEF MbTypeOK, Finish
<1> QED
  BY <1>2 DEF MbTypeOK, Finish, Kernels

LEMMA TypeNext == ASSUME MbTypeOK, [MbNext]_mbVars PROVE MbTypeOK'
<1>1. CASE Encode
  BY <1>1, SizeIsPositive DEF MbTypeOK, Encode, Kernels
<1>2. CASE \E d \in Kernels : Start(d) \/ Finish(d)
  BY <1>2, TypeStart, TypeFinish
<1>3. CASE UNCHANGED mbVars
  BY <1>3 DEF MbTypeOK, mbVars, Kernels
<1> QED
  BY <1>1, <1>2, <1>3 DEF MbNext, Completed

LEMMA OrderInit == MbInit => InOrder
<1> SUFFICES ASSUME MbInit PROVE Between(0)
  BY MinorBatchAssumption DEF MbInit, InOrder
<1>1. Ready(0)
  BY DEF MbInit, Ready, CurX, CurY, Buffers
<1> QED
  BY <1>1 DEF MbInit, Between

\* A kernel starts only when all earlier ones have finished.
LEMMA StartsNext ==
    ASSUME MbTypeOK, NEW f \in 0 .. 2 * n, Between(f) \/ During(f),
           NEW d \in Kernels, Start(d)
    PROVE  d = f + 1 /\ Between(f)
<1>0. d \in Nat \ {0} /\ f \in Nat
  BY SizeIsPositive DEF Kernels
<1>1. d \notin 1 .. f /\ d \notin running
  BY DEF Start, Between, During
<1>2. d > 1 => d - 1 \in 1 .. f
  BY <1>0, Chain DEF Start, Barrier, Between, During
<1>3. d = f + 1
  BY <1>0, <1>1, <1>2
<1> QED
  BY <1>1, <1>3 DEF During

LEMMA OrderStart ==
    ASSUME MbTypeOK, InOrder, NEW d \in Kernels, Start(d)
    PROVE  InOrder'
<1>1. PICK f \in 0 .. 2 * n : Between(f) \/ During(f)
  BY DEF InOrder
<1>2. d = f + 1 /\ Between(f)
  BY <1>1, StartsNext
<1>3. f \in Nat /\ n \in Nat /\ f < 2 * n
  BY <1>2, SizeIsPositive DEF Kernels
<1>4. PICK j \in Nat : f = 2 * j \/ f = 2 * j + 1
  <2>1. f = 2 * (f \div 2) \/ f = 2 * (f \div 2) + 1
    BY <1>3
  <2> QED
    BY <1>3, <2>1
<1>5. Kept(f)' /\ InputsRight(d)
  <2>1. ~Clash(Reads(d), Writes(d))
    BY <1>2, <1>3, NoAliasing
  <2>2. CASE f = 2 * j
    <3>1. d = 2 * j + 1 /\ Writes(d) = {NextX(j), "outRef"}
      BY <1>2, <2>2, PrimalAccess
    <3>2. CurY(j) \notin Writes(d) /\ CurY(j) \in Buffers
      BY <1>3, <3>1, Distinct
    <3>3. content[CurX(j)] = j /\ content[CurY(j)] = j
      BY <1>2, <2>2 DEF Between, Ready
    <3>4. content'[CurY(j)] = j /\ CurY(j)' = CurY(j)
      BY <3>2, <3>3 DEF Start, CurY, NextY, Alternate
    <3>5. Kept(f)'
      BY <2>2, <3>4 DEF Kept
    <3> QED
      BY <2>1, <3>1, <3>3, <3>5, KernelShape DEF InputsRight
  <2>3. CASE f = 2 * j + 1
    <3>1. d = 2 * j + 2 /\ Writes(d) = {NextY(j)} \cup {b \in {"outYRef"} : spmm}
      BY <1>2, <2>3, DualAccess
    <3>2. NextX(j) \notin Writes(d) /\ NextX(j) \in Buffers /\ "outRef" \notin Writes(d)
      BY <1>3, <3>1, Distinct
    <3>3. content[NextX(j)] = j + 1 /\ content["outRef"] = j + 1 /\ content[CurY(j)] = j
      BY <1>2, <2>3 DEF Between, Ready
    <3>4. content'[NextX(j)] = j + 1 /\ content'["outRef"] = j + 1 /\ NextX(j)' = NextX(j)
      BY <3>2, <3>3 DEF Start, NextX, Alternate, Buffers
    <3>5. Kept(f)'
      BY <2>3, <3>4 DEF Kept
    <3> QED
      BY <2>1, <3>1, <3>3, <3>5, KernelShape DEF InputsRight
  <2> QED
    BY <1>4, <2>2, <2>3
<1>6. running' = {f + 1} /\ intact' = {f + 1} /\ finished' = 1 .. f /\ n' = n
  BY <1>2, <1>5 DEF Start, Between, MbTypeOK
<1>7. During(f)'
  BY <1>3, <1>5, <1>6 DEF During
<1> QED
  BY <1>6, <1>7 DEF InOrder

LEMMA OrderFinish ==
    ASSUME MbTypeOK, InOrder, NEW d \in Kernels, Finish(d)
    PROVE  InOrder'
<1>1. PICK f \in 0 .. 2 * n : During(f)
  BY DEF InOrder, Finish, Between
<1>2. d = f + 1 /\ d \in intact /\ f < 2 * n
  BY <1>1 DEF During, Finish
<1>3. f \in Nat /\ n \in Nat
  BY SizeIsPositive
<1>4. PICK j \in Nat : f = 2 * j \/ f = 2 * j + 1
  <2>1. f = 2 * (f \div 2) \/ f = 2 * (f \div 2) + 1
    BY <1>3
  <2> QED
    BY <1>3, <2>1
<1>5. /\ \A b \in Buffers \cap Writes(d) : content'[b] = Iteration(d) + 1
      /\ \A b \in Buffers \ Writes(d) : content'[b] = content[b]
  BY <1>2 DEF Finish
<1>6. Ready(f + 1)'
  <2>0. /\ NextX(j)' = NextX(j) /\ CurY(j)' = CurY(j)
        /\ CurX(j + 1)' = NextX(j) /\ CurY(j + 1)' = NextY(j) /\ spmm' = spmm
    BY DEF Finish, NextX, NextY, CurX, CurY, Alternate
  <2>1. CASE f = 2 * j
    <3>1. d = 2 * j + 1 /\ Iteration(d) = j /\ Writes(d) = {NextX(j), "outRef"}
      BY <1>2, <2>1, PrimalAccess, KernelShape
    <3>2. content'[NextX(j)] = j + 1 /\ content'["outRef"] = j + 1
      BY <1>3, <1>5, <3>1, Distinct DEF Buffers
    <3>3. content'[CurY(j)] = j
      BY <1>1, <1>3, <1>5, <2>1, <3>1, Distinct DEF During, Kept
    <3> QED
      BY <2>0, <2>1, <3>2, <3>3 DEF Ready
  <2>2. CASE f = 2 * j + 1
    <3>1. /\ d = 2 * j + 2 /\ Iteration(d) = j
          /\ Writes(d) = {NextY(j)} \cup {b \in {"outYRef"} : spmm}
      BY <1>2, <2>2, DualAccess, KernelShape
    <3>2. content'[NextY(j)] = j + 1 /\ (spmm => content'["outYRef"] = j + 1)
      BY <1>3, <1>5, <3>1, Distinct DEF Buffers
    <3>3. content'[NextX(j)] = j + 1 /\ content'["outRef"] = j + 1
      BY <1>1, <1>3, <1>5, <2>2, <3>1, Distinct DEF During, Kept, Buffers
    <3>4. f + 1 = 2 * (j + 1)
      BY <2>2
    <3>5. ASSUME NEW k \in Nat PROVE (f + 1 = 2 * k => k = j + 1) /\ f + 1 # 2 * k + 1
      BY <3>4
    <3> QED
      BY <2>0, <3>2, <3>3, <3>5 DEF Ready
  <2> QED
    BY <1>4, <2>1, <2>2
<1>7. running' = {} /\ finished' = 1 .. f + 1 /\ n' = n
  BY <1>1, <1>2, <1>3 DEF During, Finish
<1>8. Between(f + 1)'
  BY <1>6, <1>7 DEF Between
<1>9. f + 1 \in 0 .. 2 * n'
  BY <1>2, <1>3, <1>7
<1> QED
  BY <1>8, <1>9 DEF InOrder

LEMMA OrderKept ==
    ASSUME InOrder, UNCHANGED <<n, spmm, running, intact, finished, content>>
    PROVE  InOrder'
BY DEF InOrder, Between, During, Ready, Kept, NextX, NextY, CurX, CurY, Alternate

LEMMA OrderNext ==
    ASSUME MbTypeOK, InOrder, [MbNext]_mbVars
    PROVE  InOrder'
<1>1. CASE Encode
  BY <1>1, OrderKept DEF Encode
<1>2. CASE \E d \in Kernels : Start(d) \/ Finish(d)
  BY <1>2, OrderStart, OrderFinish
<1>3. CASE UNCHANGED mbVars
  BY <1>3, OrderKept DEF mbVars
<1> QED
  BY <1>1, <1>2, <1>3 DEF MbNext, Completed

LEMMA BatchStarts == MbInit => MbInv
BY TypeInit, OrderInit DEF MbInv

LEMMA InvariantHolds == MbSpec => []MbInv
<1>1. MbInit => MbInv
  BY BatchStarts
<1>2. MbInv /\ [MbNext]_mbVars => MbInv'
  BY TypeNext, OrderNext DEF MbInv
<1> QED
  BY <1>1, <1>2, PTL DEF MbSpec

\* A finished batch has its last iteration in every public output.
LEMMA OutputsAtEnd == ASSUME MbInv PROVE OutputsComplete
<1> SUFFICES ASSUME finished = Kernels
             PROVE  \A b \in {"outX", "outRef", "outY"} \cup {o \in {"outYRef"} : spmm} :
                        content[b] = n
  BY DEF OutputsComplete
<1>1. n \in Nat /\ n > 0
  BY SizeIsPositive DEF MbInv
<1>2. PICK f \in 0 .. 2 * n : Between(f) \/ During(f)
  BY DEF MbInv, InOrder
<1>3. f = 2 * n
  <2>1. 2 * n \in finished /\ finished = 1 .. f
    BY <1>1, <1>2 DEF Kernels, Between, During
  <2> QED
    BY <1>1, <2>1
<1>4. Between(f)
  BY <1>2, <1>3 DEF During
<1>5. CurX(n) = "outX" /\ CurY(n) = "outY"
  BY <1>1, Alternation DEF CurX, CurY, NextX, NextY
<1> QED
  BY <1>1, <1>3, <1>4, <1>5 DEF Between, Ready

(***************************************************************************)
(* For every batch size: buffers hold only iterations of the batch.        *)
(***************************************************************************)
THEOREM MinorBatchTypeCorrect == MbSpec => []MbTypeOK
BY InvariantHolds, PTL DEF MbInv

(***************************************************************************)
(* For every batch size, every kernel runs on the inputs of its iteration. *)
(***************************************************************************)
THEOREM MinorBatchIntact == MbSpec => []EveryKernelIntact
<1>1. MbInv => EveryKernelIntact
  BY DEF MbInv, InOrder, Between, During, EveryKernelIntact
<1> QED
  BY <1>1, InvariantHolds, PTL

(***************************************************************************)
(* For every batch size, of either parity, the last iteration is in the    *)
(* public outputs when the command buffer completes.                       *)
(***************************************************************************)
THEOREM MinorBatchOutputs == MbSpec => []OutputsComplete
BY OutputsAtEnd, InvariantHolds, PTL

(***************************************************************************)
(* The composition.  Either no batch is in flight, or the one in flight is *)
(* that of the block's next iterations and satisfies its own invariant.    *)
(***************************************************************************)
Idle ==
    /\ n = 0 /\ spmm \in BOOLEAN /\ encoded = 0
    /\ running = {} /\ intact = {} /\ finished = {}

InFlight == pc = "minor" /\ UseMinorBatch /\ i < block /\ n = MinorCount /\ MbInv

NbInv == IbInv /\ (Idle \/ InFlight)

\* The iterations up to the next evaluation fit a batch primitive.
LEMMA DispatchFits ==
    ASSUME IbInv, pc = "minor", i < block
    PROVE  MinorCount \in BatchSizes
<1>0. i \in Nat /\ i > 0 /\ block \in Nat
  BY BlockAssumption DEF IbInv, Place
<1>1. Batch \in Nat /\ Batch > 0 /\ Batch <= MaxNative
  BY BatchFits DEF IbInv, Place
<1>2. (i - 1) % Batch \in 0 .. Batch - 1
  BY <1>0, <1>1, DivMod
<1>3. MinorCount \in 1 .. MaxNative
  BY <1>0, <1>1, <1>2, BlockAssumption DEF MinorCount, Least
<1> QED
  BY <1>3, NativeAssumption

LEMMA NbInit == Init => NbInv
BY InvInit DEF Init, NbInv, Idle

\* The host runs iterations of its own only while no batch is in flight.
LEMMA HostRefines == ASSUME NbInv, HostStep PROVE IbNext /\ NbInv'
<1>1. IbNext /\ UNCHANGED mbVars /\ n = 0
  BY DEF HostStep, IbNext
<1>2. Idle
  BY <1>1, SizeIsPositive DEF NbInv, InFlight, MbInv
<1>3. Idle'
  BY <1>1, <1>2 DEF Idle, mbVars
<1>4. IbInv'
  BY <1>1, InvNext DEF NbInv
<1> QED
  BY <1>1, <1>3, <1>4 DEF NbInv

\* A dispatched batch starts from the block's iterates.
LEMMA DispatchStarts == ASSUME NbInv, Dispatch PROVE UNCHANGED ibVars /\ NbInv'
<1>1. UNCHANGED ibVars /\ pc = "minor" /\ UseMinorBatch /\ i < block /\ n = 0
  BY DEF Dispatch
<1>2. Idle
  BY <1>1, SizeIsPositive DEF NbInv, InFlight, MbInv
<1>3. MinorCount \in BatchSizes
  BY <1>1, DispatchFits DEF NbInv
<1>4. MbInit'
  BY <1>2, <1>3 DEF Dispatch, Idle, MbInit
<1>5. MbInv'
  BY <1>4, BatchStarts, PTL
<1>6. MinorCount' = MinorCount /\ UseMinorBatch' = UseMinorBatch
  BY <1>1 DEF ibVars, MinorCount, UseMinorBatch, Batch
<1>7. InFlight'
  BY <1>1, <1>5, <1>6 DEF Dispatch, InFlight, ibVars
<1>8. IbInv'
  BY <1>1, InvNext DEF NbInv
<1> QED
  BY <1>1, <1>7, <1>8 DEF NbInv

\* While the GPU works, the block waits and the batch keeps its invariant.
LEMMA GpuKeeps == ASSUME NbInv, Gpu PROVE UNCHANGED ibVars /\ NbInv'
<1>1. UNCHANGED ibVars /\ n > 0 /\ MbNext
  BY DEF Gpu, MbNext
<1>2. InFlight
  BY <1>1 DEF NbInv, Idle
<1>3. MbInv'
  BY <1>1, <1>2, TypeNext, OrderNext DEF InFlight, MbInv
<1>4. n' = n
  BY DEF Gpu, Encode, Start, Finish
<1>5. MinorCount' = MinorCount /\ UseMinorBatch' = UseMinorBatch
  BY <1>1 DEF ibVars, MinorCount, UseMinorBatch, Batch
<1>6. InFlight'
  BY <1>1, <1>2, <1>3, <1>4, <1>5 DEF InFlight, ibVars
<1>7. IbInv'
  BY <1>1, InvNext DEF NbInv
<1> QED
  BY <1>1, <1>6, <1>7 DEF NbInv

\* What a finished batch returns is its last iteration.
LEMMA CollectedAreLast ==
    ASSUME NbInv, Collect, NEW b \in DOMAIN Output
    PROVE  Returned(b) = total + i + MinorCount - 1
<1>1. n > 0 /\ finished = Kernels
  BY DEF Collect
<1>2. InFlight
  BY <1>1 DEF NbInv, Idle
<1>3. content[Output[b]] = n
  <2>1. Output[b] \in {"outX", "outRef", "outY"}
    BY DEF Output
  <2> QED
    BY <1>1, <1>2, <2>1, OutputsAtEnd DEF InFlight, OutputsComplete
<1>4. n \in Nat /\ n # Garbage
  BY <1>2, SizeIsPositive, MinorBatchAssumption DEF InFlight, MbInv
<1>5. Returned(b) = total + i - 1 + n
  BY <1>3, <1>4 DEF Returned
<1>6. total \in Nat /\ i \in Nat /\ n = MinorCount
  BY <1>2 DEF NbInv, IbInv, Place, InFlight
<1> QED
  BY <1>4, <1>5, <1>6

\* Collecting a batch is the block's step over the batch's iterations.
LEMMA CollectRefines == ASSUME NbInv, Collect PROVE MinorBatch /\ NbInv'
<1>1. InFlight
  BY DEF NbInv, Idle, Collect
<1>2. path.fused
  <2>1. Batch > 1 => path.fused
    BY BatchFits DEF NbInv, IbInv, Place
  <2> QED
    BY <1>1, <2>1 DEF InFlight, UseMinorBatch
<1>3. Written(FALSE) = DOMAIN Output
  BY <1>2 DEF Written, Output
<1>4. \A b \in DOMAIN Output : Returned(b) = total + i + MinorCount - 1
  BY CollectedAreLast
<1>5. at' = [b \in Iterates |-> IF b \in Written(FALSE) THEN total + i + MinorCount - 1
                               ELSE at[b]]
  BY <1>3, <1>4 DEF Collect
<1>6. Proceed(i, MinorCount, (i + MinorCount - 1) % Batch = 0)
  BY <1>1 DEF InFlight, Collect
<1>7. MinorBatch
  BY <1>1, <1>5, <1>6 DEF MinorBatch, Iterate, InFlight, Collect
<1>8. spmm \in BOOLEAN
  BY <1>1 DEF InFlight, MbInv, MbTypeOK
<1>9. Idle'
  BY <1>8 DEF Idle, Collect, Release
<1>10. IbInv'
  BY <1>7, InvNext DEF NbInv, IbNext
<1> QED
  BY <1>7, <1>9, <1>10 DEF NbInv

LEMMA NbNext == ASSUME NbInv, [Next]_vars PROVE [IbNext]_ibVars /\ NbInv'
<1>1. CASE UNCHANGED ibVars /\ UNCHANGED mbVars
  <2>1. IbInv'
    BY <1>1, InvNext DEF NbInv
  <2>2. CASE Idle
    BY <1>1, <2>1, <2>2 DEF NbInv, Idle, mbVars
  <2>3. CASE InFlight
    <3>1. MbInv'
      BY <1>1, <2>3, TypeNext, OrderNext DEF InFlight, MbInv
    <3>2. InFlight'
      BY <1>1, <2>3, <3>1
         DEF InFlight, ibVars, mbVars, MinorCount, UseMinorBatch, Batch
    <3> QED
      BY <1>1, <2>1, <3>2 DEF NbInv
  <2> QED
    BY <1>1, <2>2, <2>3 DEF NbInv
<1>2. CASE HostStep
  BY <1>2, HostRefines
<1>3. CASE Dispatch
  BY <1>3, DispatchStarts
<1>4. CASE Gpu
  BY <1>4, GpuKeeps
<1>5. CASE Collect
  BY <1>5, CollectRefines DEF IbNext
<1>6. Rests => UNCHANGED ibVars /\ UNCHANGED mbVars
  BY DEF Rests, Stopped
<1>7. UNCHANGED vars => UNCHANGED ibVars /\ UNCHANGED mbVars
  BY DEF vars
<1> QED
  BY <1>1, <1>2, <1>3, <1>4, <1>5, <1>6, <1>7 DEF Next

LEMMA CompositionInvariant == Spec => []NbInv
BY NbInit, NbNext, PTL DEF Spec

(***************************************************************************)
(* For every block length, batch capacity and footprint, and however the   *)
(* GPU overlaps kernels, a block whose minor iterations run as native      *)
(* batches is the block that runs its iterations one by one.               *)
(***************************************************************************)
THEOREM NativeImplementsBlock == Spec => ImplementsBlock
<1>1. Init => IbInit
  BY DEF Init
<1>2. NbInv /\ [Next]_vars => [IbNext]_ibVars
  BY NbNext
<1> QED
  BY <1>1, <1>2, CompositionInvariant, PTL DEF Spec, ImplementsBlock, IbSpec

(***************************************************************************)
(* So, with native batches too, every iteration runs once, with consecutive*)
(* Halpern indices since the restart,                                      *)
(***************************************************************************)
THEOREM NativeConsecutive == Spec => []HalpernConsecutive
BY NativeImplementsBlock, IterationsConsecutive, PTL DEF ImplementsBlock

(***************************************************************************)
(* and a checkpoint or a restart's baseline compares iterates of a single, *)
(* materialized iteration, although batches left them in GPU buffers.      *)
(***************************************************************************)
THEOREM NativeSnapshots == Spec => []SnapshotsCoherent
BY NativeImplementsBlock, ComparesOneIteration, PTL DEF ImplementsBlock

(***************************************************************************)
(* In every batch a block dispatches, no kernel runs on wrong inputs or    *)
(* has them overwritten.                                                   *)
(***************************************************************************)
THEOREM NativeIntact == Spec => []EveryKernelIntact
<1>1. NbInv => EveryKernelIntact
  BY DEF NbInv, Idle, InFlight, MbInv, InOrder, Between, During, EveryKernelIntact
<1> QED
  BY <1>1, CompositionInvariant, PTL
==============================================================================
