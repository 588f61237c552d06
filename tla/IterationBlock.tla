---------------------------- MODULE IterationBlock ----------------------------
(***************************************************************************)
(* One block of PDHG iterations in MlxPdlpSolver::solve(): PdhgSolve's     *)
(* RunBlock in detail.  The first iteration is a minor or a major one, the *)
(* middle is encoded one by one or in native batches, the last one is      *)
(* major, and between evaluations the iterations pile up in MLX's lazy     *)
(* graph.  An iterate is named by the iteration that wrote it.             *)
(***************************************************************************)
EXTENDS Integers, Sequences

CONSTANTS
    Blocks,      \* lengths of the blocks between two evaluations
    Sizes,       \* bytes a lazy iteration keeps alive, (2n + m) floats
    Target,      \* target_bytes
    MaxNative,    \* max_metal_batch_iterations
    Limit        \* bound on the iterations explored

ASSUME BlockAssumption ==
    /\ Blocks \subseteq Nat \ {0} /\ Sizes \subseteq Nat \ {0}
    /\ Target \in Nat /\ MaxNative \in Nat \ {0} /\ Limit \in Nat

VARIABLES
    path,        \* fused kernels, native batching and problem size of this solve
    pc,
    block,       \* block_iterations
    i,           \* offset of the next iteration in the block
    doRestart,   \* do_restart
    total, inner,\* total_count, inner_count
    at,          \* iteration that wrote each of the iterates
    lazy,        \* iterations in the lazy graph
    graph,       \* size the lazy graph grew to
    weights      \* history: Halpern indices k of the iterations since a restart

ibVars == <<path, pc, block, i, doRestart, total, inner, at, lazy, graph, weights>>
counts == <<path, total, inner>>

Paths == {p \in [fused : BOOLEAN, batching : BOOLEAN, size : Sizes] :
              p.batching => p.fused}
Iterates == {"x_cur", "x_ref", "x_pdhg", "dual_slack", "y_cur", "y_ref", "y_pdhg"}
Snapshots == {"x_pdhg", "dual_slack", "y_pdhg"}

Least(a, b) == IF a <= b THEN a ELSE b

\* fused_eval_batch_size: clamp(target_bytes / per_iteration_bytes, 1, max).
Batch ==
    IF ~path.fused \/ path.size > Target THEN 1
    ELSE Least(Target \div path.size, MaxNative)
UseMinorBatch == path.batching /\ Batch > 1

\* The iterates an iteration writes; fused minor kernels keep no reflected dual.
Written(major) ==
    {"x_cur", "x_ref", "y_cur"}
        \cup (IF major THEN Snapshots ELSE {})
        \cup {r \in {"y_ref"} : major \/ ~path.fused}

\* Iterations first .. first + count - 1 of the block, with their weights.
Proceed(first, count, eval) ==
    /\ weights' = weights \o [j \in 1 .. count |-> inner + first + j - 1]
    /\ graph' = lazy + count
    /\ lazy' = IF eval \/ ~path.fused THEN 0 ELSE lazy + count

Iterate(first, count, major, eval) ==
    /\ at' = [b \in Iterates |-> IF b \in Written(major) THEN total + first + count - 1
                                 ELSE at[b]]
    /\ Proceed(first, count, eval)

------------------------------------------------------------------------------
IbInit ==
    /\ path \in Paths
    /\ pc = "first" /\ block = 0 /\ i = 1 /\ doRestart = FALSE
    /\ total = 0 /\ inner = 0 /\ lazy = 0 /\ graph = 0 /\ weights = <<>>
    /\ at = [b \in Iterates |-> 0]

DEV_MajorIfAlone(b) == b = 1

\* "A restart needs a materialized first PDHG candidate".
FirstIsMajor(b) == doRestart \/ b = 1

FirstIteration ==
    /\ pc = "first"
    /\ \E b \in Blocks :
         /\ total + b <= Limit
         /\ block' = b
         /\ IF ~UseMinorBatch \/ FirstIsMajor(b)
            THEN i' = 2 /\ Iterate(1, 1, FirstIsMajor(b), FirstIsMajor(b) \/ Batch = 1)
            ELSE i' = 1 /\ UNCHANGED <<at, weights, graph, lazy>>
    /\ pc' = IF doRestart THEN "baseline" ELSE "minor"
    /\ UNCHANGED <<counts, doRestart>>

\* initial_fixed_point_error = fixed_point_error after the first iteration.
MeasureBaseline ==
    /\ pc = "baseline"
    /\ doRestart' = FALSE /\ pc' = "minor"
    /\ UNCHANGED <<counts, block, i, at, lazy, graph, weights>>

\* Batches end where the lazy graph is evaluated, or before the last iteration.
MinorCount == Least(block - i, Batch - ((i - 1) % Batch))

MinorBatch ==
    /\ pc = "minor" /\ UseMinorBatch /\ i < block
    /\ Iterate(i, MinorCount, FALSE, (i + MinorCount - 1) % Batch = 0)
    /\ i' = i + MinorCount
    /\ UNCHANGED <<counts, pc, block, doRestart>>

DEV_MinorLoopToTheEnd ==
    /\ pc = "minor" /\ ~UseMinorBatch /\ i <= block
    /\ Iterate(i, 1, FALSE, i % Batch = 0)
    /\ i' = i + 1
    /\ UNCHANGED <<counts, pc, block, doRestart>>

MinorIteration ==
    /\ pc = "minor" /\ ~UseMinorBatch /\ i < block
    /\ Iterate(i, 1, FALSE, i % Batch = 0)
    /\ i' = i + 1
    /\ UNCHANGED <<counts, pc, block, doRestart>>

LastIteration ==
    /\ pc = "minor" /\ i >= block
    /\ IF block > 1 THEN Iterate(block, 1, TRUE, TRUE)
       ELSE UNCHANGED <<at, weights, graph, lazy>>
    /\ pc' = "evaluate"
    /\ UNCHANGED <<counts, block, i, doRestart>>

\* Fixed-point error and residuals; a restart or a recovery starts a new epoch.
Evaluate ==
    /\ pc = "evaluate"
    /\ total' = total + block /\ doRestart' \in BOOLEAN
    /\ IF doRestart' THEN inner' = 0 /\ weights' = <<>>
       ELSE inner' = inner + block /\ UNCHANGED weights
    /\ pc' = "first"
    /\ UNCHANGED <<path, block, i, at, lazy, graph>>

Stopped == pc = "first" /\ (\A b \in Blocks : total + b > Limit) /\ UNCHANGED ibVars

IbNext ==
    \/ FirstIteration \/ MeasureBaseline \/ MinorBatch \/ MinorIteration
    \/ LastIteration \/ Evaluate \/ Stopped

IbSpec == IbInit /\ [][IbNext]_ibVars

------------------------------------------------------------------------------
IbTypeOK ==
    /\ path \in Paths /\ pc \in {"first", "baseline", "minor", "evaluate"}
    /\ block \in Blocks \cup {0} /\ i \in Nat /\ doRestart \in BOOLEAN
    /\ total \in Nat /\ inner \in Nat /\ lazy \in Nat /\ graph \in Nat
    /\ at \in [Iterates -> Nat] /\ weights \in Seq(Nat)
    /\ pc \in {"baseline", "minor"} => block \in Blocks /\ i \in {1, 2} \cup 1 .. block

(***************************************************************************)
(* Every iteration of a block runs exactly once and in order, with the     *)
(* Halpern index k = inner_count + offset that counts iterations since the *)
(* restart, however the block is cut into kernels and batches.             *)
(***************************************************************************)
HalpernConsecutive ==
    /\ weights = [j \in 1 .. Len(weights) |-> j]
    /\ pc = "evaluate" => Len(weights) = inner + block

(***************************************************************************)
(* Fixed-point errors are differences of iterates of one and the same,     *)
(* materialized iteration: the last one for a checkpoint, the first one    *)
(* for a restart's baseline ("restart/residual checks see live data").     *)
(***************************************************************************)
SnapshotsCoherent ==
    /\ pc = "evaluate" => lazy = 0 /\ \A b \in Iterates : at[b] = total + block
    /\ pc = "baseline" => lazy = 0 /\ \A b \in Iterates : at[b] = total + 1

(***************************************************************************)
(* "Bound the lazy batch graph to a fixed intermediate footprint": more    *)
(* than one iteration is kept lazy only while they fit, and never more     *)
(* than a native batch can hold.                                           *)
(***************************************************************************)
LazyGraphBounded ==
    graph <= 1 \/ (graph * path.size <= Target /\ graph <= MaxNative)
==============================================================================
