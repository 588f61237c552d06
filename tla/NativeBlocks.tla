---------------------------- MODULE NativeBlocks -----------------------------
(***************************************************************************)
(* Blocks of iterations and the native batches they dispatch, together: the*)
(* iterates a block goes on with are those the GPU left in the batch's     *)
(* public outputs.  MLX may run a dispatched batch later than this, but no *)
(* later than its outputs are read, and one batch at a time.               *)
(***************************************************************************)
EXTENDS IterationBlock, MinorBatch

\* A batch primitive takes every number of iterations a block asks for.
ASSUME NativeAssumption == 1 .. MaxNative \subseteq BatchSizes

vars == <<ibVars, mbVars>>

\* The public outputs a batch returns its iterates in.
Output == [x_cur |-> "outX", x_ref |-> "outRef", y_cur |-> "outY"]

\* No batch is in flight at first, and none is left when one is collected.
Init ==
    /\ IbInit
    /\ spmm \in BOOLEAN /\ n = 0 /\ encoded = 0
    /\ running = {} /\ intact = {} /\ finished = {}
    /\ content = [b \in Buffers |-> Garbage]

Release ==
    /\ n' = 0 /\ encoded' = 0 /\ running' = {} /\ intact' = {} /\ finished' = {}
    /\ content' = [b \in Buffers |-> Garbage]
    /\ UNCHANGED spmm

\* A batch primitive built for the iterations up to the next evaluation.
Dispatch ==
    /\ pc = "minor" /\ UseMinorBatch /\ i < block /\ n = 0
    /\ n' = MinorCount
    /\ content' = [b \in Buffers |-> IF b \in {"inX", "inY"} THEN 0 ELSE Garbage]
    /\ UNCHANGED <<ibVars, spmm, encoded, running, intact, finished>>

Gpu ==
    /\ n > 0
    /\ Encode \/ \E d \in Kernels : Start(d) \/ Finish(d)
    /\ UNCHANGED ibVars

\* An output's content counts the iterations since the batch began.
Returned(b) ==
    IF content[Output[b]] = Garbage THEN Garbage
    ELSE total + i - 1 + content[Output[b]]

Collect ==
    /\ n > 0 /\ finished = Kernels
    /\ at' = [b \in Iterates |-> IF b \in DOMAIN Output THEN Returned(b) ELSE at[b]]
    /\ Proceed(i, n, (i + n - 1) % Batch = 0)
    /\ i' = i + n
    /\ Release
    /\ UNCHANGED <<counts, pc, block, doRestart>>

HostStep ==
    /\ FirstIteration \/ MeasureBaseline \/ MinorIteration \/ LastIteration \/ Evaluate
    /\ n = 0 /\ UNCHANGED mbVars

Rests == Stopped /\ UNCHANGED mbVars

Next == HostStep \/ Dispatch \/ Gpu \/ Collect \/ Rests

Spec == Init /\ [][Next]_vars

------------------------------------------------------------------------------
(***************************************************************************)
(* A block whose minor iterations run as overlapping GPU kernels is the    *)
(* block of IterationBlock: each batch returns, in one step, the iterates  *)
(* of its last iteration ("Last iteration always writes the public         *)
(* outputs"), whatever its parity and however its kernels overlapped.      *)
(***************************************************************************)
ImplementsBlock == IbSpec
==============================================================================
