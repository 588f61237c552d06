----------------------------- MODULE MinorBatch ------------------------------
(***************************************************************************)
(* A native batch of minor iterations (MetalMinorBatch, MetalSpmmMinorBatch)*)
(* encodes a primal and a dual kernel per iteration into one command        *)
(* buffer.  The iterates alternate between the public outputs and a pair of *)
(* scratch buffers so that the last iteration lands in the outputs; the     *)
(* reflected iterates always use their outputs.  The GPU may overlap kernels*)
(* that no barrier orders.  A buffer holds the number of the iteration that *)
(* it was written by; 0 is the state the batch starts from.                 *)
(***************************************************************************)
EXTENDS Integers

CONSTANTS
    BatchSizes,   \* numbers of iterations a batch is built for
    MaxBatch,     \* max_metal_batch_iterations
    Garbage       \* a buffer being written, or written from wrong inputs

ASSUME MinorBatchAssumption ==
    /\ MaxBatch \in Nat
    /\ BatchSizes \subseteq 1 .. MaxBatch  \* anything else is rejected
    /\ Garbage \notin Nat

VARIABLES
    n,         \* scalars_.size() or coefficients_.size()
    spmm,      \* MetalSpmmMinorBatch, which also returns the reflected dual
    encoded,   \* kernels encoded so far
    running,   \* kernels the GPU has started and not finished
    intact,    \* running kernels whose inputs were right and still are
    finished,  \* kernels that have finished
    content    \* what each buffer holds

mbVars == <<n, spmm, encoded, running, intact, finished, content>>

Buffers == {"inX", "inY", "outX", "outRef", "outY", "outYRef", "scrX", "scrY"}
Kernels == 1 .. 2 * n    \* odd: primal, even: dual

\* Iteration (from 0) a kernel belongs to.
Iteration(d) == (d - 1) \div 2
IsPrimal(d) == d % 2 = 1

DEV_AlternateFromStart(i) == i % 2 # 0

\* "Last iteration always writes the public outputs."
Alternate(i) == (n - 1 - i) % 2 # 0

NextX(i) == IF Alternate(i) THEN "scrX" ELSE "outX"

DEV_NextYInPlace(i) == "outY"
NextY(i) == IF Alternate(i) THEN "scrY" ELSE "outY"

CurX(i) == IF i = 0 THEN "inX" ELSE NextX(i - 1)
CurY(i) == IF i = 0 THEN "inY" ELSE NextY(i - 1)

Reads(d) ==
    LET i == Iteration(d)
    IN  IF IsPrimal(d) THEN {CurX(i), CurY(i)} ELSE {"outRef", CurY(i)}

Writes(d) ==
    LET i == Iteration(d)
    IN  IF IsPrimal(d) THEN {NextX(i), "outRef"} ELSE {NextY(i)} \cup {b \in {"outYRef"} : spmm}

Clash(S, T) == S \cap T # {}

\* "MLX's encoder inserts RAW/WAR barriers": must kernel e end before d begins?
Barrier(e, d) == Clash(Writes(e), Reads(d)) \/ Clash(Reads(e), Writes(d))

\* Does kernel d find what its iteration computes from?
InputsRight(d) ==
    LET i == Iteration(d)
    IN  /\ content[CurY(i)] = i
        /\ IF IsPrimal(d) THEN content[CurX(i)] = i ELSE content["outRef"] = i + 1
        /\ ~Clash(Reads(d), Writes(d))

------------------------------------------------------------------------------
MbInit ==
    /\ n \in BatchSizes /\ spmm \in BOOLEAN
    /\ encoded = 0 /\ running = {} /\ intact = {} /\ finished = {}
    /\ content = [b \in Buffers |-> IF b \in {"inX", "inY"} THEN 0 ELSE Garbage]

\* eval_gpu on the host: one more kernel in the command buffer.
Encode ==
    /\ encoded < 2 * n
    /\ encoded' = encoded + 1
    /\ UNCHANGED <<n, spmm, running, intact, finished, content>>

\* Starting a kernel spoils what running kernels still read or write of its
\* outputs.
Start(d) ==
    /\ d \in 1 .. encoded /\ d \notin running \cup finished
    /\ \A e \in 1 .. d - 1 : Barrier(e, d) => e \in finished
    /\ LET spoilt == {e \in running : Clash(Reads(e) \cup Writes(e), Writes(d))}
       IN  intact' = (intact \ spoilt)
                        \cup {k \in {d} : InputsRight(k) /\ spoilt = {}}
    /\ running' = running \cup {d}
    /\ content' = [b \in Buffers |-> IF b \in Writes(d) THEN Garbage ELSE content[b]]
    /\ UNCHANGED <<n, spmm, encoded, finished>>

Finish(d) ==
    /\ d \in running
    /\ content' = [b \in Buffers |->
                     IF b \in Writes(d)
                     THEN IF d \in intact THEN Iteration(d) + 1 ELSE Garbage
                     ELSE content[b]]
    /\ running' = running \ {d} /\ intact' = intact \ {d}
    /\ finished' = finished \cup {d}
    /\ UNCHANGED <<n, spmm, encoded>>

\* The outputs of a finished batch are read by the next primitive.
Completed == finished = Kernels /\ UNCHANGED mbVars

MbNext ==
    \/ Encode
    \/ \E d \in Kernels : Start(d) \/ Finish(d)
    \/ Completed

MbSpec == MbInit /\ [][MbNext]_mbVars

------------------------------------------------------------------------------
MbTypeOK ==
    /\ n \in BatchSizes /\ spmm \in BOOLEAN /\ encoded \in 0 .. 2 * n
    /\ running \subseteq Kernels /\ finished \subseteq Kernels
    /\ intact \subseteq running
    /\ content \in [Buffers -> 0 .. n \cup {Garbage}]

(***************************************************************************)
(* When every kernel has finished, every public output holds the last      *)
(* iteration, whatever the parity of the batch and however the GPU         *)
(* overlapped kernels ("Last iteration always writes the public outputs.   *)
(* Reusing the reflected output is safe").                                 *)
(***************************************************************************)
OutputsComplete ==
    finished = Kernels =>
        \A b \in {"outX", "outRef", "outY"} \cup {o \in {"outYRef"} : spmm} :
            content[b] = n

(***************************************************************************)
(* No kernel ever runs on wrong inputs or has them overwritten: every      *)
(* dispatch computes its own iteration from the one before.                *)
(***************************************************************************)
EveryKernelIntact == running \subseteq intact
==============================================================================
