------------------------------ MODULE SolveMps -------------------------------
(***************************************************************************)
(* solve_mps of the Python package: a model is loaded, its arrays copied   *)
(* into Python's, the objective of a maximization negated, a solver        *)
(* constructed -- which checks the CSR arrays and builds the transpose --  *)
(* and the objective values of its result turned back.  The solver's run   *)
(* itself is taken as a minimization over Points.                          *)
(***************************************************************************)
EXTENDS MpsText

CONSTANT Coordinates    \* the values a variable of a solution may have

ASSUME SolveMpsAssumption == Coordinates \subseteq Int

VARIABLES
    step,       \* where solve_mps is
    model,      \* the MpsProblem of the binding, or NoProblem
    captured,   \* the solver's A^T, or Refused
    result      \* the SolveResult

vars == <<mpsVars, step, model, captured, result>>

Refused == [rowPtr |-> <<>>]
NoResult == [primal |-> 0]

Init ==
    /\ MpsInit
    /\ step = "load" /\ model = NoProblem /\ captured = Refused /\ result = NoResult

\* "failed to load MPS file"
Raise ==
    /\ step = "load" /\ pc = "null"
    /\ step' = "raised"
    /\ UNCHANGED <<mpsVars, model, captured, result>>

\* The binding copies every array; the handle lives as long as the object.
CopyModel ==
    /\ step = "load" /\ pc = "loaded"
    /\ model' = problem
    /\ step' = "construct"
    /\ UNCHANGED <<mpsVars, captured, result>>

Negated(v) == [j \in DOMAIN v |-> -v[j]]
MinObjective == IF model.maximize THEN Negated(model.objective) ELSE model.objective

\* The constant keeps its sign when the objective is negated.
DEV_ConstantKept == model.constant

MinConstant == IF model.maximize THEN -model.constant ELSE model.constant

\* The checks of capture_sparse_matrix.
ValidCsr(p) ==
    /\ \A i \in 0 .. p.m : p.rowPtr[i] \in 0 .. p.nnz /\ (i > 0 => p.rowPtr[i] >= p.rowPtr[i - 1])
    /\ p.rowPtr[p.m] = p.nnz
    /\ \A k \in DOMAIN p.colInd : p.colInd[k] \in 1 .. p.n

RowAt(p, k) == CHOOSE i \in 1 .. p.m : p.rowPtr[i - 1] < k /\ k <= p.rowPtr[i]

\* Takes the rows in the order of A's entries.
DEV_TransposedUnpermuted(p) ==
    [rowPtr |-> Pointers(p.colInd, p.n),
     source |-> [q \in DOMAIN p.colInd |-> Source(p.colInd, q)],
     colInd |-> [q \in DOMAIN p.colInd |-> RowAt(p, q)]]

\* A^T in CSR: the rows its entries come from and their places in A.
Transposed(p) ==
    [rowPtr |-> Pointers(p.colInd, p.n),
     source |-> [q \in DOMAIN p.colInd |-> Source(p.colInd, q)],
     colInd |-> [q \in DOMAIN p.colInd |-> RowAt(p, Source(p.colInd, q))]]

Construct ==
    /\ step = "construct"
    /\ captured' = IF ValidCsr(model) THEN Transposed(model) ELSE Refused
    /\ step' = "solve"
    /\ UNCHANGED <<mpsVars, model, result>>

Dot(c, x) == MapThenSumSet(LAMBDA j : c[j] * x[j], DOMAIN c)
Points == [1 .. model.n -> Coordinates]
MinValue(x) == Dot(MinObjective, x) + MinConstant

\* The solver returns a minimizer, and a dual value that may fall short.
Solve ==
    /\ step = "solve"
    /\ \E x \in Points, short \in {0, 1} :
          /\ \A z \in Points : MinValue(x) <= MinValue(z)
          /\ result' = [x |-> x, primal |-> MinValue(x), dual |-> MinValue(x) - short]
    /\ step' = "solved"
    /\ UNCHANGED <<mpsVars, model, captured>>

Return ==
    /\ step = "solved"
    /\ result' = IF model.maximize
                 THEN [result EXCEPT !.primal = -@, !.dual = -@] ELSE result
    /\ step' = "returned"
    /\ UNCHANGED <<mpsVars, model, captured>>

\* The loader runs to its end; the problem is freed when Python drops it.
Load == MpsNext /\ (step = "load" => pc # "loaded") /\ UNCHANGED <<step, model, captured, result>>

Rests ==
    /\ step = "raised" \/ (step = "returned" /\ pc = "freed")
    /\ UNCHANGED vars

Next == Load \/ Raise \/ CopyModel \/ Construct \/ Solve \/ Return \/ Rests

Spec == Init /\ [][Next]_vars

------------------------------------------------------------------------------
(***************************************************************************)
(* Whatever model was loaded, also from a file cut short, the solver       *)
(* accepts its arrays, and A^T holds every entry of A exactly once, in the *)
(* row of its column: entries at one place stay apart and additive         *)
(* ("duplicate coordinates remain additive exactly as they are in the      *)
(* input CSR matrix").                                                     *)
(***************************************************************************)
Transposes(t, p) ==
    /\ ToSet(t.source) = DOMAIN p.values
    /\ \A j \in 1 .. p.n :
          \A q \in t.rowPtr[j - 1] + 1 .. t.rowPtr[j] :
              LET k == t.source[q]
              IN  p.colInd[k] = j /\ t.colInd[q] = RowAt(p, k)

TransposeExact ==
    step \notin {"load", "raised", "construct"} =>
        captured # Refused /\ Transposes(captured, model)

(***************************************************************************)
(* What solve_mps returns is in the model's own convention: the value of   *)
(* the point it returns, constant included, is the best in the sense of    *)
(* the file, and the dual value bounds it from the other side.             *)
(***************************************************************************)
Better(a, b) == IF model.maximize THEN a >= b ELSE a <= b
SenseRestored ==
    step = "returned" =>
        LET worth(x) == Dot(model.objective, x) + model.constant
        IN  /\ result.primal = worth(result.x)
            /\ \A z \in Points : Better(result.primal, worth(z))
            /\ Better(result.dual, result.primal)
==============================================================================
