------------------------------- MODULE Scaling -------------------------------
(***************************************************************************)
(* The units a solve works in.  Preconditioning multiplies the matrix, the *)
(* bounds, the objective and the starting point by factors per row and per *)
(* column and by two global ones; every reported residual, objective and   *)
(* certificate has them undone.  A quantity is represented by the logarithm*)
(* of what the stored numbers have been multiplied by: 0 is the model's    *)
(* own unit.  The matrix storage is shared by a batch's lanes, which adopt *)
(* the factors of the solver that prepared it.                             *)
(***************************************************************************)
EXTENDS Integers

CONSTANTS
    Rows, Cols,
    Factors,        \* logarithms of the factors a pass may choose
    GlobalFactors,  \* logarithms of the bound and the objective scale
    Lanes,          \* the members of a shared-matrix batch
    MaxRuiz         \* l_inf_ruiz_iterations

ASSUME ScalingAssumption ==
    /\ Factors \subseteq Int /\ GlobalFactors \subseteq Int
    /\ MaxRuiz \in Nat
    /\ "base" \notin Lanes

VARIABLES
    mode,       \* [dense |-> no sparse backend, batch |-> prepared for lanes]
    params,     \* [bound |-> bound_objective_rescaling, warm |-> reduced-cost start]
    matrix,     \* SolverMatrixStorage
    s,          \* MlxPdlpState of each solver
    at,         \* the stage of initialize_solve each solver is in
    ruiz        \* iterations of the Ruiz pass left, and the factors it collects

vars == <<mode, params, matrix, s, at, ruiz>>

Solvers == {"base"} \union Lanes

Base == s["base"]

ZeroRow == [r \in Rows |-> 0]
ZeroCol == [c \in Cols |-> 0]
ZeroMatrix == [e \in Rows \X Cols |-> 0]

Plus(f, g) == [i \in DOMAIN f |-> f[i] + g[i]]
Minus(f, g) == [i \in DOMAIN f |-> f[i] - g[i]]
Shift(f, k) == [i \in DOMAIN f |-> f[i] + k]
ScaledMatrix(A, con, var) == [e \in Rows \X Cols |-> A[e] - con[e[1]] - var[e[2]]]

Fresh ==
    [A |-> ZeroMatrix, AT |-> ZeroMatrix,
     conBound |-> ZeroRow, varBound |-> ZeroCol, obj |-> ZeroCol,
     x |-> ZeroCol, y |-> ZeroRow, z |-> ZeroCol,
     con |-> ZeroRow, var |-> ZeroCol, bound |-> 0, objective |-> 0,
     norms |-> [obj |-> ZeroCol, con |-> ZeroRow], stepOn |-> ZeroMatrix,
     copied |-> {}]   \* the factors of the certificates copied out, once known

Init ==
    /\ mode \in [dense : BOOLEAN, batch : BOOLEAN]
    /\ params \in [bound : BOOLEAN, warm : BOOLEAN]
    /\ matrix = [host |-> ZeroMatrix, con |-> ZeroRow, var |-> ZeroCol,
                 active |-> FALSE, csr |-> ZeroMatrix, csrT |-> ZeroMatrix]
    /\ s = [w \in Solvers |-> Fresh]
    /\ at = [w \in Solvers |-> IF w = "base" THEN "norms" ELSE "waits"]
    /\ ruiz \in [left : 0 .. MaxRuiz, con : {ZeroRow}, var : {ZeroCol}]

Goes(w, from, to) == at[w] = from /\ at' = [at EXCEPT ![w] = to]

\* The vectors of a problem in the units of new factors.
ScaledProblem(p, con, var) ==
    [p EXCEPT !.conBound = Minus(@, con), !.y = Plus(@, con), !.obj = Minus(@, var),
              !.varBound = Plus(@, var), !.x = Plus(@, var)]

\* The norms of the objective and of the bounds, before any scaling.
MeasureNorms(w) ==
    /\ Goes(w, "norms", IF w = "base" THEN "geometric" ELSE "adopt")
    /\ s' = [s EXCEPT ![w].norms = [obj |-> s[w].obj, con |-> s[w].conBound]]
    /\ UNCHANGED <<mode, params, matrix, ruiz>>

(* ------------------------------------------------------------- a pass *)
ApplySparseScaling(con, var) ==
    [matrix EXCEPT !.host = ScaledMatrix(@, con, var),
                   !.con = Plus(@, con), !.var = Plus(@, var)]

\* publish_sparse_rescaling
Published(p, stored) == [p EXCEPT !.con = stored.con, !.var = stored.var]

Pass(con, var) ==
    /\ \/ /\ mode.dense
          /\ LET A == ScaledMatrix(Base.A, con, var)
                 p == ScaledProblem(Base, con, var)
             IN  s' = [s EXCEPT !["base"] = [p EXCEPT !.con = Plus(@, con), !.var = Plus(@, var),
                                                      !.A = A, !.AT = A]]
          /\ UNCHANGED matrix
       \/ /\ ~mode.dense
          /\ matrix' = ApplySparseScaling(con, var)
          /\ s' = [s EXCEPT !["base"] = Published(ScaledProblem(@, con, var), matrix')]
    /\ UNCHANGED <<mode, params, ruiz>>

SomePass == \E con \in [Rows -> Factors], var \in [Cols -> Factors] : Pass(con, var)
NoPass == UNCHANGED <<mode, params, matrix, s, ruiz>>

GeometricMean == Goes("base", "geometric", "curtisReid") /\ (SomePass \/ NoPass)
CurtisReid == Goes("base", "curtisReid", "ruiz") /\ (SomePass \/ NoPass)
PockChambolle ==
    /\ Goes("base", "pockChambolle", IF mode.batch THEN "backend" ELSE "bound")
    /\ SomePass \/ NoPass

\* An iteration of Ruiz leaves the published factors, and the dense A^T, be.
RuizIteration ==
    /\ at["base"] = "ruiz" /\ ruiz.left > 0
    /\ \E con \in [Rows -> Factors], var \in [Cols -> Factors] :
          /\ ruiz' = [left |-> ruiz.left - 1, con |-> Plus(ruiz.con, con), var |-> Plus(ruiz.var, var)]
          /\ \/ /\ mode.dense
                /\ s' = [s EXCEPT !["base"] = [ScaledProblem(Base, con, var) EXCEPT
                                                    !.A = ScaledMatrix(@, con, var)]]
                /\ UNCHANGED matrix
             \/ /\ ~mode.dense
                /\ matrix' = ApplySparseScaling(con, var)
                /\ s' = [s EXCEPT !["base"] = ScaledProblem(@, con, var)]
    /\ UNCHANGED <<mode, params, at>>

\* Deviation: the transpose of the matrix is left to the next pass.
DEV_TransposeLater ==
    /\ ruiz.left = 0 /\ Goes("base", "ruiz", "pockChambolle")
    /\ s' = [s EXCEPT !["base"] =
                IF mode.dense
                THEN [Base EXCEPT !.con = Plus(@, ruiz.con), !.var = Plus(@, ruiz.var)]
                ELSE Published(Base, matrix)]
    /\ ruiz' = [ruiz EXCEPT !.con = ZeroRow, !.var = ZeroCol]
    /\ UNCHANGED <<mode, params, matrix>>

\* The factors collected are published once, after the last iteration.
RuizEnd ==
    /\ ruiz.left = 0 /\ Goes("base", "ruiz", "pockChambolle")
    /\ s' = [s EXCEPT !["base"] =
                IF mode.dense
                THEN [Base EXCEPT !.con = Plus(@, ruiz.con), !.var = Plus(@, ruiz.var), !.AT = Base.A]
                ELSE Published(Base, matrix)]
    /\ ruiz' = [ruiz EXCEPT !.con = ZeroRow, !.var = ZeroCol]
    /\ UNCHANGED <<mode, params, matrix>>

(* ---------------------------------------------- lanes and global scales *)
\* A lane begins once the solver that prepares the matrix is ready, with its matrix.
Enter(w) ==
    /\ w # "base" /\ mode.batch /\ at["base"] = "ready"
    /\ Goes(w, "waits", "norms")
    /\ s' = [s EXCEPT ![w].A = Base.A, ![w].AT = Base.AT]
    /\ UNCHANGED <<mode, params, matrix, ruiz>>

Adopt(w) ==
    /\ Goes(w, "adopt", "bound")
    /\ s' = [s EXCEPT ![w] = [ScaledProblem(s[w], Base.con, Base.var) EXCEPT
                                 !.con = Base.con, !.var = Base.var]]
    /\ UNCHANGED <<mode, params, matrix, ruiz>>

\* mlx_bound_objective_scaling; the solver that prepares a batch goes without.
BoundObjective(w) ==
    /\ Goes(w, "bound", "backend")
    /\ \/ /\ params.bound
          /\ \E k \in GlobalFactors, o \in GlobalFactors :
                s' = [s EXCEPT ![w] =
                        [s[w] EXCEPT !.conBound = Shift(@, k), !.varBound = Shift(@, k),
                                     !.x = Shift(@, k), !.obj = Shift(@, o), !.y = Shift(@, o),
                                     !.bound = k, !.objective = o]]
       \/ ~params.bound /\ UNCHANGED s
    /\ UNCHANGED <<mode, params, matrix, ruiz>>

\* The sparse backend takes the values once; a lane finds it prepared.
PrepareBackend(w) ==
    /\ Goes(w, "backend", "step")
    /\ matrix' = IF ~mode.dense /\ ~matrix.active
                 THEN [matrix EXCEPT !.active = TRUE, !.csr = matrix.host, !.csrT = matrix.host] ELSE matrix
    /\ UNCHANGED <<mode, params, s, ruiz>>

\* The matrix the iterations multiply by, and its transpose.
Operator(w) == IF mode.dense THEN s[w].A ELSE matrix.csr
Adjoint(w) == IF mode.dense THEN s[w].AT ELSE matrix.csrT

\* The step size, from an estimate of this matrix's norm or adopted; and the
\* reduced cost, from the caller in the model's units or from the objective.
StepSize(w) ==
    /\ Goes(w, "step", "ready")
    /\ s' = [s EXCEPT ![w].stepOn = IF w = "base" THEN Operator(w) ELSE Base.stepOn,
                      ![w].z = IF params.warm THEN Shift(Minus(ZeroCol, s[w].var), s[w].objective)
                               ELSE s[w].obj]
    /\ UNCHANGED <<mode, params, matrix, ruiz>>

\* The first certificate copied out fixes the factors of the later ones.
CopyCertificate(w) ==
    /\ at[w] = "ready" /\ s[w].copied = {}
    /\ s' = [s EXCEPT ![w].copied =
                {IF mode.dense THEN [var |-> s[w].var, con |-> s[w].con]
                 ELSE [var |-> matrix.var, con |-> matrix.con]}]
    /\ UNCHANGED <<mode, params, matrix, at, ruiz>>

Rests == (\A w \in Solvers : s[w].copied # {} \/ at[w] = "waits")
         /\ at["base"] = "ready" /\ UNCHANGED vars

Next ==
    \/ GeometricMean \/ CurtisReid \/ RuizIteration \/ RuizEnd \/ PockChambolle
    \/ \E w \in Solvers :
          \/ Enter(w) \/ MeasureNorms(w) \/ Adopt(w) \/ BoundObjective(w)
          \/ PrepareBackend(w) \/ StepSize(w) \/ CopyCertificate(w)
    \/ Rests

Spec == Init /\ [][Next]_vars

Stages == {"norms", "geometric", "curtisReid", "ruiz", "pockChambolle", "waits", "adopt",
           "bound", "backend", "step", "ready"}

RowFactors == [Rows -> Int]
ColFactors == [Cols -> Int]
Matrices == [Rows \X Cols -> Int]

Problems ==
    [A : Matrices, AT : Matrices,
     conBound : RowFactors, varBound : ColFactors, obj : ColFactors,
     x : ColFactors, y : RowFactors, z : ColFactors,
     con : RowFactors, var : ColFactors, bound : Int, objective : Int,
     norms : [obj : ColFactors, con : RowFactors], stepOn : Matrices,
     copied : SUBSET [var : ColFactors, con : RowFactors]]

Storages ==
    [host : Matrices, con : RowFactors, var : ColFactors,
     active : BOOLEAN, csr : Matrices, csrT : Matrices]

TypeOK ==
    /\ mode \in [dense : BOOLEAN, batch : BOOLEAN]
    /\ params \in [bound : BOOLEAN, warm : BOOLEAN]
    /\ matrix \in Storages
    /\ s \in [Solvers -> Problems]
    /\ at \in [Solvers -> Stages]
    /\ ruiz \in [left : Nat, con : RowFactors, var : ColFactors]

(* -------------------------------------------------- what is reported *)
\* Deviation: the residuals are rid of the global scales alone.
DEV_GlobalScalesOnly(w) ==
    LET p == s[w]
        global == p.bound + p.objective
    IN  {p.conBound[r] - p.bound : r \in Rows} \union {p.obj[c] - p.objective : c \in Cols}
        \union {p.obj[c] + p.x[c] - global : c \in Cols}
        \union {p.conBound[r] + p.y[r] - global : r \in Rows}
        \union {p.varBound[c] + p.z[c] - global : c \in Cols}

\* build_residual_metrics, publish_residual_metrics: the residuals and the terms
\* of the two objectives, unscaled.
ReportedMetrics(w) ==
    LET p == s[w]
        global == p.bound + p.objective
    IN  {p.conBound[r] + p.con[r] - p.bound : r \in Rows}
        \union {p.obj[c] + p.var[c] - p.objective : c \in Cols}
        \union {p.obj[c] + p.x[c] - global : c \in Cols}
        \union {p.conBound[r] + p.y[r] - global : r \in Rows}
        \union {p.varBound[c] + p.z[c] - global : c \in Cols}

\* copy_unscaled_certificate, and audit_ray of a batch.
ReportedPoint(w) ==
    UNION {{s[w].x[c] - k.var[c] - s[w].bound : c \in Cols}
           \union {s[w].z[c] + k.var[c] - s[w].objective : c \in Cols}
           \union {s[w].y[r] - k.con[r] - s[w].objective : r \in Rows} : k \in s[w].copied}

\* Its lanes run in lockstep with a sparse backend only.
ReportedRays(w) ==
    IF mode.dense \/ ~mode.batch THEN {}
    ELSE {s[w].x[c] - matrix.var[c] - s[w].bound : c \in Cols}
         \union {s[w].y[r] - matrix.con[r] - s[w].objective : r \in Rows}

\* The matrix Curtis-Reid fits: the original coefficients, divided when dense.
FittedMatrix == IF mode.dense THEN ScaledMatrix(matrix.host, Base.con, Base.var)
                ELSE matrix.host

(* ------------------------------------------------------- properties *)
(***************************************************************************)
(* Every pass that rescales one array of the problem rescales all the      *)
(* others to match: rows of A x are in the units of the row bounds, A^T y  *)
(* in those of the objective, x in those of its bounds, and the factors    *)
(* published describe the matrix, except that Ruiz publishes at its end:   *)
(* so the equilibration Curtis-Reid solves is that of the matrix it scales.*)
(* When a solver is ready, and so is a lane whose problem is scaled apart  *)
(* from the matrix it shares, the iterations multiply by this matrix and by*)
(* its transpose, and the step size comes from its norm.                   *)
(***************************************************************************)
UnitsAgree ==
    \A w \in Solvers : at[w] \notin {"waits", "norms", "adopt"} =>
        LET p == s[w]
            A == IF mode.dense THEN p.A ELSE matrix.host
        IN  /\ \A r \in Rows, c \in Cols : /\ A[<<r, c>>] + p.x[c] = p.conBound[r]
                                          /\ A[<<r, c>>] + p.y[r] = p.obj[c]
            /\ p.x = p.varBound
            /\ at[w] # "ruiz" => A = ScaledMatrix(ZeroMatrix, p.con, p.var)
            /\ at[w] = "curtisReid" => A = FittedMatrix
            /\ at[w] = "ready" => p.z = p.obj /\ {Operator(w), Adjoint(w), p.stepOn} = {A}

(***************************************************************************)
(* What a solver reports of a point is in the units of the caller's model: *)
(* the residuals, both objectives, the norms they are compared with, the   *)
(* certificate copied out, and the rays a batch audits, are rid of every   *)
(* factor, of the passes, of the global scales and of the shared matrix.   *)
(***************************************************************************)
ReportsInOriginalUnits ==
    \A w \in Solvers : at[w] = "ready" =>
        /\ ReportedMetrics(w) \union ReportedPoint(w) \union ReportedRays(w) \subseteq {0}
        /\ s[w].norms = [obj |-> ZeroCol, con |-> ZeroRow]
==============================================================================
