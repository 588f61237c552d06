---------------------------- MODULE ScalingProofs -----------------------------
(***************************************************************************)
(* For any number of rows, columns, passes and lanes, and any factors: the *)
(* arrays of a problem stay in matching units, and what is reported is in  *)
(* the units of the caller's model.                                        *)
(***************************************************************************)
EXTENDS Scaling, TLAPS

\* A problem whose arrays have been scaled by these factors, apart from its
\* global scales; and a matrix that has.
ScaledBy(p, con, var) ==
    /\ \A r \in Rows : p.conBound[r] = p.bound - con[r] /\ p.y[r] = con[r] + p.objective
    /\ \A c \in Cols : /\ p.varBound[c] = var[c] + p.bound /\ p.x[c] = var[c] + p.bound
                       /\ p.obj[c] = p.objective - var[c]

MatrixScaledBy(A, con, var) == \A r \in Rows, c \in Cols : A[<<r, c>>] = 0 - con[r] - var[c]

\* The factors of the solver that prepares the matrix, those that Ruiz has
\* applied and not published included.
ConCollected == Plus(Base.con, ruiz.con)
VarCollected == Plus(Base.var, ruiz.var)

PassStages == {"norms", "geometric", "curtisReid", "ruiz", "pockChambolle"}
Unscaled == {"waits", "norms", "adopt"}

BaseInv ==
    /\ at["base"] \notin {"waits", "adopt"}
    /\ ScaledBy(Base, ConCollected, VarCollected)
    /\ at["base"] # "ruiz" => ruiz.con = ZeroRow /\ ruiz.var = ZeroCol
    /\ at["base"] = "norms" => Base.con = ZeroRow /\ Base.var = ZeroCol

MatrixInv ==
    /\ mode.dense => /\ MatrixScaledBy(Base.A, ConCollected, VarCollected)
                     /\ MatrixScaledBy(Base.AT, Base.con, Base.var)
                     /\ matrix.host = ZeroMatrix
    /\ ~mode.dense => /\ MatrixScaledBy(matrix.host, ConCollected, VarCollected)
                      /\ matrix.con = ConCollected /\ matrix.var = VarCollected
    /\ matrix.active => matrix.csr = matrix.host /\ matrix.csrT = matrix.host
    /\ ~mode.dense => (matrix.active <=> at["base"] \in {"step", "ready"})

\* A lane starts unscaled and adopts the factors of the matrix it shares.
LaneOk(w) ==
    /\ ScaledBy(s[w], s[w].con, s[w].var)
    /\ at[w] \in Unscaled => s[w].con = ZeroRow /\ s[w].var = ZeroCol
    /\ at[w] # "waits" => at["base"] = "ready" /\ s[w].A = Base.A /\ s[w].AT = Base.AT
    /\ at[w] \notin Unscaled => s[w].con = Base.con /\ s[w].var = Base.var
    /\ at[w] \notin PassStages \ {"norms"}

LaneInv == \A w \in Lanes : LaneOk(w)

\* What each solver has of its own: norms of the unscaled model, global scales
\* once chosen, and, when ready, a step size, a reduced cost and certificates.
SolverOk(w) ==
    /\ at[w] \in PassStages \cup Unscaled \cup {"bound"} =>
          s[w].bound = 0 /\ s[w].objective = 0
    /\ at[w] \notin {"waits", "norms"} => s[w].norms = [obj |-> ZeroCol, con |-> ZeroRow]
    /\ at[w] = "ready" => /\ s[w].z = s[w].obj
                          /\ s[w].stepOn = IF mode.dense THEN Base.A ELSE matrix.host
    /\ \A k \in s[w].copied : at[w] = "ready" /\ k.var = s[w].var /\ k.con = s[w].con

SolverInv == \A w \in Solvers : SolverOk(w)

ScalingInv == TypeOK /\ BaseInv /\ MatrixInv /\ LaneInv /\ SolverInv

------------------------------------------------------------------------------
(* Factors and matrices.                                                   *)

LEMMA RowFacts ==
    \A f, g \in RowFactors :
        /\ Plus(f, g) \in RowFactors /\ Minus(f, g) \in RowFactors
        /\ \A r \in Rows : /\ f[r] \in Int /\ g[r] \in Int
                           /\ Plus(f, g)[r] = f[r] + g[r] /\ Minus(f, g)[r] = f[r] - g[r]
BY DEF Plus, Minus, RowFactors

LEMMA ColFacts ==
    \A f, g \in ColFactors :
        /\ Plus(f, g) \in ColFactors /\ Minus(f, g) \in ColFactors
        /\ \A c \in Cols : /\ f[c] \in Int /\ g[c] \in Int
                           /\ Plus(f, g)[c] = f[c] + g[c] /\ Minus(f, g)[c] = f[c] - g[c]
BY DEF Plus, Minus, ColFactors

LEMMA ShiftFacts ==
    /\ \A f \in RowFactors, k \in Int :
          Shift(f, k) \in RowFactors /\ \A r \in Rows : Shift(f, k)[r] = f[r] + k
    /\ \A f \in ColFactors, k \in Int :
          Shift(f, k) \in ColFactors /\ \A c \in Cols : Shift(f, k)[c] = f[c] + k
BY DEF Shift, RowFactors, ColFactors

LEMMA PlusZero ==
    ASSUME NEW S, NEW f \in [S -> Int], NEW g \in [S -> Int]
    PROVE  /\ Plus(f, [i \in S |-> 0]) = f
           /\ (\A i \in S : g[i] = f[i]) => g = f
<1>1. Plus(f, [i \in S |-> 0]) = [i \in S |-> f[i]]
  BY DEF Plus
<1>2. [i \in S |-> f[i]] = f
  OBVIOUS
<1>3. ASSUME \A i \in S : g[i] = f[i] PROVE g = f
  BY <1>3
<1> QED
  BY <1>1, <1>2, <1>3

LEMMA MatrixFacts ==
    ASSUME NEW A \in Matrices, NEW con \in RowFactors, NEW var \in ColFactors
    PROVE  /\ ScaledMatrix(A, con, var) \in Matrices
           /\ \A r \in Rows, c \in Cols :
                 ScaledMatrix(A, con, var)[<<r, c>>] = A[<<r, c>>] - con[r] - var[c]
<1>1. \A e \in Rows \X Cols :
        /\ e[1] \in Rows /\ e[2] \in Cols
        /\ A[e] \in Int /\ con[e[1]] \in Int /\ var[e[2]] \in Int
  BY DEF Matrices, RowFactors, ColFactors
<1>2. ScaledMatrix(A, con, var) \in Matrices
  BY <1>1 DEF ScaledMatrix, Matrices
<1>3. ASSUME NEW r \in Rows, NEW c \in Cols
      PROVE  ScaledMatrix(A, con, var)[<<r, c>>] = A[<<r, c>>] - con[r] - var[c]
  BY DEF ScaledMatrix
<1> QED
  BY <1>2, <1>3

LEMMA ZeroFacts == ZeroRow \in RowFactors /\ ZeroCol \in ColFactors /\ ZeroMatrix \in Matrices
BY DEF ZeroRow, ZeroCol, ZeroMatrix, RowFactors, ColFactors, Matrices

LEMMA MatrixScaled ==
    ASSUME NEW A \in Matrices, NEW con0 \in RowFactors, NEW var0 \in ColFactors,
           NEW con \in RowFactors, NEW var \in ColFactors,
           MatrixScaledBy(A, con0, var0)
    PROVE  MatrixScaledBy(ScaledMatrix(A, con, var), Plus(con0, con), Plus(var0, var))
<1>1. \A r \in Rows, c \in Cols :
        /\ ScaledMatrix(A, con, var)[<<r, c>>] = A[<<r, c>>] - con[r] - var[c]
        /\ A[<<r, c>>] = 0 - con0[r] - var0[c]
  BY MatrixFacts DEF MatrixScaledBy
<1>2. /\ \A r \in Rows : Plus(con0, con)[r] = con0[r] + con[r] /\ con0[r] \in Int /\ con[r] \in Int
      /\ \A c \in Cols : Plus(var0, var)[c] = var0[c] + var[c] /\ var0[c] \in Int /\ var[c] \in Int
  BY RowFacts, ColFacts
<1>3. ASSUME NEW r \in Rows, NEW c \in Cols
      PROVE  ScaledMatrix(A, con, var)[<<r, c>>]
               = 0 - Plus(con0, con)[r] - Plus(var0, var)[c]
  <2>1. /\ ScaledMatrix(A, con, var)[<<r, c>>] = 0 - con0[r] - var0[c] - con[r] - var[c]
        /\ Plus(con0, con)[r] = con0[r] + con[r] /\ con0[r] \in Int /\ con[r] \in Int
        /\ Plus(var0, var)[c] = var0[c] + var[c] /\ var0[c] \in Int /\ var[c] \in Int
    BY <1>1, <1>2
  <2> QED
    BY <2>1
<1> QED
  BY <1>3 DEF MatrixScaledBy

\* Two matrices scaled by the same factors are the same.
LEMMA SameMatrix ==
    ASSUME NEW A \in Matrices, NEW B \in Matrices, NEW con, NEW var,
           MatrixScaledBy(A, con, var), MatrixScaledBy(B, con, var)
    PROVE  A = B
<1>1. ASSUME NEW r \in Rows, NEW c \in Cols PROVE A[<<r, c>>] = B[<<r, c>>]
  BY DEF MatrixScaledBy
<1>2. ASSUME NEW e \in Rows \X Cols PROVE A[e] = B[e]
  <2>1. PICK r \in Rows, c \in Cols : e = <<r, c>>
    OBVIOUS
  <2> QED
    BY <1>1, <2>1
<1>3. A = [e \in Rows \X Cols |-> A[e]] /\ B = [e \in Rows \X Cols |-> B[e]]
  BY DEF Matrices
<1> QED
  BY <1>2, <1>3

LEMMA ScaledProblemFacts ==
    ASSUME NEW p \in Problems, NEW con0 \in RowFactors, NEW var0 \in ColFactors,
           NEW con \in RowFactors, NEW var \in ColFactors, ScaledBy(p, con0, var0)
    PROVE  /\ ScaledProblem(p, con, var) \in Problems
           /\ ScaledBy(ScaledProblem(p, con, var), Plus(con0, con), Plus(var0, var))
           /\ \A q : q = ScaledProblem(p, con, var) =>
                 /\ q.A = p.A /\ q.AT = p.AT /\ q.con = p.con /\ q.var = p.var
                 /\ q.bound = p.bound /\ q.objective = p.objective /\ q.z = p.z
                 /\ q.norms = p.norms /\ q.stepOn = p.stepOn /\ q.copied = p.copied
<1> DEFINE q == ScaledProblem(p, con, var)
<1>1. /\ p.conBound \in RowFactors /\ p.y \in RowFactors /\ p.obj \in ColFactors
      /\ p.varBound \in ColFactors /\ p.x \in ColFactors /\ p.bound \in Int /\ p.objective \in Int
  BY DEF Problems
<1>2. /\ q.conBound = Minus(p.conBound, con) /\ q.y = Plus(p.y, con)
      /\ q.obj = Minus(p.obj, var) /\ q.varBound = Plus(p.varBound, var) /\ q.x = Plus(p.x, var)
      /\ q.bound = p.bound /\ q.objective = p.objective
  BY DEF ScaledProblem, Problems
<1>3. /\ Minus(p.conBound, con) \in RowFactors /\ Plus(p.y, con) \in RowFactors
      /\ Minus(p.obj, var) \in ColFactors /\ Plus(p.varBound, var) \in ColFactors
      /\ Plus(p.x, var) \in ColFactors
  BY <1>1, RowFacts, ColFacts
<1>4. q \in Problems
  BY <1>3 DEF ScaledProblem, Problems
<1>5. ASSUME NEW r \in Rows
      PROVE  /\ Plus(con0, con)[r] = con0[r] + con[r] /\ con0[r] \in Int /\ con[r] \in Int
             /\ Minus(p.conBound, con)[r] = p.conBound[r] - con[r]
             /\ Plus(p.y, con)[r] = p.y[r] + con[r]
  <2>1. Plus(con0, con)[r] = con0[r] + con[r] /\ con0[r] \in Int /\ con[r] \in Int
    BY RowFacts
  <2>2. Minus(p.conBound, con)[r] = p.conBound[r] - con[r]
    BY <1>1, RowFacts
  <2>3. Plus(p.y, con)[r] = p.y[r] + con[r]
    BY <1>1, RowFacts
  <2> QED
    BY <2>1, <2>2, <2>3
<1>6. ASSUME NEW c \in Cols
      PROVE  /\ Plus(var0, var)[c] = var0[c] + var[c] /\ var0[c] \in Int /\ var[c] \in Int
             /\ Minus(p.obj, var)[c] = p.obj[c] - var[c]
             /\ Plus(p.varBound, var)[c] = p.varBound[c] + var[c]
             /\ Plus(p.x, var)[c] = p.x[c] + var[c]
  <2>1. Plus(var0, var)[c] = var0[c] + var[c] /\ var0[c] \in Int /\ var[c] \in Int
    BY ColFacts
  <2>2. Minus(p.obj, var)[c] = p.obj[c] - var[c]
    BY <1>1, ColFacts
  <2>3. Plus(p.varBound, var)[c] = p.varBound[c] + var[c]
    BY <1>1, ColFacts
  <2>4. Plus(p.x, var)[c] = p.x[c] + var[c]
    BY <1>1, ColFacts
  <2> QED
    BY <2>1, <2>2, <2>3, <2>4
<1>7. ScaledBy(q, Plus(con0, con), Plus(var0, var))
  <2> HIDE DEF q
  <2> QED
    BY <1>1, <1>2, <1>5, <1>6 DEF ScaledBy
<1>8. /\ q.A = p.A /\ q.AT = p.AT /\ q.con = p.con /\ q.var = p.var /\ q.z = p.z
      /\ q.norms = p.norms /\ q.stepOn = p.stepOn /\ q.copied = p.copied
  BY DEF ScaledProblem, Problems
<1> QED
  BY <1>2, <1>4, <1>7, <1>8

------------------------------------------------------------------------------
(* One solver takes a step.                                                *)

LEMMA Replaced ==
    ASSUME NEW f \in [Solvers -> Problems], NEW w \in Solvers, NEW p \in Problems,
           NEW g, g = [f EXCEPT ![w] = p]
    PROVE  g \in [Solvers -> Problems] /\ g[w] = p /\ \A v \in Solvers \ {w} : g[v] = f[v]
OBVIOUS

LEMMA Moved ==
    ASSUME at \in [Solvers -> Stages], NEW w \in Solvers, NEW from, NEW to \in Stages,
           Goes(w, from, to)
    PROVE  /\ at' \in [Solvers -> Stages] /\ at[w] = from /\ at'[w] = to
           /\ \A v \in Solvers \ {w} : at'[v] = at[v]
BY DEF Goes

\* ScaledBy reads these fields alone.
LEMMA ScaledAlike ==
    ASSUME NEW p, NEW q, NEW con, NEW var, ScaledBy(p, con, var),
           q.conBound = p.conBound, q.y = p.y, q.obj = p.obj, q.varBound = p.varBound,
           q.x = p.x, q.bound = p.bound, q.objective = p.objective
    PROVE  ScaledBy(q, con, var)
BY DEF ScaledBy

LEMMA LanesWait ==
    ASSUME TypeOK, LaneInv, at["base"] # "ready", NEW w \in Lanes
    PROVE  at[w] = "waits"
BY DEF LaneInv, LaneOk

\* A step of the solver that prepares the matrix finds every lane waiting.
LEMMA BaseFrame ==
    ASSUME TypeOK, LaneInv, SolverInv, at["base"] # "ready",
           \A v \in Solvers \ {"base"} : s'[v] = s[v] /\ at'[v] = at[v]
    PROVE  LaneInv' /\ \A w \in Lanes : SolverOk(w)'
<1> SUFFICES ASSUME NEW w \in Lanes PROVE LaneOk(w)' /\ SolverOk(w)'
  BY DEF LaneInv
<1>1. at[w] = "waits" /\ at'[w] = "waits" /\ s'[w] = s[w] /\ LaneOk(w) /\ SolverOk(w)
  BY LanesWait, ScalingAssumption DEF LaneInv, SolverInv, Solvers
<1>2. LaneOk(w)'
  BY <1>1 DEF LaneOk, Unscaled, PassStages, ScaledBy
<1>3. SolverOk(w)'
  BY <1>1 DEF SolverOk, Unscaled, PassStages
<1> QED
  BY <1>2, <1>3

\* A lane's step leaves the matrix and the solver that prepared it alone.
LEMMA LaneFrame ==
    ASSUME ScalingInv, NEW w0 \in Lanes, UNCHANGED <<mode, matrix, ruiz>>,
           \A v \in Solvers \ {w0} : s'[v] = s[v] /\ at'[v] = at[v]
    PROVE  /\ s'["base"] = s["base"] /\ at'["base"] = at["base"]
           /\ BaseInv' /\ MatrixInv'
           /\ \A w \in Lanes \ {w0} : LaneOk(w)'
           /\ \A w \in Solvers \ {w0} : SolverOk(w)'
<1>1. s'["base"] = s["base"] /\ at'["base"] = at["base"]
  BY ScalingAssumption DEF Solvers
<1>2. BaseInv' /\ MatrixInv'
  BY <1>1 DEF ScalingInv, BaseInv, MatrixInv, Base, ConCollected, VarCollected,
              ScaledBy, MatrixScaledBy
<1>3. ASSUME NEW w \in Lanes \ {w0} PROVE LaneOk(w)'
  <2>1. LaneOk(w) /\ s'[w] = s[w] /\ at'[w] = at[w]
    BY DEF ScalingInv, LaneInv, Solvers
  <2> QED
    BY <1>1, <2>1 DEF LaneOk, Base, ScaledBy
<1>4. ASSUME NEW w \in Solvers \ {w0} PROVE SolverOk(w)'
  <2>1. SolverOk(w) /\ s'[w] = s[w] /\ at'[w] = at[w]
    BY DEF ScalingInv, SolverInv
  <2> QED
    BY <1>1, <2>1 DEF SolverOk, Base
<1> QED
  BY <1>1, <1>2, <1>3, <1>4

------------------------------------------------------------------------------
(* The passes.                                                             *)

\* Factors collected and not published are those of Ruiz.
LEMMA Collected ==
    ASSUME TypeOK, BaseInv
    PROVE  /\ Base \in Problems /\ Base.con \in RowFactors /\ Base.var \in ColFactors
           /\ ruiz.con \in RowFactors /\ ruiz.var \in ColFactors
           /\ ConCollected \in RowFactors /\ VarCollected \in ColFactors
           /\ at["base"] # "ruiz" => ConCollected = Base.con /\ VarCollected = Base.var
<1>1. Base \in Problems /\ ruiz.con \in RowFactors /\ ruiz.var \in ColFactors
  BY DEF TypeOK, Base, Solvers
<1>2. Base.con \in RowFactors /\ Base.var \in ColFactors
  BY <1>1 DEF Problems
<1>3. ConCollected \in RowFactors /\ VarCollected \in ColFactors
  BY <1>1, <1>2, RowFacts, ColFacts DEF ConCollected, VarCollected
<1>4. Plus(Base.con, ZeroRow) = Base.con
  <2>1. Base.con \in [Rows -> Int]
    BY <1>2 DEF RowFactors
  <2> QED
    BY <2>1, PlusZero, ZeroFacts DEF ZeroRow, RowFactors
<1>5. Plus(Base.var, ZeroCol) = Base.var
  <2>1. Base.var \in [Cols -> Int]
    BY <1>2 DEF ColFactors
  <2> QED
    BY <2>1, PlusZero, ZeroFacts DEF ZeroCol, ColFactors
<1>6. at["base"] # "ruiz" => ConCollected = Base.con /\ VarCollected = Base.var
  BY <1>4, <1>5 DEF BaseInv, ConCollected, VarCollected
<1> QED
  BY <1>1, <1>2, <1>3, <1>6

\* What a pass has to leave behind: problem q and matrix m, scaled alike by the
\* factors q publishes.
Consistent(q, m) ==
    /\ ScaledBy(q, q.con, q.var)
    /\ mode.dense => /\ MatrixScaledBy(q.A, q.con, q.var)
                     /\ MatrixScaledBy(q.AT, q.con, q.var)
                     /\ m.host = ZeroMatrix
    /\ ~mode.dense => MatrixScaledBy(m.host, q.con, q.var) /\ m.con = q.con /\ m.var = q.var

\* Nothing else of a problem is touched by a pass.
SameOtherwise(p, q) ==
    /\ q.bound = p.bound /\ q.objective = p.objective /\ q.z = p.z
    /\ q.norms = p.norms /\ q.stepOn = p.stepOn /\ q.copied = p.copied

LEMMA DensePass ==
    ASSUME NEW p \in Problems, NEW con \in RowFactors, NEW var \in ColFactors,
           NEW m, mode.dense, Consistent(p, m), NEW q,
           q = [ScaledProblem(p, con, var) EXCEPT
                   !.con = Plus(@, con), !.var = Plus(@, var),
                   !.A = ScaledMatrix(p.A, con, var), !.AT = ScaledMatrix(p.A, con, var)]
    PROVE  q \in Problems /\ Consistent(q, m) /\ SameOtherwise(p, q)
<1>1. p.con \in RowFactors /\ p.var \in ColFactors /\ p.A \in Matrices
  BY DEF Problems
<1>2. PICK t : t = ScaledProblem(p, con, var)
  OBVIOUS
<1>3. /\ t \in Problems /\ ScaledBy(t, Plus(p.con, con), Plus(p.var, var))
      /\ t.con = p.con /\ t.var = p.var /\ SameOtherwise(p, t)
  BY <1>1, <1>2, ScaledProblemFacts DEF Consistent, SameOtherwise
<1>4. PICK A : A = ScaledMatrix(p.A, con, var)
  OBVIOUS
<1>5. A \in Matrices /\ MatrixScaledBy(A, Plus(p.con, con), Plus(p.var, var))
  BY <1>1, <1>4, MatrixFacts, MatrixScaled DEF Consistent
<1>6. Plus(t.con, con) \in RowFactors /\ Plus(t.var, var) \in ColFactors
  BY <1>1, <1>3, RowFacts, ColFacts
<1>7. q = [t EXCEPT !.con = Plus(t.con, con), !.var = Plus(t.var, var), !.A = A, !.AT = A]
  BY <1>2, <1>4
<1>8. /\ q \in Problems /\ q.con = Plus(p.con, con) /\ q.var = Plus(p.var, var)
      /\ q.A = A /\ q.AT = A
      /\ q.conBound = t.conBound /\ q.y = t.y /\ q.obj = t.obj /\ q.varBound = t.varBound
      /\ q.x = t.x /\ SameOtherwise(t, q)
  <2>1. Plus(t.con, con) = Plus(p.con, con) /\ Plus(t.var, var) = Plus(p.var, var)
    BY <1>3
  <2>2. q \in Problems
    BY <1>3, <1>5, <1>6, <1>7 DEF Problems
  <2>3. /\ q.con = Plus(t.con, con) /\ q.var = Plus(t.var, var) /\ q.A = A /\ q.AT = A
        /\ q.conBound = t.conBound /\ q.y = t.y /\ q.obj = t.obj /\ q.varBound = t.varBound
        /\ q.x = t.x
    BY <1>3, <1>7 DEF Problems
  <2>4. SameOtherwise(t, q)
    BY <1>3, <1>7 DEF Problems, SameOtherwise
  <2> QED
    BY <2>1, <2>2, <2>3, <2>4
<1>9. ScaledBy(q, q.con, q.var)
  <2>1. ScaledBy(q, Plus(p.con, con), Plus(p.var, var))
    <3>1. ScaledBy(t, Plus(p.con, con), Plus(p.var, var))
      BY <1>3
    <3>2. q.bound = t.bound /\ q.objective = t.objective
      BY <1>8 DEF SameOtherwise
    <3>3. PICK c, v : c = Plus(p.con, con) /\ v = Plus(p.var, var)
      OBVIOUS
    <3>4. /\ ScaledBy(t, c, v) /\ q.conBound = t.conBound /\ q.y = t.y /\ q.obj = t.obj
          /\ q.varBound = t.varBound /\ q.x = t.x
      BY <1>8, <3>1, <3>3
    <3>5. ScaledBy(q, c, v)
      BY <3>2, <3>4 DEF ScaledBy
    <3> QED
      BY <3>3, <3>5
  <2> QED
    BY <1>8, <2>1
<1> QED
  BY <1>3, <1>5, <1>8, <1>9 DEF Consistent, SameOtherwise

Rescaled(m, con, var) ==
    [m EXCEPT !.host = ScaledMatrix(@, con, var), !.con = Plus(@, con), !.var = Plus(@, var)]

LEMMA SparsePass ==
    ASSUME NEW p \in Problems, NEW con \in RowFactors, NEW var \in ColFactors,
           NEW m \in Storages, NEW m1, ~mode.dense, Consistent(p, m), NEW q,
           m1 = Rescaled(m, con, var), q = Published(ScaledProblem(p, con, var), m1)
    PROVE  /\ q \in Problems /\ m1 \in Storages /\ Consistent(q, m1) /\ SameOtherwise(p, q)
           /\ m1.active = m.active
<1>1. /\ p.con \in RowFactors /\ p.var \in ColFactors
      /\ m.host \in Matrices /\ m.con = p.con /\ m.var = p.var
  BY DEF Problems, Storages, Consistent
<1>2. PICK t : t = ScaledProblem(p, con, var)
  OBVIOUS
<1>3. /\ t \in Problems /\ ScaledBy(t, Plus(p.con, con), Plus(p.var, var))
      /\ t.con = p.con /\ t.var = p.var /\ SameOtherwise(p, t)
  BY <1>1, <1>2, ScaledProblemFacts DEF Consistent, SameOtherwise
<1>4. PICK A : A = ScaledMatrix(m.host, con, var)
  OBVIOUS
<1>5. A \in Matrices /\ MatrixScaledBy(A, Plus(p.con, con), Plus(p.var, var))
  BY <1>1, <1>4, MatrixFacts, MatrixScaled DEF Consistent
<1>6. Plus(p.con, con) \in RowFactors /\ Plus(p.var, var) \in ColFactors
  BY <1>1, RowFacts, ColFacts
<1>7. /\ m1 \in Storages /\ m1.host = A /\ m1.con = Plus(p.con, con) /\ m1.var = Plus(p.var, var)
      /\ m1.active = m.active
  <2>1. m1 = [m EXCEPT !.host = A, !.con = Plus(p.con, con), !.var = Plus(p.var, var)]
    BY <1>1, <1>4 DEF Rescaled
  <2> QED
    BY <1>5, <1>6, <2>1 DEF Storages
<1>8. q = [t EXCEPT !.con = Plus(p.con, con), !.var = Plus(p.var, var)]
  BY <1>2, <1>7 DEF Published
<1>9. /\ q \in Problems /\ q.con = Plus(p.con, con) /\ q.var = Plus(p.var, var)
      /\ q.conBound = t.conBound /\ q.y = t.y /\ q.obj = t.obj /\ q.varBound = t.varBound
      /\ q.x = t.x /\ SameOtherwise(t, q)
  BY <1>3, <1>6, <1>8 DEF Problems, SameOtherwise
<1>10. ScaledBy(q, q.con, q.var)
  <2>1. ScaledBy(q, Plus(p.con, con), Plus(p.var, var))
    BY <1>3, <1>9, ScaledAlike DEF SameOtherwise
  <2> QED
    BY <1>9, <2>1
<1> QED
  BY <1>3, <1>5, <1>7, <1>9, <1>10 DEF Consistent, SameOtherwise

LEMMA PassOutcome ==
    ASSUME ScalingInv, at["base"] \in {"geometric", "curtisReid", "pockChambolle"},
           SomePass \/ NoPass
    PROVE  /\ UNCHANGED <<mode, params, ruiz>>
           /\ s' \in [Solvers -> Problems] /\ matrix' \in Storages
           /\ \A v \in Solvers \ {"base"} : s'[v] = s[v]
           /\ Consistent(s'["base"], matrix') /\ SameOtherwise(Base, s'["base"])
           /\ mode.dense => matrix' = matrix
           /\ matrix'.active = matrix.active
<1>1. /\ Base = s["base"] /\ Base \in Problems /\ "base" \in Solvers
      /\ s \in [Solvers -> Problems] /\ matrix \in Storages
  BY DEF ScalingInv, TypeOK, Base, Solvers
<1>2. Consistent(Base, matrix)
  BY Collected DEF ScalingInv, BaseInv, MatrixInv, Consistent
<1>3. CASE NoPass
  BY <1>1, <1>2, <1>3 DEF NoPass, SameOtherwise
<1>4. CASE SomePass
  <2>1. PICK con \in [Rows -> Factors], var \in [Cols -> Factors] : Pass(con, var)
    BY <1>4 DEF SomePass
  <2>2. con \in RowFactors /\ var \in ColFactors
    BY ScalingAssumption DEF RowFactors, ColFactors
  <2>3. UNCHANGED <<mode, params, ruiz>>
    BY <2>1 DEF Pass
  <2>4. CASE mode.dense
    <3>1. PICK q : q = [ScaledProblem(Base, con, var) EXCEPT
                           !.con = Plus(@, con), !.var = Plus(@, var),
                           !.A = ScaledMatrix(Base.A, con, var),
                           !.AT = ScaledMatrix(Base.A, con, var)]
      OBVIOUS
    <3>2. s' = [s EXCEPT !["base"] = q] /\ matrix' = matrix
      BY <2>1, <2>4, <3>1 DEF Pass
    <3>3. q \in Problems /\ Consistent(q, matrix) /\ SameOtherwise(Base, q)
      BY <1>1, <1>2, <2>2, <2>4, <3>1, DensePass
    <3>4. /\ s' \in [Solvers -> Problems] /\ s'["base"] = q
          /\ \A v \in Solvers \ {"base"} : s'[v] = s[v]
      BY <1>1, <3>2, <3>3, Replaced
    <3> QED
      BY <1>1, <2>3, <3>2, <3>3, <3>4
  <2>5. CASE ~mode.dense
    <3>1. matrix' = Rescaled(matrix, con, var)
      BY <2>1, <2>5 DEF Pass, ApplySparseScaling, Rescaled
    <3>2. PICK q : q = Published(ScaledProblem(Base, con, var), matrix')
      OBVIOUS
    <3>3. s' = [s EXCEPT !["base"] = q]
      BY <2>1, <2>5, <3>2 DEF Pass, Base
    <3>4. /\ q \in Problems /\ matrix' \in Storages /\ Consistent(q, matrix')
          /\ SameOtherwise(Base, q) /\ matrix'.active = matrix.active
      BY <1>1, <1>2, <2>2, <2>5, <3>1, <3>2, SparsePass
    <3>5. /\ s' \in [Solvers -> Problems] /\ s'["base"] = q
          /\ \A v \in Solvers \ {"base"} : s'[v] = s[v]
      BY <1>1, <3>3, <3>4, Replaced
    <3> QED
      BY <1>1, <2>3, <2>5, <3>4, <3>5
  <2> QED
    BY <2>4, <2>5
<1> QED
  BY <1>3, <1>4

\* With nothing collected, a consistent problem gives the invariants.
LEMMA BaseConsistent ==
    ASSUME TypeOK', at'["base"] \notin {"waits", "adopt", "norms"}, mode' = mode,
           Consistent(s'["base"], matrix'),
           ruiz'.con = ZeroRow, ruiz'.var = ZeroCol,
           matrix'.active => matrix'.csr = matrix'.host /\ matrix'.csrT = matrix'.host,
           ~mode.dense => (matrix'.active <=> at'["base"] \in {"step", "ready"})
    PROVE  BaseInv' /\ MatrixInv'
<1>1. s'["base"] \in Problems
  BY DEF TypeOK, Solvers
<1>2. s'["base"].con \in [Rows -> Int] /\ s'["base"].var \in [Cols -> Int]
  BY <1>1 DEF Problems, RowFactors, ColFactors
<1>3. Plus(s'["base"].con, [r \in Rows |-> 0]) = s'["base"].con
  BY <1>2, ZeroFacts, PlusZero DEF ZeroRow, RowFactors
<1>4. Plus(s'["base"].var, [c \in Cols |-> 0]) = s'["base"].var
  BY <1>2, ZeroFacts, PlusZero DEF ZeroCol, ColFactors
<1>5. ConCollected' = s'["base"].con /\ VarCollected' = s'["base"].var
  BY <1>3, <1>4 DEF ConCollected, VarCollected, Base, ZeroRow, ZeroCol
<1>6. BaseInv'
  BY <1>5 DEF BaseInv, Base, Consistent, ScaledBy
<1>7. MatrixInv'
  BY <1>5 DEF MatrixInv, Base, Consistent, MatrixScaledBy
<1> QED
  BY <1>6, <1>7

LEMMA PassStep ==
    ASSUME ScalingInv, NEW from \in {"geometric", "curtisReid", "pockChambolle"},
           NEW to \in {"curtisReid", "ruiz", "pockChambolle", "backend", "bound"},
           Goes("base", from, to), SomePass \/ NoPass
    PROVE  ScalingInv'
<1>1. /\ UNCHANGED <<mode, params, ruiz>>
      /\ s' \in [Solvers -> Problems] /\ matrix' \in Storages
      /\ \A v \in Solvers \ {"base"} : s'[v] = s[v]
      /\ Consistent(s'["base"], matrix') /\ SameOtherwise(Base, s'["base"])
      /\ mode.dense => matrix' = matrix
      /\ matrix'.active = matrix.active
  BY PassOutcome DEF Goes
<1>2. /\ at' \in [Solvers -> Stages] /\ at["base"] = from /\ at'["base"] = to
      /\ \A v \in Solvers \ {"base"} : at'[v] = at[v]
  BY Moved DEF ScalingInv, TypeOK, Solvers, Stages
<1>3. TypeOK'
  BY <1>1, <1>2 DEF ScalingInv, TypeOK
<1>4. LaneInv' /\ \A w \in Lanes : SolverOk(w)'
  BY <1>1, <1>2, BaseFrame DEF ScalingInv
<1>5. BaseInv' /\ MatrixInv'
  <2>1. ruiz'.con = ZeroRow /\ ruiz'.var = ZeroCol
    BY <1>1, <1>2 DEF ScalingInv, BaseInv
  <2>2. /\ matrix'.active => matrix'.csr = matrix'.host /\ matrix'.csrT = matrix'.host
        /\ ~mode.dense => ~matrix'.active
    BY <1>1, <1>2 DEF ScalingInv, MatrixInv
  <2> QED
    BY <1>1, <1>2, <1>3, <2>1, <2>2, BaseConsistent
<1>6. SolverOk("base")'
  BY <1>1, <1>2 DEF ScalingInv, SolverInv, SolverOk, Solvers, SameOtherwise, Base,
                    PassStages, Unscaled
<1> QED
  BY <1>3, <1>4, <1>5, <1>6 DEF ScalingInv, SolverInv, Solvers

LEMMA ZeroPlus ==
    /\ \A f \in RowFactors : Plus(ZeroRow, f) = f
    /\ \A f \in ColFactors : Plus(ZeroCol, f) = f
<1>1. ASSUME NEW S, NEW f \in [S -> Int] PROVE Plus([i \in S |-> 0], f) = f
  <2>1. Plus([i \in S |-> 0], f) = [i \in S |-> 0 + f[i]]
    BY DEF Plus
  <2>2. \A i \in S : 0 + f[i] = f[i]
    OBVIOUS
  <2>3. [i \in S |-> f[i]] = f
    OBVIOUS
  <2> QED
    BY <2>1, <2>2, <2>3
<1> QED
  BY <1>1 DEF ZeroRow, ZeroCol, RowFactors, ColFactors

LEMMA PlusPlus ==
    /\ \A f, g, h \in RowFactors : Plus(Plus(f, g), h) = Plus(f, Plus(g, h))
    /\ \A f, g, h \in ColFactors : Plus(Plus(f, g), h) = Plus(f, Plus(g, h))
<1>1. ASSUME NEW S, NEW f \in [S -> Int], NEW g \in [S -> Int], NEW h \in [S -> Int]
      PROVE  Plus(Plus(f, g), h) = Plus(f, Plus(g, h))
  <2>1. /\ Plus(Plus(f, g), h) = [i \in S |-> (f[i] + g[i]) + h[i]]
        /\ Plus(f, Plus(g, h)) = [i \in S |-> f[i] + (g[i] + h[i])]
    BY DEF Plus
  <2>2. \A i \in S : (f[i] + g[i]) + h[i] = f[i] + (g[i] + h[i])
    OBVIOUS
  <2> QED
    BY <2>1, <2>2
<1> QED
  BY <1>1 DEF RowFactors, ColFactors

\* An iteration of Ruiz adds its factors to those collected: the published
\* ones, and the dense transpose, stay behind together.
LEMMA RuizIterationStep ==
    ASSUME ScalingInv, RuizIteration
    PROVE  ScalingInv'
<1>1. PICK con \in [Rows -> Factors], var \in [Cols -> Factors] :
          /\ ruiz' = [left |-> ruiz.left - 1, con |-> Plus(ruiz.con, con), var |-> Plus(ruiz.var, var)]
          /\ \/ /\ mode.dense
                /\ s' = [s EXCEPT !["base"] = [ScaledProblem(Base, con, var) EXCEPT
                                                    !.A = ScaledMatrix(@, con, var)]]
                /\ UNCHANGED matrix
             \/ /\ ~mode.dense
                /\ matrix' = ApplySparseScaling(con, var)
                /\ s' = [s EXCEPT !["base"] = ScaledProblem(@, con, var)]
  BY DEF RuizIteration
<1>2. /\ at["base"] = "ruiz" /\ ruiz.left > 0 /\ UNCHANGED <<mode, params, at>>
      /\ con \in RowFactors /\ var \in ColFactors
  BY ScalingAssumption DEF RuizIteration, RowFactors, ColFactors
<1>3. /\ Base = s["base"] /\ Base \in Problems /\ "base" \in Solvers
      /\ s \in [Solvers -> Problems] /\ matrix \in Storages
      /\ Base.con \in RowFactors /\ Base.var \in ColFactors
      /\ ruiz.con \in RowFactors /\ ruiz.var \in ColFactors
      /\ ConCollected \in RowFactors /\ VarCollected \in ColFactors
  BY Collected DEF ScalingInv, TypeOK, Base, Solvers
<1>4. PICK t : t = ScaledProblem(Base, con, var)
  OBVIOUS
<1>5. /\ t \in Problems /\ ScaledBy(t, Plus(ConCollected, con), Plus(VarCollected, var))
      /\ t.con = Base.con /\ t.var = Base.var /\ t.A = Base.A /\ t.AT = Base.AT
      /\ SameOtherwise(Base, t)
  BY <1>2, <1>3, <1>4, ScaledProblemFacts DEF ScalingInv, BaseInv, SameOtherwise
<1>6. /\ Plus(ConCollected, con) = Plus(Base.con, ruiz'.con)
      /\ Plus(VarCollected, var) = Plus(Base.var, ruiz'.var)
      /\ ruiz'.con \in RowFactors /\ ruiz'.var \in ColFactors
  <2>1. ruiz'.con = Plus(ruiz.con, con) /\ ruiz'.var = Plus(ruiz.var, var)
    BY <1>1
  <2>2. Plus(ConCollected, con) = Plus(Base.con, Plus(ruiz.con, con))
    BY <1>2, <1>3, PlusPlus DEF ConCollected
  <2>3. Plus(VarCollected, var) = Plus(Base.var, Plus(ruiz.var, var))
    BY <1>2, <1>3, PlusPlus DEF VarCollected
  <2>4. Plus(ruiz.con, con) \in RowFactors /\ Plus(ruiz.var, var) \in ColFactors
    BY <1>2, <1>3, RowFacts, ColFacts
  <2> QED
    BY <2>1, <2>2, <2>3, <2>4
<1>7. ruiz' \in [left : Nat, con : RowFactors, var : ColFactors]
  <2>1. ruiz.left - 1 \in Nat
    BY <1>2 DEF ScalingInv, TypeOK
  <2>2. Plus(ruiz.con, con) \in RowFactors /\ Plus(ruiz.var, var) \in ColFactors
    BY <1>2, <1>3, RowFacts, ColFacts
  <2> QED
    BY <1>1, <2>1, <2>2
\* What an iteration leaves of the problem and of the storage.
<1>8. /\ s' \in [Solvers -> Problems] /\ matrix' \in Storages
      /\ \A v \in Solvers \ {"base"} : s'[v] = s[v]
      /\ ScaledBy(s'["base"], Plus(ConCollected, con), Plus(VarCollected, var))
      /\ s'["base"].con = Base.con /\ s'["base"].var = Base.var /\ s'["base"].AT = Base.AT
      /\ SameOtherwise(Base, s'["base"]) /\ matrix'.active = matrix.active
      /\ mode.dense => /\ MatrixScaledBy(s'["base"].A, Plus(ConCollected, con),
                                         Plus(VarCollected, var))
                       /\ matrix' = matrix
      /\ ~mode.dense => /\ MatrixScaledBy(matrix'.host, Plus(ConCollected, con),
                                          Plus(VarCollected, var))
                        /\ matrix'.con = Plus(ConCollected, con)
                        /\ matrix'.var = Plus(VarCollected, var)
  <2>1. CASE mode.dense
    <3>1. PICK A : A = ScaledMatrix(Base.A, con, var)
      OBVIOUS
    <3>2. A \in Matrices /\ MatrixScaledBy(A, Plus(ConCollected, con), Plus(VarCollected, var))
      <4>1. Base.A \in Matrices /\ MatrixScaledBy(Base.A, ConCollected, VarCollected)
        BY <1>3, <2>1 DEF Problems, ScalingInv, MatrixInv
      <4> QED
        BY <1>2, <1>3, <3>1, <4>1, MatrixFacts, MatrixScaled
    <3>3. PICK q : q = [t EXCEPT !.A = A]
      OBVIOUS
    <3>4. s' = [s EXCEPT !["base"] = q] /\ matrix' = matrix
      <4>1. s' = [s EXCEPT !["base"] = [t EXCEPT !.A = ScaledMatrix(t.A, con, var)]]
        <5>1. s' = [s EXCEPT !["base"] = [ScaledProblem(Base, con, var) EXCEPT
                                              !.A = ScaledMatrix(@, con, var)]]
          BY <1>1, <2>1
        <5> QED
          BY <1>4, <5>1
      <4> QED
        BY <1>1, <1>5, <2>1, <3>1, <3>3, <4>1 DEF Base
    <3>5. /\ q \in Problems /\ q.A = A /\ q.AT = t.AT /\ q.con = t.con /\ q.var = t.var
          /\ q.conBound = t.conBound /\ q.y = t.y /\ q.obj = t.obj
          /\ q.varBound = t.varBound /\ q.x = t.x /\ SameOtherwise(t, q)
      BY <1>5, <3>2, <3>3 DEF Problems, SameOtherwise
    <3>6. ScaledBy(q, Plus(ConCollected, con), Plus(VarCollected, var))
      BY <1>5, <3>5, ScaledAlike DEF SameOtherwise
    <3>7. /\ s' \in [Solvers -> Problems] /\ s'["base"] = q
          /\ \A v \in Solvers \ {"base"} : s'[v] = s[v]
      BY <1>3, <3>4, <3>5, Replaced
    <3> QED
      BY <1>3, <1>5, <2>1, <3>2, <3>4, <3>5, <3>6, <3>7 DEF SameOtherwise
  <2>2. CASE ~mode.dense
    <3>1. /\ s' = [s EXCEPT !["base"] = t]
          /\ matrix' = [matrix EXCEPT !.host = ScaledMatrix(@, con, var),
                                      !.con = Plus(@, con), !.var = Plus(@, var)]
      BY <1>1, <1>3, <1>4, <2>2 DEF ApplySparseScaling
    <3>2. /\ s' \in [Solvers -> Problems] /\ s'["base"] = t
          /\ \A v \in Solvers \ {"base"} : s'[v] = s[v]
      BY <1>3, <1>5, <3>1, Replaced
    <3>3. /\ matrix.host \in Matrices /\ MatrixScaledBy(matrix.host, ConCollected, VarCollected)
          /\ matrix.con = ConCollected /\ matrix.var = VarCollected
      BY <1>3, <2>2 DEF Storages, ScalingInv, MatrixInv
    <3>4. PICK A : A = ScaledMatrix(matrix.host, con, var)
      OBVIOUS
    <3>5. A \in Matrices /\ MatrixScaledBy(A, Plus(ConCollected, con), Plus(VarCollected, var))
      BY <1>2, <1>3, <3>3, <3>4, MatrixFacts, MatrixScaled
    <3>6. /\ Plus(ConCollected, con) \in RowFactors /\ Plus(VarCollected, var) \in ColFactors
      BY <1>2, <1>3, RowFacts, ColFacts
    <3>7. matrix' = [matrix EXCEPT !.host = A, !.con = Plus(ConCollected, con),
                                   !.var = Plus(VarCollected, var)]
      BY <3>1, <3>3, <3>4
    <3>8. /\ matrix' \in Storages /\ matrix'.host = A /\ matrix'.active = matrix.active
          /\ matrix'.con = Plus(ConCollected, con) /\ matrix'.var = Plus(VarCollected, var)
      BY <1>3, <3>5, <3>6, <3>7 DEF Storages
    <3> QED
      BY <1>3, <1>5, <2>2, <3>2, <3>5, <3>8
  <2> QED
    BY <2>1, <2>2
<1>9. TypeOK'
  BY <1>2, <1>7, <1>8 DEF ScalingInv, TypeOK
<1>10. LaneInv' /\ \A w \in Lanes : SolverOk(w)'
  BY <1>2, <1>8, BaseFrame DEF ScalingInv
<1>11. ConCollected' = Plus(ConCollected, con) /\ VarCollected' = Plus(VarCollected, var)
  BY <1>6, <1>8 DEF ConCollected, VarCollected, Base
<1>12. BaseInv'
  BY <1>2, <1>8, <1>11 DEF BaseInv, Base
<1>13. MatrixInv'
  BY <1>2, <1>8, <1>11 DEF ScalingInv, MatrixInv, Base
<1>14. SolverOk("base")'
  BY <1>2, <1>3, <1>8 DEF ScalingInv, SolverInv, SolverOk, SameOtherwise, Base,
                         PassStages, Unscaled
<1> QED
  BY <1>9, <1>10, <1>12, <1>13, <1>14 DEF ScalingInv, SolverInv, Solvers

\* A step of the solver that prepares the matrix, with nothing collected after it.
LEMMA BaseStep ==
    ASSUME ScalingInv, NEW q \in Problems, s' = [s EXCEPT !["base"] = q],
           NEW from, NEW to \in Stages \ {"waits", "adopt", "norms"}, from # "ready",
           Goes("base", from, to), UNCHANGED <<mode, params>>,
           matrix' \in Storages, Consistent(q, matrix'),
           ruiz' \in [left : Nat, con : RowFactors, var : ColFactors],
           ruiz'.con = ZeroRow, ruiz'.var = ZeroCol,
           matrix'.active => matrix'.csr = matrix'.host /\ matrix'.csrT = matrix'.host,
           ~mode.dense => (matrix'.active <=> to \in {"step", "ready"}),
           SolverOk("base")'
    PROVE  ScalingInv'
<1>1. /\ at' \in [Solvers -> Stages] /\ at["base"] = from /\ at'["base"] = to
      /\ \A v \in Solvers \ {"base"} : at'[v] = at[v]
  BY Moved DEF ScalingInv, TypeOK, Solvers
<1>2. /\ s' \in [Solvers -> Problems] /\ s'["base"] = q
      /\ \A v \in Solvers \ {"base"} : s'[v] = s[v]
  BY Replaced DEF ScalingInv, TypeOK, Solvers
<1>3. TypeOK'
  BY <1>1, <1>2 DEF ScalingInv, TypeOK
<1>4. LaneInv' /\ \A w \in Lanes : SolverOk(w)'
  BY <1>1, <1>2, BaseFrame DEF ScalingInv
<1>5. BaseInv' /\ MatrixInv'
  BY <1>1, <1>2, <1>3, BaseConsistent
<1> QED
  BY <1>3, <1>4, <1>5 DEF ScalingInv, SolverInv, Solvers

\* The problem is consistent whenever Ruiz has nothing left to publish.
LEMMA BaseProblem ==
    ASSUME ScalingInv
    PROVE  /\ s["base"] \in Problems /\ SolverOk("base") /\ matrix \in Storages
           /\ ruiz \in [left : Nat, con : RowFactors, var : ColFactors]
           /\ at["base"] # "ruiz" => /\ Consistent(s["base"], matrix)
                                     /\ ruiz.con = ZeroRow /\ ruiz.var = ZeroCol
           /\ matrix.active => matrix.csr = matrix.host /\ matrix.csrT = matrix.host
           /\ ~mode.dense => (matrix.active <=> at["base"] \in {"step", "ready"})
<1>1. at["base"] # "ruiz" => Consistent(s["base"], matrix)
  BY Collected DEF ScalingInv, BaseInv, MatrixInv, Consistent, Base
<1> QED
  BY <1>1 DEF ScalingInv, TypeOK, BaseInv, MatrixInv, SolverInv, Solvers

LEMMA RuizEndStep ==
    ASSUME ScalingInv, RuizEnd
    PROVE  ScalingInv'
<1>1. /\ Goes("base", "ruiz", "pockChambolle") /\ at["base"] = "ruiz"
      /\ at'["base"] = "pockChambolle" /\ UNCHANGED <<mode, params, matrix>>
      /\ ruiz' = [ruiz EXCEPT !.con = ZeroRow, !.var = ZeroCol]
  BY Moved DEF RuizEnd, ScalingInv, TypeOK, Solvers, Stages
<1>2. ruiz' \in [left : Nat, con : RowFactors, var : ColFactors]
      /\ ruiz'.con = ZeroRow /\ ruiz'.var = ZeroCol
  BY <1>1, ZeroFacts DEF ScalingInv, TypeOK
<1>3. /\ Base = s["base"] /\ Base \in Problems /\ "base" \in Solvers /\ Base.A \in Matrices
      /\ ConCollected \in RowFactors /\ VarCollected \in ColFactors
      /\ ScaledBy(Base, ConCollected, VarCollected)
      /\ SolverOk("base") /\ matrix \in Storages
  BY Collected DEF ScalingInv, TypeOK, BaseInv, SolverInv, Base, Solvers, Problems
<1>4. PICK con, var : con = ConCollected /\ var = VarCollected
  OBVIOUS
<1>5. PICK B : B = IF mode.dense THEN Base.A ELSE Base.AT
  OBVIOUS
<1>6. PICK q : q = [Base EXCEPT !.con = con, !.var = var, !.AT = B]
  OBVIOUS
<1>7. s' = [s EXCEPT !["base"] = q]
  <2>1. CASE mode.dense
    <3>1. s' = [s EXCEPT !["base"] = [Base EXCEPT !.con = Plus(Base.con, ruiz.con),
                                          !.var = Plus(Base.var, ruiz.var), !.AT = Base.A]]
      BY <2>1 DEF RuizEnd
    <3> QED
      BY <1>4, <1>5, <1>6, <2>1, <3>1 DEF ConCollected, VarCollected
  <2>2. CASE ~mode.dense
    <3>1. s' = [s EXCEPT !["base"] = [Base EXCEPT !.con = matrix.con, !.var = matrix.var]]
      BY <2>2 DEF RuizEnd, Published
    <3>2. matrix.con = con /\ matrix.var = var
      BY <1>4, <2>2 DEF ScalingInv, MatrixInv
    <3>3. q = [Base EXCEPT !.con = con, !.var = var]
      BY <1>3, <1>5, <1>6, <2>2 DEF Problems
    <3> QED
      BY <3>1, <3>2, <3>3
  <2> QED
    BY <2>1, <2>2
<1>8. B \in Matrices
  BY <1>3, <1>5 DEF Problems
<1>9. /\ q \in Problems /\ q.con = con /\ q.var = var /\ q.A = Base.A /\ q.AT = B
      /\ q.conBound = Base.conBound /\ q.y = Base.y /\ q.obj = Base.obj
      /\ q.varBound = Base.varBound /\ q.x = Base.x
      /\ SameOtherwise(Base, q)
  BY <1>3, <1>4, <1>6, <1>8 DEF Problems, SameOtherwise
<1>10. ScaledBy(q, q.con, q.var)
  <2>1. ScaledBy(Base, con, var)
    BY <1>3, <1>4
  <2>2. ScaledBy(q, con, var)
    BY <1>9, <2>1, ScaledAlike DEF SameOtherwise
  <2> QED
    BY <1>9, <2>2
<1>11. Consistent(q, matrix')
  BY <1>1, <1>4, <1>5, <1>9, <1>10 DEF Consistent, ScalingInv, MatrixInv
<1>12. SolverOk("base")'
  <2>1. s'["base"] = q
    BY <1>7, <1>9, Replaced DEF ScalingInv, TypeOK, Solvers
  <2> QED
    BY <1>1, <1>3, <1>9, <2>1 DEF SolverOk, SameOtherwise, PassStages, Unscaled
<1>13. ~mode.dense => ~matrix'.active
  BY <1>1 DEF ScalingInv, MatrixInv
<1>14. matrix'.active => matrix'.csr = matrix'.host /\ matrix'.csrT = matrix'.host
  BY <1>1 DEF ScalingInv, MatrixInv
<1> QED
  BY <1>1, <1>2, <1>3, <1>7, <1>9, <1>11, <1>12, <1>13, <1>14, BaseStep DEF Stages

------------------------------------------------------------------------------
(* Steps that a solver and a lane share.                                   *)

LEMMA UnscaledProblem ==
    ASSUME NEW p \in Problems, ScaledBy(p, ZeroRow, ZeroCol), p.bound = 0, p.objective = 0
    PROVE  p.obj = ZeroCol /\ p.conBound = ZeroRow
<1>1. ASSUME NEW r \in Rows PROVE p.conBound[r] = ZeroRow[r]
  <2>1. ZeroRow[r] = 0
    BY DEF ZeroRow
  <2> QED
    BY <2>1 DEF ScaledBy
<1>2. ASSUME NEW c \in Cols PROVE p.obj[c] = ZeroCol[c]
  <2>1. ZeroCol[c] = 0
    BY DEF ZeroCol
  <2> QED
    BY <2>1 DEF ScaledBy
<1>3. p.obj \in [Cols -> Int] /\ p.conBound \in [Rows -> Int]
      /\ ZeroCol \in [Cols -> Int] /\ ZeroRow \in [Rows -> Int]
  BY ZeroFacts DEF Problems, RowFactors, ColFactors
<1> QED
  BY <1>1, <1>2, <1>3, PlusZero

\* The global scales multiply the whole problem once.
GloballyScaled(p, k, o) ==
    [p EXCEPT !.conBound = Shift(@, k), !.varBound = Shift(@, k), !.x = Shift(@, k),
              !.obj = Shift(@, o), !.y = Shift(@, o), !.bound = k, !.objective = o]

LEMMA BoundScaled ==
    ASSUME NEW p \in Problems, NEW con \in RowFactors, NEW var \in ColFactors,
           NEW k \in Int, NEW o \in Int, ScaledBy(p, con, var),
           p.bound = 0, p.objective = 0, NEW q, q = GloballyScaled(p, k, o)
    PROVE  /\ q \in Problems /\ ScaledBy(q, con, var)
           /\ q.A = p.A /\ q.AT = p.AT /\ q.con = p.con /\ q.var = p.var
           /\ q.norms = p.norms /\ q.copied = p.copied
<1>1. /\ p.conBound \in RowFactors /\ p.y \in RowFactors /\ p.obj \in ColFactors
      /\ p.varBound \in ColFactors /\ p.x \in ColFactors
  BY DEF Problems
<1>2. /\ q.conBound = Shift(p.conBound, k) /\ q.varBound = Shift(p.varBound, k)
      /\ q.x = Shift(p.x, k) /\ q.obj = Shift(p.obj, o) /\ q.y = Shift(p.y, o)
      /\ q.bound = k /\ q.objective = o
  BY DEF Problems, GloballyScaled
<1>3. /\ Shift(p.conBound, k) \in RowFactors /\ Shift(p.y, o) \in RowFactors
      /\ Shift(p.varBound, k) \in ColFactors /\ Shift(p.x, k) \in ColFactors
      /\ Shift(p.obj, o) \in ColFactors
  BY <1>1, ShiftFacts
<1>4. q \in Problems
  BY <1>3 DEF Problems, GloballyScaled
<1>5. ASSUME NEW r \in Rows
      PROVE  q.conBound[r] = k - con[r] /\ q.y[r] = con[r] + o
  <2>1. q.conBound[r] = p.conBound[r] + k /\ q.y[r] = p.y[r] + o
    <3>1. Shift(p.conBound, k)[r] = p.conBound[r] + k
      BY <1>1, ShiftFacts
    <3>2. Shift(p.y, o)[r] = p.y[r] + o
      BY <1>1, ShiftFacts
    <3> QED
      BY <1>2, <3>1, <3>2
  <2>2. p.conBound[r] = p.bound - con[r] /\ p.y[r] = con[r] + p.objective
    BY DEF ScaledBy
  <2>3. con[r] \in Int
    BY DEF RowFactors
  <2> QED
    BY <2>1, <2>2, <2>3
<1>6. ASSUME NEW c \in Cols
      PROVE  q.varBound[c] = var[c] + k /\ q.x[c] = var[c] + k /\ q.obj[c] = o - var[c]
  <2>1. q.varBound[c] = p.varBound[c] + k /\ q.x[c] = p.x[c] + k /\ q.obj[c] = p.obj[c] + o
    <3>1. Shift(p.varBound, k)[c] = p.varBound[c] + k
      BY <1>1, ShiftFacts
    <3>2. Shift(p.x, k)[c] = p.x[c] + k
      BY <1>1, ShiftFacts
    <3>3. Shift(p.obj, o)[c] = p.obj[c] + o
      BY <1>1, ShiftFacts
    <3> QED
      BY <1>2, <3>1, <3>2, <3>3
  <2>2. /\ p.varBound[c] = var[c] + p.bound /\ p.x[c] = var[c] + p.bound
        /\ p.obj[c] = p.objective - var[c]
    BY DEF ScaledBy
  <2>3. var[c] \in Int
    BY DEF ColFactors
  <2> QED
    BY <2>1, <2>2, <2>3
<1>7. ScaledBy(q, con, var)
  BY <1>2, <1>5, <1>6 DEF ScaledBy
<1>8. /\ q.A = p.A /\ q.AT = p.AT /\ q.con = p.con /\ q.var = p.var
      /\ q.norms = p.norms /\ q.copied = p.copied
  BY DEF Problems, GloballyScaled
<1> QED
  BY <1>4, <1>7, <1>8

\* The reduced cost of a caller's dual is that of the scaled objective.
LEMMA ReducedCost ==
    ASSUME NEW p \in Problems, NEW con, NEW var \in ColFactors, ScaledBy(p, con, var)
    PROVE  Shift(Minus(ZeroCol, var), p.objective) = p.obj
<1>1. Minus(ZeroCol, var) \in ColFactors /\ p.objective \in Int /\ p.obj \in ColFactors
  BY ZeroFacts, ColFacts DEF Problems
<1>2. Shift(Minus(ZeroCol, var), p.objective) \in ColFactors
  BY <1>1, ShiftFacts
<1>3. ASSUME NEW c \in Cols PROVE Shift(Minus(ZeroCol, var), p.objective)[c] = p.obj[c]
  <2>1. Shift(Minus(ZeroCol, var), p.objective)[c] = Minus(ZeroCol, var)[c] + p.objective
    BY <1>1, ShiftFacts
  <2>2. Minus(ZeroCol, var)[c] = 0 - var[c] /\ var[c] \in Int
    BY ZeroFacts, ColFacts DEF ZeroCol
  <2>3. p.obj[c] = p.objective - var[c]
    BY DEF ScaledBy
  <2> QED
    BY <1>1, <2>1, <2>2, <2>3
<1> QED
  BY <1>1, <1>2, <1>3, PlusZero DEF ColFactors

\* A lane's step replaces its problem and its stage.
LEMMA LaneStep ==
    ASSUME ScalingInv, NEW w \in Lanes, NEW q \in Problems, s' = [s EXCEPT ![w] = q],
           at' \in [Solvers -> Stages], \A v \in Solvers \ {w} : at'[v] = at[v],
           UNCHANGED <<mode, params, matrix, ruiz>>, LaneOk(w)', SolverOk(w)'
    PROVE  ScalingInv'
<1>1. /\ s' \in [Solvers -> Problems] /\ \A v \in Solvers \ {w} : s'[v] = s[v]
  BY Replaced DEF ScalingInv, TypeOK, Solvers
<1>2. TypeOK'
  BY <1>1 DEF ScalingInv, TypeOK
<1>3. /\ BaseInv' /\ MatrixInv'
      /\ \A v \in Lanes \ {w} : LaneOk(v)'
      /\ \A v \in Solvers \ {w} : SolverOk(v)'
  BY <1>1, LaneFrame
<1> QED
  BY <1>2, <1>3 DEF ScalingInv, LaneInv, SolverInv, Solvers

\* What is known of a lane under way.
LEMMA LaneProblem ==
    ASSUME ScalingInv, NEW w \in Lanes
    PROVE  /\ w # "base" /\ w \in Solvers /\ s[w] \in Problems /\ LaneOk(w) /\ SolverOk(w)
           /\ s[w].con \in RowFactors /\ s[w].var \in ColFactors
           /\ Base \in Problems /\ Base.con \in RowFactors /\ Base.var \in ColFactors
<1>1. w # "base" /\ w \in Solvers /\ s[w] \in Problems /\ LaneOk(w) /\ SolverOk(w)
  BY ScalingAssumption DEF ScalingInv, TypeOK, LaneInv, SolverInv, Solvers
<1> QED
  BY <1>1, Collected DEF ScalingInv, Problems

LEMMA MeasureNormsStep ==
    ASSUME ScalingInv, NEW w \in Solvers, MeasureNorms(w)
    PROVE  ScalingInv'
<1>1. PICK q : q = [s[w] EXCEPT !.norms = [obj |-> s[w].obj, con |-> s[w].conBound]]
  OBVIOUS
<1>2. s[w] \in Problems
  BY DEF ScalingInv, TypeOK
<1>3. /\ UNCHANGED <<mode, params, matrix, ruiz>> /\ s' = [s EXCEPT ![w] = q]
      /\ Goes(w, "norms", IF w = "base" THEN "geometric" ELSE "adopt") /\ at[w] = "norms"
  BY <1>1 DEF MeasureNorms, ScalingInv, TypeOK, Goes
<1>4. /\ q \in Problems /\ q.norms = [obj |-> s[w].obj, con |-> s[w].conBound]
      /\ q.A = s[w].A /\ q.AT = s[w].AT /\ q.con = s[w].con /\ q.var = s[w].var
      /\ q.conBound = s[w].conBound /\ q.y = s[w].y /\ q.obj = s[w].obj
      /\ q.varBound = s[w].varBound /\ q.x = s[w].x /\ q.bound = s[w].bound
      /\ q.objective = s[w].objective /\ q.copied = s[w].copied
  BY <1>1, <1>2 DEF Problems
<1>5. s'[w] = q
  BY <1>3, <1>4, Replaced DEF ScalingInv, TypeOK
<1>6. CASE w = "base"
  <2>1. /\ Consistent(s[w], matrix) /\ SolverOk(w) /\ matrix \in Storages
        /\ ruiz \in [left : Nat, con : RowFactors, var : ColFactors]
        /\ ruiz.con = ZeroRow /\ ruiz.var = ZeroCol
        /\ matrix.active => matrix.csr = matrix.host /\ matrix.csrT = matrix.host
        /\ ~mode.dense => ~matrix.active
    BY <1>3, <1>6, BaseProblem
  <2>2. s[w].con = ZeroRow /\ s[w].var = ZeroCol
    BY <1>3, <1>6 DEF ScalingInv, BaseInv, Base
  <2>3. s[w].bound = 0 /\ s[w].objective = 0 /\ s[w].copied = {}
    BY <1>3, <2>1 DEF SolverOk, PassStages
  <2>4. s[w].obj = ZeroCol /\ s[w].conBound = ZeroRow
    BY <1>2, <2>1, <2>2, <2>3, UnscaledProblem DEF Consistent
  <2>5. Consistent(q, matrix)
    BY <1>4, <2>1 DEF Consistent, ScaledBy
  <2>6. at'["base"] = "geometric"
    BY <1>3, <1>6, Moved DEF ScalingInv, TypeOK, Stages
  <2>7. SolverOk("base")'
    BY <1>4, <1>5, <1>6, <2>3, <2>4, <2>6 DEF SolverOk
  <2>8. Goes("base", "norms", "geometric")
    BY <1>3, <1>6
  <2> QED
    BY <1>3, <1>4, <1>6, <2>1, <2>5, <2>7, <2>8, BaseStep DEF Stages
<1>7. CASE w # "base"
  <2>1. w \in Lanes /\ LaneOk(w) /\ SolverOk(w)
    BY <1>7, LaneProblem DEF Solvers
  <2>2. s[w].con = ZeroRow /\ s[w].var = ZeroCol /\ ScaledBy(s[w], ZeroRow, ZeroCol)
    BY <1>3, <2>1 DEF LaneOk, Unscaled
  <2>3. s[w].bound = 0 /\ s[w].objective = 0 /\ s[w].copied = {}
    BY <1>3, <2>1 DEF SolverOk, PassStages
  <2>4. s[w].obj = ZeroCol /\ s[w].conBound = ZeroRow
    BY <1>2, <2>2, <2>3, UnscaledProblem
  <2>5. /\ at' \in [Solvers -> Stages] /\ at'[w] = "adopt"
        /\ \A v \in Solvers \ {w} : at'[v] = at[v]
    BY <1>3, <1>7, Moved DEF ScalingInv, TypeOK, Stages
  <2>6. s'["base"] = s["base"] /\ at'["base"] = at["base"]
    BY <1>3, <1>4, <1>7, <2>5, Replaced DEF ScalingInv, TypeOK, Solvers
  <2>7. ScaledBy(q, ZeroRow, ZeroCol)
    BY <1>4, <2>2 DEF ScaledBy
  <2>8. LaneOk(w)'
    BY <1>3, <1>4, <1>5, <2>1, <2>2, <2>5, <2>6, <2>7
       DEF LaneOk, Base, Unscaled, PassStages
  <2>9. SolverOk(w)'
    BY <1>4, <1>5, <2>3, <2>4, <2>5 DEF SolverOk
  <2> QED
    BY <1>3, <1>4, <2>1, <2>5, <2>8, <2>9, LaneStep
<1> QED
  BY <1>6, <1>7

LEMMA EnterStep ==
    ASSUME ScalingInv, NEW w \in Solvers, Enter(w)
    PROVE  ScalingInv'
<1>1. w \in Lanes /\ at["base"] = "ready" /\ UNCHANGED <<mode, params, matrix, ruiz>>
  BY DEF Enter, Solvers
<1>2. /\ w # "base" /\ s[w] \in Problems /\ LaneOk(w) /\ SolverOk(w)
      /\ Base \in Problems /\ Base.A \in Matrices /\ Base.AT \in Matrices
  BY <1>1, LaneProblem DEF Problems
<1>3. PICK q : q = [s[w] EXCEPT !.A = Base.A, !.AT = Base.AT]
  OBVIOUS
<1>4. /\ q \in Problems /\ q.A = Base.A /\ q.AT = Base.AT
      /\ q.con = s[w].con /\ q.var = s[w].var
      /\ q.conBound = s[w].conBound /\ q.y = s[w].y /\ q.obj = s[w].obj
      /\ q.varBound = s[w].varBound /\ q.x = s[w].x /\ q.bound = s[w].bound
      /\ q.objective = s[w].objective /\ q.copied = s[w].copied
  BY <1>2, <1>3 DEF Problems
<1>5. s' = [s EXCEPT ![w] = q]
  BY <1>2, <1>3 DEF Enter, ScalingInv, TypeOK
<1>6. s'[w] = q /\ s'["base"] = s["base"]
  BY <1>2, <1>4, <1>5, Replaced DEF ScalingInv, TypeOK, Solvers
<1>7. /\ at' \in [Solvers -> Stages] /\ at[w] = "waits" /\ at'[w] = "norms"
      /\ \A v \in Solvers \ {w} : at'[v] = at[v]
  BY Moved DEF Enter, ScalingInv, TypeOK, Stages
<1>8. at'["base"] = "ready"
  BY <1>1, <1>2, <1>7 DEF Solvers
<1>9. LaneOk(w)'
  <2>1. s[w].con = ZeroRow /\ s[w].var = ZeroCol /\ ScaledBy(s[w], ZeroRow, ZeroCol)
    BY <1>2, <1>7 DEF LaneOk, Unscaled
  <2>2. ScaledBy(q, ZeroRow, ZeroCol)
    BY <1>4, <2>1 DEF ScaledBy
  <2> QED
    BY <1>1, <1>4, <1>6, <1>7, <1>8, <2>1, <2>2 DEF LaneOk, Base, Unscaled, PassStages
<1>10. SolverOk(w)'
  BY <1>2, <1>4, <1>6, <1>7 DEF SolverOk, Unscaled, PassStages
<1> QED
  BY <1>1, <1>4, <1>5, <1>7, <1>9, <1>10, LaneStep

\* A lane adopts the factors of the matrix it shares: its problem is scaled by them.
LEMMA AdoptStep ==
    ASSUME ScalingInv, NEW w \in Solvers, Adopt(w)
    PROVE  ScalingInv'
<1>1. /\ at[w] = "adopt" /\ UNCHANGED <<mode, params, matrix, ruiz>> /\ Goes(w, "adopt", "bound")
      /\ w \in Lanes
  BY DEF Adopt, Goes, Solvers, ScalingInv, BaseInv
<1>2. /\ w # "base" /\ s[w] \in Problems /\ LaneOk(w) /\ SolverOk(w)
      /\ Base \in Problems /\ Base.con \in RowFactors /\ Base.var \in ColFactors
  BY <1>1, LaneProblem
<1>3. /\ at' \in [Solvers -> Stages] /\ at'[w] = "bound"
      /\ \A v \in Solvers \ {w} : at'[v] = at[v]
  BY <1>1, Moved DEF ScalingInv, TypeOK, Stages
<1>4. PICK t : t = ScaledProblem(s[w], Base.con, Base.var)
  OBVIOUS
<1>5. PICK q : q = [t EXCEPT !.con = Base.con, !.var = Base.var]
  OBVIOUS
<1>6. s' = [s EXCEPT ![w] = q]
  BY <1>4, <1>5 DEF Adopt
<1>7. s[w].con = ZeroRow /\ s[w].var = ZeroCol /\ ScaledBy(s[w], ZeroRow, ZeroCol)
  BY <1>1, <1>2 DEF LaneOk, Unscaled
<1>8. /\ t \in Problems /\ ScaledBy(t, Plus(ZeroRow, Base.con), Plus(ZeroCol, Base.var))
      /\ t.A = s[w].A /\ t.AT = s[w].AT /\ SameOtherwise(s[w], t)
  BY <1>2, <1>4, <1>7, ZeroFacts, ScaledProblemFacts DEF SameOtherwise
<1>9. Plus(ZeroRow, Base.con) = Base.con /\ Plus(ZeroCol, Base.var) = Base.var
  BY <1>2, ZeroPlus
<1>10. /\ q \in Problems /\ q.con = Base.con /\ q.var = Base.var /\ q.A = t.A /\ q.AT = t.AT
       /\ q.conBound = t.conBound /\ q.y = t.y /\ q.obj = t.obj
       /\ q.varBound = t.varBound /\ q.x = t.x /\ SameOtherwise(t, q)
  BY <1>2, <1>5, <1>8 DEF Problems, SameOtherwise
<1>11. ScaledBy(q, Base.con, Base.var)
  <2>1. ScaledBy(t, Base.con, Base.var)
    BY <1>8, <1>9
  <2> QED
    BY <1>10, <2>1, ScaledAlike DEF SameOtherwise
<1>12. s'[w] = q /\ s'["base"] = s["base"] /\ at'["base"] = at["base"]
  BY <1>2, <1>3, <1>6, <1>10, Replaced DEF ScalingInv, TypeOK, Solvers
<1>13. LaneOk(w)'
  BY <1>1, <1>2, <1>3, <1>8, <1>10, <1>11, <1>12 DEF LaneOk, Base, Unscaled, PassStages
<1>14. SolverOk(w)'
  BY <1>1, <1>2, <1>3, <1>8, <1>10, <1>12
     DEF SolverOk, SameOtherwise, Unscaled, PassStages
<1> QED
  BY <1>1, <1>3, <1>6, <1>10, <1>13, <1>14, LaneStep

LEMMA BoundObjectiveStep ==
    ASSUME ScalingInv, NEW w \in Solvers, BoundObjective(w)
    PROVE  ScalingInv'
<1>1. /\ UNCHANGED <<mode, params, matrix, ruiz>> /\ Goes(w, "bound", "backend")
      /\ at' \in [Solvers -> Stages] /\ at[w] = "bound" /\ at'[w] = "backend"
      /\ \A v \in Solvers \ {w} : at'[v] = at[v]
  BY Moved DEF BoundObjective, ScalingInv, TypeOK, Stages
<1>2. /\ s[w] \in Problems /\ SolverOk(w) /\ s[w].con \in RowFactors /\ s[w].var \in ColFactors
      /\ ScaledBy(s[w], s[w].con, s[w].var)
  <2>1. s[w] \in Problems /\ SolverOk(w)
    BY DEF ScalingInv, TypeOK, SolverInv
  <2>2. w = "base" => ScaledBy(s[w], s[w].con, s[w].var)
    BY <1>1, BaseProblem DEF Consistent
  <2>3. w # "base" => ScaledBy(s[w], s[w].con, s[w].var)
    BY LaneProblem DEF LaneOk, Solvers
  <2> QED
    BY <2>1, <2>2, <2>3 DEF Problems
<1>3. /\ s[w].bound = 0 /\ s[w].objective = 0 /\ s[w].copied = {}
      /\ s[w].norms = [obj |-> ZeroCol, con |-> ZeroRow]
  BY <1>1, <1>2 DEF SolverOk, Unscaled, PassStages
<1>4. PICK q : /\ s' = [s EXCEPT ![w] = q]
               /\ q \in Problems /\ ScaledBy(q, s[w].con, s[w].var)
               /\ q.A = s[w].A /\ q.AT = s[w].AT /\ q.con = s[w].con /\ q.var = s[w].var
               /\ q.norms = s[w].norms /\ q.copied = s[w].copied
  <2>1. CASE UNCHANGED s
    <3>1. s' = [s EXCEPT ![w] = s[w]]
      BY <2>1 DEF ScalingInv, TypeOK
    <3> QED
      BY <1>2, <3>1
  <2>2. ASSUME NEW k \in GlobalFactors, NEW o \in GlobalFactors,
               s' = [s EXCEPT ![w] = GloballyScaled(s[w], k, o)]
        PROVE  \E q : /\ s' = [s EXCEPT ![w] = q]
                      /\ q \in Problems /\ ScaledBy(q, s[w].con, s[w].var)
                      /\ q.A = s[w].A /\ q.AT = s[w].AT /\ q.con = s[w].con /\ q.var = s[w].var
                      /\ q.norms = s[w].norms /\ q.copied = s[w].copied
    <3>1. PICK q : q = GloballyScaled(s[w], k, o)
      OBVIOUS
    <3>2. s' = [s EXCEPT ![w] = q]
      BY <2>2, <3>1
    <3>3. k \in Int /\ o \in Int
      BY ScalingAssumption
    <3>4. /\ q \in Problems /\ ScaledBy(q, s[w].con, s[w].var)
          /\ q.A = s[w].A /\ q.AT = s[w].AT /\ q.con = s[w].con /\ q.var = s[w].var
          /\ q.norms = s[w].norms /\ q.copied = s[w].copied
      BY <1>2, <1>3, <3>1, <3>3, BoundScaled
    <3> QED
      BY <3>2, <3>4
  <2> QED
    BY <2>1, <2>2 DEF BoundObjective, GloballyScaled
<1>5. s'[w] = q /\ \A v \in Solvers \ {w} : s'[v] = s[v]
  BY <1>4, Replaced DEF ScalingInv, TypeOK
<1>6. SolverOk(w)'
  BY <1>1, <1>3, <1>4, <1>5 DEF SolverOk, Unscaled, PassStages
<1>7. CASE w = "base"
  <2>1. /\ Consistent(s[w], matrix) /\ matrix \in Storages
        /\ ruiz \in [left : Nat, con : RowFactors, var : ColFactors]
        /\ ruiz.con = ZeroRow /\ ruiz.var = ZeroCol
        /\ matrix.active => matrix.csr = matrix.host /\ matrix.csrT = matrix.host
        /\ ~mode.dense => ~matrix.active
    BY <1>1, <1>7, BaseProblem
  <2>2. Consistent(q, matrix)
    BY <1>4, <2>1 DEF Consistent
  <2>3. Goes("base", "bound", "backend") /\ SolverOk("base")'
    BY <1>1, <1>6, <1>7
  <2> QED
    BY <1>1, <1>4, <1>7, <2>1, <2>2, <2>3, BaseStep DEF Stages
<1>8. CASE w # "base"
  <2>1. w \in Lanes /\ LaneOk(w)
    BY <1>8, LaneProblem DEF Solvers
  <2>2. s'["base"] = s["base"] /\ at'["base"] = at["base"]
    BY <1>1, <1>5, <1>8 DEF Solvers
  <2>3. LaneOk(w)'
    BY <1>1, <1>4, <1>5, <2>1, <2>2 DEF LaneOk, Base, Unscaled, PassStages
  <2> QED
    BY <1>1, <1>4, <1>6, <2>1, <2>3, LaneStep
<1> QED
  BY <1>7, <1>8

LEMMA PrepareBackendStep ==
    ASSUME ScalingInv, NEW w \in Solvers, PrepareBackend(w)
    PROVE  ScalingInv'
<1>1. /\ UNCHANGED <<mode, params, s, ruiz>> /\ Goes(w, "backend", "step")
      /\ at' \in [Solvers -> Stages] /\ at[w] = "backend" /\ at'[w] = "step"
      /\ \A v \in Solvers \ {w} : at'[v] = at[v]
      /\ matrix' = IF ~mode.dense /\ ~matrix.active
                   THEN [matrix EXCEPT !.active = TRUE, !.csr = matrix.host, !.csrT = matrix.host]
                   ELSE matrix
  BY Moved DEF PrepareBackend, ScalingInv, TypeOK, Stages
<1>2. s[w] \in Problems /\ SolverOk(w) /\ s' = [s EXCEPT ![w] = s[w]]
  BY <1>1 DEF ScalingInv, TypeOK, SolverInv
<1>3. SolverOk(w)'
  BY <1>1, <1>2 DEF SolverOk, Unscaled, PassStages
<1>4. CASE w = "base"
  <2>1. /\ Consistent(s[w], matrix) /\ matrix \in Storages
        /\ ruiz \in [left : Nat, con : RowFactors, var : ColFactors]
        /\ ruiz.con = ZeroRow /\ ruiz.var = ZeroCol
        /\ matrix.active => matrix.csr = matrix.host /\ matrix.csrT = matrix.host
        /\ ~mode.dense => ~matrix.active
    BY <1>1, <1>4, BaseProblem
  <2>2. /\ matrix' \in Storages /\ matrix'.host = matrix.host
        /\ matrix'.con = matrix.con /\ matrix'.var = matrix.var
        /\ matrix'.active => matrix'.csr = matrix'.host /\ matrix'.csrT = matrix'.host
        /\ ~mode.dense => matrix'.active
    <3>1. CASE mode.dense
      BY <1>1, <2>1, <3>1
    <3>2. CASE ~mode.dense
      <4>1. matrix' = [matrix EXCEPT !.active = TRUE, !.csr = matrix.host, !.csrT = matrix.host]
        BY <1>1, <2>1, <3>2
      <4> QED
        BY <2>1, <4>1 DEF Storages
    <3> QED
      BY <3>1, <3>2
  <2>3. Consistent(s[w], matrix')
    BY <2>1, <2>2 DEF Consistent
  <2>4. Goes("base", "backend", "step") /\ SolverOk("base")'
    BY <1>1, <1>3, <1>4
  <2> QED
    BY <1>1, <1>2, <1>4, <2>1, <2>2, <2>3, <2>4, BaseStep DEF Stages
<1>5. CASE w # "base"
  <2>1. w \in Lanes /\ LaneOk(w)
    BY <1>5, LaneProblem DEF Solvers
  <2>2. at["base"] = "ready"
    BY <1>1, <2>1 DEF LaneOk
  <2>3. ~mode.dense => matrix.active
    BY <2>2, BaseProblem
  <2>4. matrix' = matrix
    BY <1>1, <2>3
  <2>5. s'["base"] = s["base"] /\ at'["base"] = at["base"]
    BY <1>1, <1>5 DEF Solvers
  <2>6. LaneOk(w)'
    BY <1>1, <2>1, <2>5 DEF LaneOk, Base, Unscaled, PassStages, ScaledBy
  <2> QED
    BY <1>1, <1>2, <1>3, <2>1, <2>4, <2>6, LaneStep
<1> QED
  BY <1>4, <1>5

\* Past its unscaled stages, a solver's problem and the matrix it works with are
\* scaled by the same factors: those it publishes, Ruiz apart.
LEMMA Working ==
    ASSUME ScalingInv, NEW w \in Solvers, at[w] \notin Unscaled
    PROVE  \E con \in RowFactors, var \in ColFactors :
              /\ ScaledBy(s[w], con, var)
              /\ mode.dense => MatrixScaledBy(s[w].A, con, var) /\ matrix.host = ZeroMatrix
              /\ ~mode.dense => /\ MatrixScaledBy(matrix.host, con, var)
                                /\ matrix.con = con /\ matrix.var = var
              /\ at[w] # "ruiz" => /\ con = s[w].con /\ var = s[w].var
                                   /\ mode.dense => MatrixScaledBy(s[w].AT, con, var)
<1>1. CASE w = "base"
  <2>1. /\ ConCollected \in RowFactors /\ VarCollected \in ColFactors
        /\ at["base"] # "ruiz" => ConCollected = Base.con /\ VarCollected = Base.var
    BY Collected DEF ScalingInv
  <2>2. /\ ScaledBy(s[w], ConCollected, VarCollected)
        /\ mode.dense => /\ MatrixScaledBy(s[w].A, ConCollected, VarCollected)
                         /\ MatrixScaledBy(s[w].AT, Base.con, Base.var)
                         /\ matrix.host = ZeroMatrix
        /\ ~mode.dense => /\ MatrixScaledBy(matrix.host, ConCollected, VarCollected)
                          /\ matrix.con = ConCollected /\ matrix.var = VarCollected
    BY <1>1 DEF ScalingInv, BaseInv, MatrixInv, Base
  <2>3. at[w] # "ruiz" => /\ ConCollected = s[w].con /\ VarCollected = s[w].var
                          /\ mode.dense => MatrixScaledBy(s[w].AT, ConCollected, VarCollected)
    BY <1>1, <2>1, <2>2 DEF Base
  <2> QED
    BY <2>1, <2>2, <2>3
<1>2. CASE w # "base"
  <2>1. /\ w \in Lanes /\ LaneOk(w) /\ s[w].con \in RowFactors /\ s[w].var \in ColFactors
    BY <1>2, LaneProblem DEF Solvers
  <2>2. /\ at["base"] = "ready" /\ s[w].A = Base.A /\ s[w].AT = Base.AT
        /\ s[w].con = Base.con /\ s[w].var = Base.var
        /\ ScaledBy(s[w], s[w].con, s[w].var)
    BY <2>1 DEF LaneOk, Unscaled
  <2>3. Consistent(Base, matrix)
    BY <2>2, BaseProblem DEF Base
  <2> QED
    BY <2>1, <2>2, <2>3 DEF Consistent
<1> QED
  BY <1>1, <1>2

\* The step size comes from the norm of the matrix, adopted by a lane; the
\* reduced cost is that of the scaled objective.
LEMMA StepSizeStep ==
    ASSUME ScalingInv, NEW w \in Solvers, StepSize(w)
    PROVE  ScalingInv'
<1>1. /\ UNCHANGED <<mode, params, matrix, ruiz>> /\ Goes(w, "step", "ready")
      /\ at' \in [Solvers -> Stages] /\ at[w] = "step" /\ at'[w] = "ready"
      /\ \A v \in Solvers \ {w} : at'[v] = at[v]
  BY Moved DEF StepSize, ScalingInv, TypeOK, Stages
<1>2. /\ s[w] \in Problems /\ SolverOk(w) /\ matrix \in Storages /\ Base \in Problems
      /\ s[w].var \in ColFactors
  BY Collected DEF ScalingInv, TypeOK, SolverInv, Problems
<1>3. PICK con \in RowFactors, var \in ColFactors :
              /\ ScaledBy(s[w], con, var) /\ con = s[w].con /\ var = s[w].var
  BY <1>1, Working DEF Unscaled
<1>4. PICK z : z = IF params.warm THEN Shift(Minus(ZeroCol, s[w].var), s[w].objective) ELSE s[w].obj
  OBVIOUS
<1>5. z = s[w].obj
  BY <1>2, <1>3, <1>4, ReducedCost
<1>6. PICK A : A = IF w = "base" THEN Operator(w) ELSE Base.stepOn
  OBVIOUS
<1>7. A = (IF mode.dense THEN Base.A ELSE matrix.host) /\ A \in Matrices
  <2>1. CASE w = "base"
    <3>1. ~mode.dense => matrix.active /\ matrix.csr = matrix.host
      BY <1>1, <2>1, BaseProblem
    <3> QED
      BY <1>2, <1>6, <2>1, <3>1 DEF Operator, Base, Problems, Storages
  <2>2. CASE w # "base"
    <3>1. at["base"] = "ready"
      BY <1>1, <2>2, LaneProblem DEF LaneOk, Solvers
    <3>2. Base.stepOn = IF mode.dense THEN Base.A ELSE matrix.host
      BY <3>1, BaseProblem DEF SolverOk, Base
    <3> QED
      BY <1>2, <1>6, <2>2, <3>2 DEF Problems, Storages
  <2> QED
    BY <2>1, <2>2
<1>8. PICK q : q = [s[w] EXCEPT !.stepOn = A, !.z = z]
  OBVIOUS
<1>9. s' = [s EXCEPT ![w] = q]
  <2>1. s' = [s EXCEPT ![w].stepOn = A, ![w].z = z]
    BY <1>4, <1>6 DEF StepSize
  <2> QED
    BY <1>8, <2>1 DEF ScalingInv, TypeOK
<1>10. /\ q \in Problems /\ q.stepOn = A /\ q.z = z /\ q.obj = s[w].obj
       /\ q.A = s[w].A /\ q.AT = s[w].AT /\ q.con = s[w].con /\ q.var = s[w].var
       /\ q.conBound = s[w].conBound /\ q.y = s[w].y /\ q.varBound = s[w].varBound
       /\ q.x = s[w].x /\ q.bound = s[w].bound /\ q.objective = s[w].objective
       /\ q.norms = s[w].norms /\ q.copied = s[w].copied
  <2>1. z \in ColFactors
    BY <1>2, <1>5 DEF Problems
  <2> QED
    BY <1>2, <1>7, <1>8, <2>1 DEF Problems
<1>11. s'[w] = q /\ \A v \in Solvers \ {w} : s'[v] = s[v]
  BY <1>9, <1>10, Replaced DEF ScalingInv, TypeOK
<1>12. s[w].copied = {} /\ s[w].norms = [obj |-> ZeroCol, con |-> ZeroRow]
  BY <1>1, <1>2 DEF SolverOk
<1>13. ScaledBy(q, q.con, q.var)
  <2>1. ScaledBy(s[w], q.con, q.var)
    BY <1>3, <1>10
  <2> QED
    BY <1>10, <2>1, ScaledAlike
<1>14. Base'.A = Base.A
  BY <1>10, <1>11 DEF Base, Solvers
<1>15. SolverOk(w)'
  BY <1>1, <1>5, <1>7, <1>10, <1>11, <1>12, <1>14 DEF SolverOk, Unscaled, PassStages
<1>16. CASE w = "base"
  <2>1. /\ Consistent(s[w], matrix)
        /\ ruiz \in [left : Nat, con : RowFactors, var : ColFactors]
        /\ ruiz.con = ZeroRow /\ ruiz.var = ZeroCol
        /\ matrix.active => matrix.csr = matrix.host /\ matrix.csrT = matrix.host
        /\ ~mode.dense => matrix.active
    BY <1>1, <1>16, BaseProblem
  <2>2. Consistent(q, matrix)
    BY <1>10, <1>13, <2>1 DEF Consistent
  <2>3. Goes("base", "step", "ready") /\ SolverOk("base")'
    BY <1>1, <1>15, <1>16
  <2> QED
    BY <1>1, <1>2, <1>9, <1>10, <1>16, <2>1, <2>2, <2>3, BaseStep DEF Stages
<1>17. CASE w # "base"
  <2>1. w \in Lanes /\ LaneOk(w)
    BY <1>17, LaneProblem DEF Solvers
  <2>2. s'["base"] = s["base"] /\ at'["base"] = at["base"]
    BY <1>1, <1>11, <1>17 DEF Solvers
  <2>3. LaneOk(w)'
    BY <1>1, <1>10, <1>11, <1>13, <2>1, <2>2 DEF LaneOk, Base, Unscaled, PassStages
  <2> QED
    BY <1>1, <1>9, <1>10, <1>15, <2>1, <2>3, LaneStep
<1> QED
  BY <1>16, <1>17

\* The factors a certificate is rid of are those of its problem.
LEMMA CopyCertificateStep ==
    ASSUME ScalingInv, NEW w \in Solvers, CopyCertificate(w)
    PROVE  ScalingInv'
<1>1. /\ at[w] = "ready" /\ UNCHANGED <<mode, params, matrix, at, ruiz>>
      /\ s[w] \in Problems /\ SolverOk(w) /\ s[w].con \in RowFactors /\ s[w].var \in ColFactors
  BY DEF CopyCertificate, ScalingInv, TypeOK, SolverInv, Problems
<1>2. PICK con \in RowFactors, var \in ColFactors :
         /\ ScaledBy(s[w], con, var) /\ con = s[w].con /\ var = s[w].var
         /\ ~mode.dense => matrix.con = con /\ matrix.var = var
  BY <1>1, Working DEF Unscaled
<1>3. PICK q : q = [s[w] EXCEPT !.copied = {[var |-> s[w].var, con |-> s[w].con]}]
  OBVIOUS
<1>4. s' = [s EXCEPT ![w] = q]
  <2>1. s' = [s EXCEPT ![w].copied = {[var |-> s[w].var, con |-> s[w].con]}]
    <3>1. CASE mode.dense
      BY <3>1 DEF CopyCertificate
    <3>2. CASE ~mode.dense
      BY <1>2, <3>2 DEF CopyCertificate
    <3> QED
      BY <3>1, <3>2
  <2> QED
    BY <1>3, <2>1 DEF ScalingInv, TypeOK
<1>5. /\ q \in Problems /\ q.copied = {[var |-> s[w].var, con |-> s[w].con]}
      /\ q.obj = s[w].obj /\ q.stepOn = s[w].stepOn /\ q.z = s[w].z
      /\ q.A = s[w].A /\ q.AT = s[w].AT /\ q.con = s[w].con /\ q.var = s[w].var
      /\ q.conBound = s[w].conBound /\ q.y = s[w].y /\ q.varBound = s[w].varBound
      /\ q.x = s[w].x /\ q.bound = s[w].bound /\ q.objective = s[w].objective
      /\ q.norms = s[w].norms
  BY <1>1, <1>3 DEF Problems
<1>6. /\ s' \in [Solvers -> Problems] /\ s'[w] = q /\ \A v \in Solvers \ {w} : s'[v] = s[v]
  BY <1>4, <1>5, Replaced DEF ScalingInv, TypeOK
<1>7. TypeOK'
  BY <1>1, <1>6 DEF ScalingInv, TypeOK
<1>8. /\ s'["base"].A = Base.A /\ s'["base"].AT = Base.AT
      /\ s'["base"].con = Base.con /\ s'["base"].var = Base.var
  BY <1>5, <1>6 DEF Base, Solvers
<1>9. SolverOk(w)'
  BY <1>1, <1>5, <1>6, <1>8 DEF SolverOk, Base, Unscaled, PassStages
<1>10. ASSUME NEW v \in Solvers, v # w PROVE SolverOk(v)'
  <2>1. s'[v] = s[v] /\ at'[v] = at[v] /\ SolverOk(v)
    BY <1>1, <1>6, <1>10 DEF ScalingInv, SolverInv
  <2> QED
    BY <1>1, <1>8, <2>1 DEF SolverOk, Base
<1>11. LaneInv'
  <2> SUFFICES ASSUME NEW v \in Lanes PROVE LaneOk(v)'
    BY DEF LaneInv
  <2>1. LaneOk(v) /\ at'[v] = at[v] /\ v \in Solvers
    BY <1>1 DEF ScalingInv, LaneInv, Solvers
  <2>2. /\ s'[v].A = s[v].A /\ s'[v].AT = s[v].AT /\ s'[v].con = s[v].con /\ s'[v].var = s[v].var
        /\ s'[v].conBound = s[v].conBound /\ s'[v].y = s[v].y /\ s'[v].obj = s[v].obj
        /\ s'[v].varBound = s[v].varBound /\ s'[v].x = s[v].x
        /\ s'[v].bound = s[v].bound /\ s'[v].objective = s[v].objective
    BY <1>5, <1>6, <2>1
  <2>3. ScaledBy(s'[v], s'[v].con, s'[v].var)
    BY <2>1, <2>2 DEF LaneOk, ScaledBy
  <2> QED
    BY <1>1, <1>8, <2>1, <2>2, <2>3 DEF LaneOk, Base
<1>12. BaseInv' /\ MatrixInv'
  <2>1. CASE w = "base"
    <3>1. /\ Consistent(s[w], matrix) /\ ruiz.con = ZeroRow /\ ruiz.var = ZeroCol
          /\ matrix.active => matrix.csr = matrix.host /\ matrix.csrT = matrix.host
          /\ ~mode.dense => matrix.active
      BY <1>1, <2>1, BaseProblem
    <3>2. Consistent(q, matrix)
      BY <1>5, <3>1 DEF Consistent, ScaledBy
    <3> QED
      BY <1>1, <1>6, <1>7, <2>1, <3>1, <3>2, BaseConsistent
  <2>2. CASE w # "base"
    <3>1. s'["base"] = s["base"]
      BY <1>6, <2>2 DEF Solvers
    <3> QED
      BY <1>1, <3>1 DEF ScalingInv, BaseInv, MatrixInv, Base, ConCollected, VarCollected,
                        ScaledBy, MatrixScaledBy
  <2> QED
    BY <2>1, <2>2
<1> QED
  BY <1>7, <1>9, <1>10, <1>11, <1>12 DEF ScalingInv, SolverInv

------------------------------------------------------------------------------
(* The invariant, and what follows from it.                                *)

LEMMA InitScalingInv == Init => ScalingInv
<1> SUFFICES ASSUME Init PROVE ScalingInv
  OBVIOUS
<1>1. /\ ZeroRow \in RowFactors /\ ZeroCol \in ColFactors /\ ZeroMatrix \in Matrices
      /\ Plus(ZeroRow, ZeroRow) = ZeroRow /\ Plus(ZeroCol, ZeroCol) = ZeroCol
  BY ZeroFacts, ZeroPlus
<1>2. \A w \in Solvers : s[w] = Fresh
  BY DEF Init
<1>3. Fresh \in Problems /\ ScaledBy(Fresh, ZeroRow, ZeroCol)
  <2>1. Fresh \in Problems
    BY <1>1 DEF Fresh, Problems
  <2>2. \A r \in Rows : ZeroRow[r] = 0
    BY DEF ZeroRow
  <2>3. \A c \in Cols : ZeroCol[c] = 0
    BY DEF ZeroCol
  <2> QED
    BY <2>1, <2>2, <2>3 DEF ScaledBy, Fresh
<1>4. MatrixScaledBy(ZeroMatrix, ZeroRow, ZeroCol)
  BY DEF MatrixScaledBy, ZeroMatrix, ZeroRow, ZeroCol
<1>5. /\ ruiz \in [left : Nat, con : RowFactors, var : ColFactors]
      /\ ruiz.con = ZeroRow /\ ruiz.var = ZeroCol
  BY <1>1, ScalingAssumption DEF Init
<1>6. matrix \in Storages
  BY <1>1 DEF Init, Storages
<1>7. at \in [Solvers -> Stages]
  BY DEF Init, Stages
<1>8. at["base"] = "norms" /\ \A w \in Lanes : at[w] = "waits" /\ s[w] = Fresh
  BY <1>2, ScalingAssumption DEF Init, Solvers
<1>9. TypeOK
  BY <1>2, <1>3, <1>5, <1>6, <1>7 DEF TypeOK, Init
<1>10. Base = Fresh /\ Base.con = ZeroRow /\ Base.var = ZeroCol
       /\ Base.A = ZeroMatrix /\ Base.AT = ZeroMatrix
  BY <1>2 DEF Base, Solvers, Fresh
<1>11. ConCollected = ZeroRow /\ VarCollected = ZeroCol
  BY <1>1, <1>5, <1>10 DEF ConCollected, VarCollected
<1>12. BaseInv
  BY <1>3, <1>5, <1>8, <1>10, <1>11 DEF BaseInv
<1>13. MatrixInv
  BY <1>4, <1>8, <1>10, <1>11 DEF MatrixInv, Init
<1>14. LaneInv
  BY <1>3, <1>8 DEF LaneInv, LaneOk, Unscaled, PassStages, Fresh
<1>15. SolverInv
  BY <1>2, <1>8 DEF SolverInv, SolverOk, Solvers, Fresh
<1> QED
  BY <1>9, <1>12, <1>13, <1>14, <1>15 DEF ScalingInv

LEMMA NextScalingInv == ScalingInv /\ [Next]_vars => ScalingInv'
<1> SUFFICES ASSUME ScalingInv, [Next]_vars PROVE ScalingInv'
  OBVIOUS
<1>1. CASE GeometricMean
  BY <1>1, PassStep DEF GeometricMean
<1>2. CASE CurtisReid
  BY <1>2, PassStep DEF CurtisReid
<1>3. CASE RuizIteration
  BY <1>3, RuizIterationStep
<1>4. CASE RuizEnd
  BY <1>4, RuizEndStep
<1>5. CASE PockChambolle
  <2>1. CASE mode.batch
    BY <1>5, <2>1, PassStep DEF PockChambolle
  <2>2. CASE ~mode.batch
    BY <1>5, <2>2, PassStep DEF PockChambolle
  <2> QED
    BY <2>1, <2>2
<1>6. ASSUME NEW w \in Solvers,
             \/ Enter(w) \/ MeasureNorms(w) \/ Adopt(w) \/ BoundObjective(w)
             \/ PrepareBackend(w) \/ StepSize(w) \/ CopyCertificate(w)
      PROVE  ScalingInv'
  BY <1>6, EnterStep, MeasureNormsStep, AdoptStep, BoundObjectiveStep,
     PrepareBackendStep, StepSizeStep, CopyCertificateStep
<1>7. CASE UNCHANGED vars
  BY <1>7 DEF vars, ScalingInv, TypeOK, BaseInv, MatrixInv, LaneInv, LaneOk, SolverInv, SolverOk,
              Base, ConCollected, VarCollected, ScaledBy, MatrixScaledBy
<1>8. CASE Rests
  BY <1>7, <1>8 DEF Rests
<1> QED
  BY <1>1, <1>2, <1>3, <1>4, <1>5, <1>6, <1>7, <1>8 DEF Next

LEMMA ScalingInvariant == Spec => []ScalingInv
BY InitScalingInv, NextScalingInv, PTL DEF Spec

(***************************************************************************)
(* Every solver's arrays, the shared storage and the factors Ruiz collects *)
(* keep their types, whatever the passes chosen by initialize_solve.       *)
(***************************************************************************)
THEOREM ScalingTypeCorrect == Spec => []TypeOK
BY ScalingInvariant, PTL DEF ScalingInv

LEMMA ZeroScaled ==
    ASSUME NEW con \in RowFactors, NEW var \in ColFactors
    PROVE  /\ ScaledMatrix(ZeroMatrix, con, var) \in Matrices
           /\ MatrixScaledBy(ScaledMatrix(ZeroMatrix, con, var), con, var)
<1>1. \A r \in Rows, c \in Cols : ZeroMatrix[<<r, c>>] = 0
  BY DEF ZeroMatrix
<1> QED
  BY <1>1, ZeroFacts, MatrixFacts DEF MatrixScaledBy

LEMMA ScaledUnits ==
    ASSUME NEW p \in Problems, NEW A \in Matrices,
           NEW con \in RowFactors, NEW var \in ColFactors,
           ScaledBy(p, con, var), MatrixScaledBy(A, con, var)
    PROVE  /\ \A r \in Rows, c \in Cols : /\ A[<<r, c>>] + p.x[c] = p.conBound[r]
                                          /\ A[<<r, c>>] + p.y[r] = p.obj[c]
           /\ p.x = p.varBound
<1>1. p.bound \in Int /\ p.objective \in Int
  BY DEF Problems
<1>2. ASSUME NEW r \in Rows, NEW c \in Cols
      PROVE  A[<<r, c>>] + p.x[c] = p.conBound[r] /\ A[<<r, c>>] + p.y[r] = p.obj[c]
  <2>1. A[<<r, c>>] = 0 - con[r] - var[c]
    BY DEF MatrixScaledBy
  <2>2. p.conBound[r] = p.bound - con[r] /\ p.y[r] = con[r] + p.objective
    BY DEF ScaledBy
  <2>3. p.x[c] = var[c] + p.bound /\ p.obj[c] = p.objective - var[c]
    BY DEF ScaledBy
  <2>4. con[r] \in Int /\ var[c] \in Int
    BY DEF RowFactors, ColFactors
  <2> QED
    BY <1>1, <2>1, <2>2, <2>3, <2>4
<1>3. \A c \in Cols : p.x[c] = p.varBound[c]
  BY DEF ScaledBy
<1>4. p.x \in [Cols -> Int] /\ p.varBound \in [Cols -> Int]
  BY DEF Problems, ColFactors
<1>5. p.x = p.varBound
  BY <1>3, <1>4, PlusZero
<1> QED
  BY <1>2, <1>5

(***************************************************************************)
(* Whatever passes a solve runs, and in whichever of its layouts, all the  *)
(* arrays of its problem stay in matching units, Curtis-Reid fits the      *)
(* matrix it is about to scale, and a solver or a lane that is ready       *)
(* iterates with one matrix, its transpose and a step size of its norm.    *)
(***************************************************************************)
THEOREM ScalingUnitsAgree == Spec => []UnitsAgree
<1>1. ScalingInv => UnitsAgree
  <2> SUFFICES ASSUME ScalingInv, NEW w \in Solvers, at[w] \notin {"waits", "norms", "adopt"},
                      NEW A, A = IF mode.dense THEN s[w].A ELSE matrix.host
               PROVE  /\ \A r \in Rows, c \in Cols : /\ A[<<r, c>>] + s[w].x[c] = s[w].conBound[r]
                                                     /\ A[<<r, c>>] + s[w].y[r] = s[w].obj[c]
                      /\ s[w].x = s[w].varBound
                      /\ at[w] # "ruiz" => A = ScaledMatrix(ZeroMatrix, s[w].con, s[w].var)
                      /\ at[w] = "curtisReid" => A = FittedMatrix
                      /\ at[w] = "ready" => /\ s[w].z = s[w].obj
                                            /\ {Operator(w), Adjoint(w), s[w].stepOn} = {A}
    BY DEF UnitsAgree
  <2>1. /\ s[w] \in Problems /\ SolverOk(w) /\ matrix \in Storages
        /\ s[w].A \in Matrices /\ s[w].AT \in Matrices /\ matrix.host \in Matrices
    BY DEF ScalingInv, TypeOK, SolverInv, Problems, Storages
  <2>2. PICK con \in RowFactors, var \in ColFactors :
              /\ ScaledBy(s[w], con, var)
              /\ mode.dense => MatrixScaledBy(s[w].A, con, var) /\ matrix.host = ZeroMatrix
              /\ ~mode.dense => /\ MatrixScaledBy(matrix.host, con, var)
                                /\ matrix.con = con /\ matrix.var = var
              /\ at[w] # "ruiz" => /\ con = s[w].con /\ var = s[w].var
                                   /\ mode.dense => MatrixScaledBy(s[w].AT, con, var)
    BY Working DEF Unscaled
  <2>3. A \in Matrices /\ MatrixScaledBy(A, con, var)
    BY <2>1, <2>2
  <2>4. /\ \A r \in Rows, c \in Cols : /\ A[<<r, c>>] + s[w].x[c] = s[w].conBound[r]
                                       /\ A[<<r, c>>] + s[w].y[r] = s[w].obj[c]
        /\ s[w].x = s[w].varBound
    BY <2>1, <2>2, <2>3, ScaledUnits
  <2>5. at[w] # "ruiz" => A = ScaledMatrix(ZeroMatrix, s[w].con, s[w].var)
    BY <2>2, <2>3, ZeroScaled, SameMatrix
  <2>6. ASSUME at[w] = "curtisReid" PROVE A = FittedMatrix
    <3>1. w = "base"
      BY <2>6 DEF ScalingInv, LaneInv, LaneOk, Solvers, PassStages
    <3> QED
      BY <2>2, <2>5, <2>6, <3>1 DEF FittedMatrix, Base
  <2>7. ASSUME at[w] = "ready"
        PROVE  s[w].z = s[w].obj /\ {Operator(w), Adjoint(w), s[w].stepOn} = {A}
    <3>1. at["base"] = "ready" /\ s[w].A = Base.A
      BY <2>7, LaneProblem DEF LaneOk, Solvers, Base
    <3>2. s[w].z = s[w].obj /\ s[w].stepOn = IF mode.dense THEN Base.A ELSE matrix.host
      BY <2>1, <2>7 DEF SolverOk
    <3>3. ~mode.dense => matrix.csr = matrix.host /\ matrix.csrT = matrix.host
      BY <3>1, BaseProblem
    <3>4. mode.dense => s[w].AT = s[w].A
      BY <2>1, <2>2, <2>7, SameMatrix
    <3>5. s[w].stepOn = A /\ Operator(w) = A /\ Adjoint(w) = A
      BY <3>1, <3>2, <3>3, <3>4 DEF Operator, Adjoint
    <3> QED
      BY <3>2, <3>5
  <2> QED
    BY <2>4, <2>5, <2>6, <2>7
<1> QED
  BY <1>1, ScalingInvariant, PTL

LEMMA MetricsUnscaled ==
    ASSUME ScalingInv, NEW w \in Solvers, at[w] = "ready"
    PROVE  ReportedMetrics(w) \subseteq {0}
<1>1. s[w] \in Problems /\ SolverOk(w)
  BY DEF ScalingInv, TypeOK, SolverInv
<1>2. PICK con \in RowFactors, var \in ColFactors :
         ScaledBy(s[w], con, var) /\ con = s[w].con /\ var = s[w].var
  BY Working DEF Unscaled
<1>3. s[w].bound \in Int /\ s[w].objective \in Int /\ s[w].z = s[w].obj
  BY <1>1 DEF Problems, SolverOk
<1> DEFINE p == s[w]
           global == p.bound + p.objective
<1>4. ASSUME NEW r \in Rows
      PROVE  p.conBound[r] + p.con[r] - p.bound = 0 /\ p.conBound[r] + p.y[r] - global = 0
  <2>1. p.conBound[r] = p.bound - con[r] /\ p.y[r] = con[r] + p.objective /\ p.con[r] = con[r]
    BY <1>2 DEF ScaledBy
  <2>2. con[r] \in Int
    BY DEF RowFactors
  <2> QED
    BY <1>3, <2>1, <2>2
<1>5. ASSUME NEW c \in Cols
      PROVE  /\ p.obj[c] + p.var[c] - p.objective = 0 /\ p.obj[c] + p.x[c] - global = 0
             /\ p.varBound[c] + p.z[c] - global = 0
  <2>1. /\ p.obj[c] = p.objective - var[c] /\ p.x[c] = var[c] + p.bound
        /\ p.varBound[c] = var[c] + p.bound /\ p.var[c] = var[c] /\ p.z[c] = p.obj[c]
    BY <1>2, <1>3 DEF ScaledBy
  <2>2. var[c] \in Int
    BY DEF ColFactors
  <2> QED
    BY <1>3, <2>1, <2>2
<1> QED
  BY <1>4, <1>5 DEF ReportedMetrics

LEMMA PointUnscaled ==
    ASSUME ScalingInv, NEW w \in Solvers, at[w] = "ready"
    PROVE  ReportedPoint(w) \subseteq {0} /\ ReportedRays(w) \subseteq {0}
<1>1. s[w] \in Problems /\ SolverOk(w)
  BY DEF ScalingInv, TypeOK, SolverInv
<1>2. PICK con \in RowFactors, var \in ColFactors :
         /\ ScaledBy(s[w], con, var) /\ con = s[w].con /\ var = s[w].var
         /\ ~mode.dense => matrix.con = con /\ matrix.var = var
  BY Working DEF Unscaled
<1>3. s[w].bound \in Int /\ s[w].objective \in Int /\ s[w].z = s[w].obj
  BY <1>1 DEF Problems, SolverOk
<1>4. \A r \in Rows : s[w].y[r] - con[r] - s[w].objective = 0
  <2> SUFFICES ASSUME NEW r \in Rows PROVE s[w].y[r] - con[r] - s[w].objective = 0
    OBVIOUS
  <2>1. s[w].y[r] = con[r] + s[w].objective
    BY <1>2 DEF ScaledBy
  <2>2. con[r] \in Int
    BY DEF RowFactors
  <2> QED
    BY <1>3, <2>1, <2>2
<1>5. \A c \in Cols : /\ s[w].x[c] - var[c] - s[w].bound = 0
                      /\ s[w].z[c] + var[c] - s[w].objective = 0
  <2> SUFFICES ASSUME NEW c \in Cols
               PROVE  s[w].x[c] - var[c] - s[w].bound = 0 /\ s[w].z[c] + var[c] - s[w].objective = 0
    OBVIOUS
  <2>1. s[w].z[c] = s[w].objective - var[c] /\ s[w].x[c] = var[c] + s[w].bound
    BY <1>2, <1>3 DEF ScaledBy
  <2>2. var[c] \in Int
    BY DEF ColFactors
  <2> QED
    BY <1>3, <2>1, <2>2
<1>6. \A k \in s[w].copied : k.var = var /\ k.con = con
  BY <1>1, <1>2 DEF SolverOk
<1>7. ReportedPoint(w) \subseteq {0}
  BY <1>4, <1>5, <1>6 DEF ReportedPoint
<1>8. ReportedRays(w) \subseteq {0}
  BY <1>2, <1>4, <1>5 DEF ReportedRays
<1> QED
  BY <1>7, <1>8

(***************************************************************************)
(* Whatever was scaled by what, the residuals, objectives, certificates and*)
(* audited rays that a solver or a lane of a batch reports have every      *)
(* factor undone, and its norms are those of the caller's model.           *)
(***************************************************************************)
THEOREM ScalingReportsOriginal == Spec => []ReportsInOriginalUnits
<1>1. ScalingInv => ReportsInOriginalUnits
  <2> SUFFICES ASSUME ScalingInv, NEW w \in Solvers, at[w] = "ready"
               PROVE  /\ ReportedMetrics(w) \union ReportedPoint(w) \union ReportedRays(w)
                             \subseteq {0}
                      /\ s[w].norms = [obj |-> ZeroCol, con |-> ZeroRow]
    BY DEF ReportsInOriginalUnits
  <2>1. s[w].norms = [obj |-> ZeroCol, con |-> ZeroRow]
    BY DEF ScalingInv, SolverInv, SolverOk
  <2> QED
    BY <2>1, MetricsUnscaled, PointUnscaled
<1> QED
  BY <1>1, ScalingInvariant, PTL
==============================================================================
