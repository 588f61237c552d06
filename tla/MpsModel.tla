------------------------------ MODULE MpsModel -------------------------------
(***************************************************************************)
(* What an MPS file says, apart from how it is read: the meaning its lines *)
(* have for the person who wrote them.  The reader of MpsParser is checked *)
(* against it.                                                             *)
(*                                                                         *)
(* A line means something of one of the kinds "row" (type, name), "entries"*)
(* (col, data), "rhs" and "range" (data), "bound" (type, col, value),      *)
(* "sense" (max) or nothing at all; data is a sequence of <<row, value>>.  *)
(***************************************************************************)
EXTENDS Integers, Sequences, FiniteSets, FiniteSetsExt, SequencesExt

CONSTANT Inf    \* INFINITY

Said(f, kind) == {k \in DOMAIN f.lines : f.lines[k].means.is = kind}
Means(f, k) == f.lines[k].means

\* Every <<row, value>> pair of the lines of a kind, as <<line, position>>.
Data(f, kind) == UNION {{k} \X DOMAIN Means(f, k).data : k \in Said(f, kind)}
RowOf(f, d) == Means(f, d[1]).data[d[2]][1]
ValueOf(f, d) == Means(f, d[1]).data[d[2]][2]
About(f, kind, row) == {d \in Data(f, kind) : RowOf(f, d) = row}
Total(f, D) == MapThenSumSet(LAMBDA d : ValueOf(f, d), D)

\* The numbers of a finite set, the least first.
InOrder(S) == [i \in 1 .. Cardinality(S) |->
                 CHOOSE k \in S : Cardinality({j \in S : j <= k}) = i]

\* The objective is the first free row; the other free rows say nothing.
FreeRows(f) == {k \in Said(f, "row") : Means(f, k).type = "N"}
ObjectiveRow(f) == Means(f, Min(FreeRows(f))).name
ConstraintLines(f) == InOrder(Said(f, "row") \ FreeRows(f))

\* A variable is declared by the first line with entries for it.
Declares(f, k) ==
    k \in Said(f, "entries") /\ \A j \in Said(f, "entries") :
                                    j < k => Means(f, j).col # Means(f, k).col
ColumnNames(f) ==
    LET lines == InOrder({k \in Said(f, "entries") : Declares(f, k)})
    IN  [i \in DOMAIN lines |-> Means(f, lines[i]).col]

Coefficient(f, row, col) ==
    Total(f, {d \in About(f, "entries", row) : Means(f, d[1]).col = col})

Abs(v) == IF v < 0 THEN -v ELSE v

\* The interval of a constraint, from its type, right-hand side and range.
Interval(f, k) ==
    LET name == Means(f, k).name
        type == Means(f, k).type
        rhs == Total(f, About(f, "rhs", name))
        ranged == About(f, "range", name) # {}
        range == Total(f, About(f, "range", name))
    IN  CASE type = "L" -> <<IF ranged THEN rhs - Abs(range) ELSE -Inf, rhs>>
          [] type = "G" -> <<rhs, IF ranged THEN rhs + Abs(range) ELSE Inf>>
          [] type = "E" -> IF range < 0 THEN <<rhs + range, rhs>> ELSE <<rhs, rhs + range>>

\* The last line that sets an end of a variable's interval decides it.
LowerTypes == {"LO", "FX", "FR", "MI", "BV"}
UpperTypes == {"UP", "FX", "FR", "PL", "BV"}
Settled(f, col, types, default, Limit(_)) ==
    LET lines == {k \in Said(f, "bound") : Means(f, k).col = col /\ Means(f, k).type \in types}
    IN  IF lines = {} THEN default ELSE Limit(Means(f, Max(lines)))
LowerBound(b) ==
    CASE b.type \in {"LO", "FX"} -> b.value [] b.type \in {"FR", "MI"} -> -Inf [] b.type = "BV" -> 0
UpperBound(b) ==
    CASE b.type \in {"UP", "FX"} -> b.value [] b.type \in {"FR", "PL"} -> Inf [] b.type = "BV" -> 1

Maximizes(f) ==
    LET lines == Said(f, "sense") IN lines # {} /\ Means(f, Max(lines)).max

\* The model a file describes; rows and columns are numbered as declared.
Meaning(f) ==
    LET rows == ConstraintLines(f)
        cols == ColumnNames(f)
    IN  [n |-> Len(cols), m |-> Len(rows),
         matrix |-> [i \in DOMAIN rows |-> [j \in DOMAIN cols |->
                        Coefficient(f, Means(f, rows[i]).name, cols[j])]],
         con |-> [i \in DOMAIN rows |-> Interval(f, rows[i])],
         var |-> [j \in DOMAIN cols |->
                    <<Settled(f, cols[j], LowerTypes, 0, LowerBound),
                      Settled(f, cols[j], UpperTypes, Inf, UpperBound)>>],
         objective |-> [j \in DOMAIN cols |-> Coefficient(f, ObjectiveRow(f), cols[j])],
         constant |-> -Total(f, About(f, "rhs", ObjectiveRow(f))),
         maximize |-> Maximizes(f)]

\* How many rows, columns and nonzeros a file needs.
Size(f) ==
    Max({Len(ConstraintLines(f)), Len(ColumnNames(f)),
         Cardinality({d \in Data(f, "entries") :
                        \E i \in DOMAIN ConstraintLines(f) :
                            RowOf(f, d) = Means(f, ConstraintLines(f)[i]).name})})
==============================================================================
