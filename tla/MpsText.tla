------------------------------- MODULE MpsText --------------------------------
(***************************************************************************)
(* How a file spells the model it means: its sections, its lines in free   *)
(* or in fixed form, and the names they use.  What the reader makes of a   *)
(* file that spells its meaning is compared with that meaning.             *)
(***************************************************************************)
EXTENDS MpsParser

(* ---------------------------------------------------------- sections *)
Headers(f) ==
    {k \in DOMAIN f.lines : f.lines[k].free # <<>> /\ IsHeader(FreeTokens(f.lines[k]))}
Opened(f, h) == Sections[f.lines[h].free[1]]
SectionOf(f, k) ==
    LET before == {h \in Headers(f) : h < k}
    IN  IF before = {} THEN None ELSE Opened(f, Max(before))

Order == [OBJSENSE |-> 0, ROWS |-> 1, COLUMNS |-> 2, RHS |-> 3, RANGES |-> 4,
          BOUNDS |-> 5, ENDATA |-> 6]

\* The sections come in the order of the format, each once and to the last.
InSections(f) ==
    /\ \A h, k \in Headers(f) :
          h < k => \/ Order[Opened(f, h)] < Order[Opened(f, k)]
                   \/ Opened(f, h) = "OBJSENSE" /\ Opened(f, k) = "OBJSENSE"
    /\ \E h \in Headers(f) : Opened(f, h) = "ENDATA"

(* ------------------------------------------------------------- names *)
Constraints(f) == Said(f, "row") \ FreeRows(f)
RowNames(f) == {Means(f, k).name : k \in Constraints(f)}
NamesRow(f, name) == name = ObjectiveRow(f) \/ name \in RowNames(f)

EntriesBefore(f, k) == {j \in Said(f, "entries") : j < k}
ColumnsBefore(f, k) == {Means(f, j).col : j \in EntriesBefore(f, k)}
ColumnBefore(f, k) ==
    IF EntriesBefore(f, k) = {} THEN None ELSE Means(f, Max(EntriesBefore(f, k))).col

\* The names declared before line k, as the reader's tables would list them.
Declared(f, k) ==
    [objRow |-> ObjectiveRow(f), rows |-> [r \in RowNames(f) |-> r],
     cols |-> [c \in ColumnsBefore(f, k) |-> c], current |-> ColumnBefore(f, k)]

(* ------------------------------------------------------------- lines *)
Numeral(t, v) == Numeric(t) /\ Value(t) = v

\* Words that list the pairs after `start` others.
ListPairs(words, start, data) ==
    /\ Len(words) = start + 2 * Len(data)
    /\ \A i \in DOMAIN data : /\ words[start + 2 * i - 1] = data[i][1]
                              /\ Numeral(words[start + 2 * i], data[i][2])

SpellsSense(t, max) == t \in (IF max THEN {"MAX", "MAXIMIZE"} ELSE {"MIN", "MINIMIZE"})

\* The value of a bound is the last word, or left out for zero.
SpellsBound(words, at, m) ==
    /\ Len(words) \in {at, at + 1} /\ words[1] = m.type /\ words[at] = m.col
    /\ IF Len(words) = at THEN m.value = 0 ELSE Numeral(words[at + 1], m.value)

\* Vectors and bound sets may be named; a column may continue the last one.
FreeSays(f, k) ==
    LET words == f.lines[k].free
        m == Means(f, k)
    IN  /\ Len(words) <= 6
        /\ CASE m.is = "row" -> Len(words) = 2 /\ Initial(words[1]) = m.type /\ words[2] = m.name
             [] m.is = "entries" ->
                  \/ words[1] = m.col /\ ListPairs(words, 1, m.data)
                  \/ m.col = ColumnBefore(f, k) /\ ListPairs(words, 0, m.data)
             [] m.is \in {"rhs", "range"} ->
                  ListPairs(words, IF NamesRow(f, words[1]) THEN 0 ELSE 1, m.data)
             [] m.is = "bound" ->
                  \/ SpellsBound(words, 3, m)
                  \/ /\ SpellsBound(words, 2, m)
                     /\ Len(words) = 3 => words[3] \notin ColumnsBefore(f, k)
             [] m.is = "sense" -> Len(words) = 1 /\ SpellsSense(words[1], m.max)
             [] m.is = "nothing" -> Len(words) >= 2 /\ words[2] = "'MARKER'"

\* A line that begins like fixed columns: a row's type in column 2 and nothing
\* outside the fields of its name, or a record of pairs from column 5 on.
InColumns(f, k) ==
    LET line == f.lines[k]
    IN  /\ line.fixed # <<>>
        /\ SectionOf(f, k) = "ROWS" => line.stray = {}
        /\ SectionOf(f, k) \in {"COLUMNS", "RHS", "RANGES"} => Indented(line)

\* One pair or two, of rows of the file, in fields 3 to 6.
FieldPairs(f, fields, data) ==
    /\ Len(data) \in {1, 2}
    /\ \A i \in DOMAIN data : NamesRow(f, data[i][1])
    /\ fields[3] = data[1][1] /\ Numeral(fields[4], data[1][2])
    /\ IF Len(data) = 1 THEN fields[5] = None /\ fields[6] = None
       ELSE fields[5] = data[2][1] /\ Numeral(fields[6], data[2][2])

FixedSays(f, k) ==
    LET fields == f.lines[k].fixed
        m == Means(f, k)
    IN  /\ Len(fields) = 6 /\ InColumns(f, k)
        /\ CASE m.is = "row" -> fields = <<m.type, m.name, None, None, None, None>>
             [] m.is = "entries" ->
                  /\ fields[2] = m.col \/ (fields[2] = None /\ m.col = ColumnBefore(f, k))
                  /\ FieldPairs(f, fields, m.data)
             [] m.is \in {"rhs", "range"} ->
                  ~NamesRow(f, fields[2]) /\ FieldPairs(f, fields, m.data)
             [] m.is = "bound" ->
                  /\ fields[1] = m.type /\ fields[3] = m.col
                  /\ IF fields[4] = None THEN m.value = 0 ELSE Numeral(fields[4], m.value)
             [] m.is = "nothing" ->
                  fields[2] # None /\ fields[3] = "'MARKER'"
             [] OTHER -> FALSE

\* The reader takes a line in the form it is written in: in fixed form only
\* what begins like it and makes no sense in free form.
Clear(f, k) ==
    LET line == f.lines[k]
        sensible == FreeRecordIsValid(SectionOf(f, k), Declared(f, k), FreeTokens(line))
    IN  \/ FreeSays(f, k) /\ (~InColumns(f, k) \/ sensible)
        \/ FixedSays(f, k) /\ ~sensible

Part == [row |-> "ROWS", entries |-> "COLUMNS", rhs |-> "RHS", range |-> "RANGES",
         bound |-> "BOUNDS", sense |-> "OBJSENSE"]

\* The meaning of a record is one a model can have.
Meaningful(f, k) ==
    LET m == Means(f, k)
        paired == m.data \in Seq(STRING \X Int) /\ m.data # <<>>
    IN  CASE m.is = "row" -> m.type \in {"N", "L", "E", "G"} /\ m.name \in STRING \ {None}
          [] m.is = "entries" ->
               /\ m.col \in STRING \ {None} /\ paired
               /\ \A i \in DOMAIN m.data : m.data[i][1] # "'MARKER'"
          [] m.is \in {"rhs", "range"} -> paired
          [] m.is = "bound" ->
               /\ m.type \in LowerTypes \union UpperTypes
               /\ m.col \in ColumnsBefore(f, k) /\ m.value \in Int
          [] m.is = "sense" -> m.max \in BOOLEAN

\* A comment, a section's header with or without the sense, or a record.
Spelled(f, k) ==
    LET words == f.lines[k].free
        m == Means(f, k)
    IN  IF words = <<>> THEN m.is = "nothing"
        ELSE IF k \in Headers(f)
        THEN IF Len(words) = 1 THEN m.is = "nothing"
             ELSE m.is = "sense" /\ Meaningful(f, k) /\ SpellsSense(words[2], m.max)
        ELSE IF m.is = "nothing"
        THEN \/ SectionOf(f, k) \in {None, "ENDATA"}
             \/ SectionOf(f, k) = "COLUMNS" /\ Clear(f, k)
        ELSE /\ m.is \in DOMAIN Part /\ SectionOf(f, k) = Part[m.is]
             /\ Meaningful(f, k) /\ Clear(f, k)

\* No name is given to two rows, and no row two sides or ranges.
Understood(f) ==
    /\ FreeRows(f) # {} /\ InSections(f)
    /\ \A k \in DOMAIN f.lines : Spelled(f, k)
    /\ \A j, k \in Said(f, "row") : Means(f, j).name = Means(f, k).name => j = k
    /\ \A kind \in {"rhs", "range"} :
          \A d, e \in Data(f, kind) : RowOf(f, d) = RowOf(f, e) => d = e

------------------------------------------------------------------------------
(* What a file asks for fits the reader, and every line of it is delivered. *)
Fits(f) == Size(f) <= Limit
Whole(f) == f.opens /\ f.breaksAt = 0

\* A loaded problem as a model: the entries at the same place add up.
Entry(p, i, j) ==
    MapThenSumSet(LAMBDA q : p.values[q],
                  {q \in p.rowPtr[i - 1] + 1 .. p.rowPtr[i] : p.colInd[q] = j})
Loaded(p) ==
    [n |-> p.n, m |-> p.m, con |-> p.con, var |-> p.var, objective |-> p.objective,
     constant |-> p.constant, maximize |-> p.maximize,
     matrix |-> [i \in 1 .. p.m |-> [j \in 1 .. p.n |-> Entry(p, i, j)]]]

(***************************************************************************)
(* A file that spells its meaning is read as what it says -- whether its   *)
(* records are free or in fixed columns, name their vectors or not,        *)
(* continue the column before or begin one -- and one that needs an index  *)
(* past the limit is refused, never cut to it ("ERROR: MPS matrix          *)
(* dimension exceeds INT32_MAX").                                          *)
(***************************************************************************)
LoadsWhatTheFileSays ==
    /\ pc \in {"built", "loaded"} =>
          (Whole(file) /\ Understood(file) => Fits(file) /\ Loaded(problem) = Meaning(file))
    /\ state.errorFlag => (Whole(file) /\ Understood(file) => ~Fits(file))
==============================================================================
