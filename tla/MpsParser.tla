------------------------------ MODULE MpsParser ------------------------------
(***************************************************************************)
(* The MPS reader of mps_parser.c and the loader of mps_loader.c: one pass *)
(* over the lines of a file into a parser state, whose arrays the returned *)
(* problem takes over, with the ownership of every allocated block.        *)
(*                                                                         *)
(* A line is what the reader delivers: `free`, its whitespace tokens, and  *)
(* `fixed`, the six classic fields (columns 2-3, 5-12, 15-22, 25-36, 40-47,*)
(* 50-61; "" when blank), or <<>> when it does not begin with a space.     *)
(* `stray` has 3 and 4 when those columns are not blank, and 13 when a     *)
(* later column outside the fields is not.                                 *)
(* Tokens are opaque; Numerals gives a numeric one its value.  Names stand *)
(* for the indices the maps give them.                                     *)
(***************************************************************************)
EXTENDS MpsModel

CONSTANTS
    Files,      \* [lines, opens, breaksAt (0: never)]: the inputs
    Limit,      \* MLXPDLP_MPS_INDEX_LIMIT
    Numerals,   \* the numeric tokens, with what strtod returns for them
    Initials    \* the tokens of several letters that begin like a row type

ASSUME MpsAssumption ==
    /\ \A f \in Files :
          /\ f.lines \in Seq(ToSet(f.lines))
          /\ \A line \in ToSet(f.lines) :
                line.free \in Seq(STRING) /\ line.fixed \in Seq(STRING) /\ Len(line.fixed) \in {0, 6}
                /\ line.stray \subseteq {3, 4, 13}
    /\ Limit \in Nat
    /\ \A t \in DOMAIN Numerals : Numerals[t] \in Int
    /\ \A t \in DOMAIN Initials : Initials[t] \in STRING

\* A blank or a marker is no number, a row type has no more letters.
ASSUME TokensAssumption ==
    /\ "" \notin DOMAIN Numerals /\ "'MARKER'" \notin DOMAIN Numerals
    /\ \A t \in DOMAIN Initials : t \notin {"N", "L", "E", "G"}

VARIABLES
    file,       \* the file read
    pos,        \* lines delivered by fast_reader_gets
    section,    \* current_section
    finalized,  \* rows_finalized
    state,      \* MpsParserState
    problem,    \* the lp_problem_t, or NoProblem
    pc,         \* where read_mps_file or its caller is
    heap,       \* the blocks allocated and not yet freed
    holds,      \* the blocks each owner's pointers point to
    badFree     \* whether a block has been freed that was not allocated

mpsVars == <<file, pos, section, finalized, state, problem, pc, heap, holds, badFree>>

None == ""
NoProblem == [n |-> 0]
Owners == {"parser", "problem", "handle"}
Arrays == {"obj", "lb", "ub", "conLb", "conUb"}

Numeric(t) == t \in DOMAIN Numerals
Value(t) == IF Numeric(t) THEN Numerals[t] ELSE 0
Initial(t) == IF t \in DOMAIN Initials THEN Initials[t] ELSE t

\* The <row, value> pairs of a record's tokens after the first `start`.
Pairs(tokens, start) ==
    [k \in 1 .. (Len(tokens) - start) \div 2 |->
        <<tokens[start + 2 * k - 1], tokens[start + 2 * k]>>]

(* --------------------------------------------------------------- names *)
Known(map, name) == name \in ToSet(map)
Put(map, name) == IF Known(map, name) THEN map ELSE Append(map, name)
CannotPut(map, name) == ~Known(map, name) /\ Len(map) >= Limit

\* An array with the element of one more index.
Extended(array, x, v) ==
    [y \in {x} \union DOMAIN array |-> IF y = x THEN v ELSE array[y]]

KnownRow(s, name) == name # None /\ (name = s.objRow \/ Known(s.rows, name))
RowDataStart(s, tokens) == IF Len(tokens) > 0 /\ KnownRow(s, tokens[1]) THEN 0 ELSE 1

\* Takes the second name for the column whenever it is one.
DEV_SecondFirst(s, tokens) ==
    IF Len(tokens) > 1 /\ Known(s.cols, tokens[2]) THEN 2
    ELSE IF Len(tokens) > 2 /\ Known(s.cols, tokens[3]) THEN 3
    ELSE 0

\* 0 where the code returns -1; positions count from 1.
BoundColumn(s, tokens) ==
    IF Len(tokens) > 2 /\ Known(s.cols, tokens[3]) THEN 3
    ELSE IF Len(tokens) > 1 /\ Known(s.cols, tokens[2]) THEN 2
    ELSE 0

(* ------------------------------------------------- free or fixed record *)
ValidPairs(s, tokens, start) ==
    /\ Len(tokens) - start >= 2 /\ (Len(tokens) - start) % 2 = 0
    /\ \A k \in DOMAIN Pairs(tokens, start) :
          LET pair == Pairs(tokens, start)[k] IN KnownRow(s, pair[1]) /\ Numeric(pair[2])

ValidFreeColumns(s, tokens) ==
    LET start == Len(tokens) % 2
    IN  /\ Len(tokens) >= 2
        /\ \/ tokens[2] = "'MARKER'"
           \/ (start = 1 \/ s.current # None) /\ ValidPairs(s, tokens, start)

ValidFreeBound(s, tokens) ==
    LET after == Len(tokens) - BoundColumn(s, tokens)
        numeric == Numeric(tokens[BoundColumn(s, tokens) + 1])
    IN  /\ Len(tokens) \in 2 .. 4 /\ BoundColumn(s, tokens) # 0
        /\ \/ tokens[1] \in {"LO", "UP", "FX"} /\ after = 1 /\ numeric
           \/ tokens[1] \in {"FR", "MI", "PL", "BV"} /\ (after = 0 \/ (after = 1 /\ numeric))

FreeRecordIsValid(part, s, tokens) ==
    CASE part = "ROWS" -> Len(tokens) = 2 /\ tokens[1] \in {"N", "L", "E", "G"}
      [] part = "COLUMNS" -> ValidFreeColumns(s, tokens)
      [] part \in {"RHS", "RANGES"} -> ValidPairs(s, tokens, RowDataStart(s, tokens))
      [] part = "BOUNDS" -> ValidFreeBound(s, tokens)
      [] OTHER -> TRUE

Nonblank(fields) ==
    FoldLeft(LAMBDA kept, t : IF t = None THEN kept ELSE Append(kept, t), <<>>, fields)

\* A name field, a <row, value> pair and perhaps a second pair.
FixedPairs(s, f) ==
    IF /\ KnownRow(s, f[3]) /\ Numeric(f[4])
       /\ (f[5] = None) <=> (f[6] = None)
       /\ f[5] # None => KnownRow(s, f[5]) /\ Numeric(f[6])
    THEN Nonblank(SubSeq(f, 2, 6)) ELSE <<>>

FixedColumns(s, f) ==
    IF f[3] = "'MARKER'"
    THEN IF f[2] = None THEN <<>> ELSE <<f[2], f[3]>>
    ELSE FixedPairs(s, f)

\* A type in column 2 and a name, with nothing between or after them.
FixedRow(line) ==
    LET f == line.fixed
    IN  IF /\ line.stray = {} /\ Nonblank(SubSeq(f, 3, 6)) = <<>>
           /\ f[1] \in {"N", "L", "E", "G"} /\ f[2] # None
        THEN <<f[1], f[2]>> ELSE <<>>

\* Columns 2 to 4 are blank.
Indented(line) == line.fixed[1] = None /\ 4 \notin line.stray

FixedBounds(s, f) ==
    IF f[1] # None /\ Known(s.cols, f[3]) /\ (f[4] = None \/ Numeric(f[4]))
    THEN <<f[1], f[2], f[3]>> \o Nonblank(<<f[4]>>) ELSE <<>>

TokenizeFixedRecord(s, line) ==
    LET f == line.fixed
    IN  CASE f = <<>> -> <<>>
          [] f # <<>> /\ section = "ROWS" -> FixedRow(line)
          [] f # <<>> /\ section = "COLUMNS" -> IF Indented(line) THEN FixedColumns(s, f) ELSE <<>>
          [] f # <<>> /\ section \in {"RHS", "RANGES"} ->
               IF Indented(line) THEN FixedPairs(s, f) ELSE <<>>
          [] f # <<>> /\ section = "BOUNDS" -> FixedBounds(s, f)
          [] OTHER -> <<>>

FreeTokens(line) == SubSeq(line.free, 1, Min({6, Len(line.free)}))
Tokens(s, line) ==
    LET free == FreeTokens(line)
        fixed == TokenizeFixedRecord(s, line)
    IN  IF FreeRecordIsValid(section, s, free) \/ fixed = <<>> THEN free ELSE fixed

(* ------------------------------------------------------- the sections *)
SetSense(s, token) ==
    CASE token \in {"MAX", "MAXIMIZE"} -> [s EXCEPT !.maximize = TRUE]
      [] token \in {"MIN", "MINIMIZE"} -> [s EXCEPT !.maximize = FALSE]
      [] OTHER -> s

ParseRow(s, tokens) ==
    IF Len(tokens) < 2 THEN s
    ELSE [s EXCEPT !.buffered = Append(@, [type |-> Initial(tokens[1]), name |-> tokens[2]])]

\* The first N row is the objective, or the first row where there is none.
ObjectiveIndex(buffered) ==
    LET free == {k \in DOMAIN buffered : buffered[k].type = "N"}
    IN  IF free # {} THEN Min(free) ELSE IF buffered = <<>> THEN 0 ELSE 1

FreshInterval(type) ==
    CASE type = "L" -> <<-Inf, 0>> [] type = "G" -> <<0, Inf>> [] OTHER -> <<0, 0>>

AddRow(s, row) ==
    IF s.errorFlag \/ row.type \notin {"E", "L", "G"} THEN s
    ELSE IF CannotPut(s.rows, row.name) THEN [s EXCEPT !.errorFlag = TRUE]
    ELSE [s EXCEPT !.rows = Put(@, row.name), !.types = Extended(@, row.name, row.type)]

FinalizeRows(s) ==
    LET at == ObjectiveIndex(s.buffered)
        named == IF at = 0 THEN s ELSE [s EXCEPT !.objRow = s.buffered[at].name]
        added == FoldLeft(AddRow, named, RemoveAt(s.buffered, at))
    IN  IF added.errorFlag THEN added
        ELSE [added EXCEPT !.con = [r \in ToSet(added.rows) |-> FreshInterval(added.types[r])]]

AddEntry(s, col, pair) ==
    IF s.errorFlag THEN s
    ELSE IF pair[1] = s.objRow THEN [s EXCEPT !.obj[col] = @ + Value(pair[2])]
    ELSE IF ~Known(s.rows, pair[1]) THEN s
    ELSE IF Len(s.coo) >= Limit THEN [s EXCEPT !.errorFlag = TRUE]
    ELSE [s EXCEPT !.coo = Append(@, [row |-> pair[1], col |-> col, value |-> Value(pair[2])])]

\* ensure_column_capacity and namemap_put; how the arrays grow is left out.
AddColumn(s, col) ==
    IF Known(s.cols, col) THEN s
    ELSE IF CannotPut(s.cols, col) THEN [s EXCEPT !.errorFlag = TRUE]
    ELSE [s EXCEPT !.cols = Put(@, col), !.obj = Extended(@, col, 0),
                   !.var = Extended(@, col, <<0, Inf>>)]

ParseColumn(s, tokens) ==
    LET start == Len(tokens) % 2
        named == IF start = 1 THEN [s EXCEPT !.current = tokens[1]] ELSE s
        col == named.current
    IN  IF Len(tokens) < 2 \/ tokens[2] = "'MARKER'" THEN s
        ELSE IF col = None THEN [s EXCEPT !.errorFlag = TRUE]
        ELSE FoldLeft(LAMBDA t, pair : AddEntry(t, col, pair), AddColumn(named, col),
                      Pairs(tokens, start))

SetRhs(s, row, v) ==
    IF row = s.objRow THEN [s EXCEPT !.constant = -v]
    ELSE IF ~Known(s.rows, row) THEN s
    ELSE [s EXCEPT !.con[row] =
            CASE s.types[row] = "L" -> <<@[1], v>>
              [] s.types[row] = "G" -> <<v, @[2]>>
              [] OTHER -> <<v, v>>]

SetRange(s, row, r) ==
    IF ~Known(s.rows, row) THEN s
    ELSE [s EXCEPT !.con[row] =
            CASE s.types[row] = "G" -> <<@[1], @[1] + Abs(r)>>
              [] s.types[row] = "L" -> <<@[2] - Abs(r), @[2]>>
              [] s.types[row] = "E" /\ r >= 0 -> <<@[1], @[1] + r>>
              [] OTHER -> <<@[1] + r, @[2]>>]

ParseRhs(s, tokens) ==
    FoldLeft(LAMBDA t, pair : SetRhs(t, pair[1], Value(pair[2])), s,
             Pairs(tokens, RowDataStart(s, tokens)))

ParseRange(s, tokens) ==
    FoldLeft(LAMBDA t, pair : SetRange(t, pair[1], Value(pair[2])), s,
             Pairs(tokens, RowDataStart(s, tokens)))

Bounded(interval, type, v) ==
    CASE type = "LO" -> <<v, interval[2]>>
      [] type = "UP" -> <<interval[1], v>>
      [] type = "FX" -> <<v, v>>
      [] type = "FR" -> <<-Inf, Inf>>
      [] type = "MI" -> <<-Inf, interval[2]>>
      [] type = "PL" -> <<interval[1], Inf>>
      [] type = "BV" -> <<0, 1>>
      [] OTHER -> interval

ParseBound(s, tokens) ==
    LET at == BoundColumn(s, tokens)
        v == IF at < Len(tokens) THEN Value(tokens[at + 1]) ELSE 0
    IN  IF at = 0 THEN s ELSE [s EXCEPT !.var[tokens[at]] = Bounded(@, tokens[1], v)]

ParseRecord(s, tokens) ==
    CASE section = "OBJSENSE" -> SetSense(s, tokens[1])
      [] section = "ROWS" -> ParseRow(s, tokens)
      [] section = "COLUMNS" -> ParseColumn(s, tokens)
      [] section = "RHS" -> ParseRhs(s, tokens)
      [] section = "RANGES" -> ParseRange(s, tokens)
      [] section = "BOUNDS" -> ParseBound(s, tokens)
      [] OTHER -> s

(* --------------------------------------------------------- CSR arrays *)
\* Counting sort of the entries with these keys into buckets 1 .. n: where
\* the buckets begin, and the place of entry k.
Pointers(keys, n) == [i \in 0 .. n |-> Cardinality({k \in DOMAIN keys : keys[k] <= i})]
Place(keys, k) ==
    Pointers(keys, keys[k])[keys[k] - 1] + Cardinality({j \in 1 .. k : keys[j] = keys[k]})
Source(keys, p) == CHOOSE k \in DOMAIN keys : Place(keys, k) = p

Index(map, name) == CHOOSE i \in DOMAIN map : map[i] = name

\* The problem read_mps_file returns: the parser's arrays, the entries in CSR.
Converted(s) ==
    LET keys == [k \in DOMAIN s.coo |-> Index(s.rows, s.coo[k].row)]
        entry(p) == s.coo[Source(keys, p)]
    IN  [n |-> Len(s.cols), m |-> Len(s.rows), nnz |-> Len(s.coo),
         rowPtr |-> Pointers(keys, Len(s.rows)),
         colInd |-> [p \in DOMAIN s.coo |-> Index(s.cols, entry(p).col)],
         values |-> [p \in DOMAIN s.coo |-> entry(p).value],
         con |-> [i \in DOMAIN s.rows |-> s.con[s.rows[i]]],
         var |-> [j \in DOMAIN s.cols |-> s.var[s.cols[j]]],
         objective |-> [j \in DOMAIN s.cols |-> s.obj[s.cols[j]]],
         constant |-> s.constant, maximize |-> s.maximize]

------------------------------------------------------------------------------
(* ------------------------------------------------------ the main loop *)
Sections ==
    [ROWS |-> "ROWS", COLUMNS |-> "COLUMNS", RHS |-> "RHS", RANGES |-> "RANGES",
     BOUNDS |-> "BOUNDS", OBJSENSE |-> "OBJSENSE", OBJSENS |-> "OBJSENSE", ENDATA |-> "ENDATA"]

IsHeader(tokens) ==
    /\ tokens[1] \in DOMAIN Sections
    /\ \/ Len(tokens) = 1
       \/ Len(tokens) > 1 /\ Sections[tokens[1]] = "OBJSENSE"
          /\ tokens[2] \in {"MAX", "MAXIMIZE", "MIN", "MINIMIZE"}

InitialState ==
    [buffered |-> <<>>, rows |-> <<>>, cols |-> <<>>, coo |-> <<>>, types |-> <<>>,
     obj |-> <<>>, var |-> <<>>, con |-> <<>>, objRow |-> None, current |-> None,
     constant |-> 0, maximize |-> FALSE, errorFlag |-> FALSE]

\* The blocks a parser state's pointers point to.
PointsTo(s) ==
    {"rowMap", "colMap"}
    \union (IF s.buffered # <<>> THEN {"buffered"} ELSE {})
    \union (IF s.objRow # None THEN {"objRow"} ELSE {})
    \union (IF s.current # None THEN {"current"} ELSE {})
    \union (IF s.coo # <<>> THEN {"coo"} ELSE {})
    \union (IF s.rows # <<>> THEN {"types"} ELSE {})
    \union (IF s.cols # <<>> THEN {"obj", "lb", "ub"} ELSE {})
    \union (IF s.con # <<>> THEN {"conLb", "conUb"} ELSE {})

MpsInit ==
    /\ file \in Files
    /\ pos = 0 /\ section = None /\ finalized = FALSE
    /\ state = InitialState /\ problem = NoProblem /\ pc = "open"
    /\ heap = {} /\ holds = [o \in Owners |-> {}] /\ badFree = FALSE

Free(blocks) ==
    /\ heap' = heap \ blocks
    /\ badFree' = (badFree \/ ~(blocks \subseteq heap))

OpenFails ==
    /\ pc = "open" /\ ~file.opens
    /\ pc' = "null"
    /\ UNCHANGED <<file, pos, section, finalized, state, problem, heap, holds, badFree>>

Open ==
    /\ pc = "open" /\ file.opens
    /\ heap' = {"reader"} \union PointsTo(InitialState)
    /\ holds' = [holds EXCEPT !["parser"] = PointsTo(InitialState)]
    /\ pc' = "reading"
    /\ UNCHANGED <<file, pos, section, finalized, state, problem, badFree>>

\* fast_reader_gets returns NULL at the end of the file, when reading fails
\* and when a line does not fit its buffer.  A line cut short by a failure
\* is delivered as the last one.
Delivered == pos < Len(file.lines) /\ (file.breaksAt = 0 \/ pos + 1 < file.breaksAt)
Stops == state.errorFlag \/ section = "ENDATA" \/ ~Delivered
Line == file.lines[pos + 1]

Reads(s) ==
    /\ state' = s
    /\ holds' = [holds EXCEPT !["parser"] = @ \union PointsTo(s)]
    /\ heap' = heap \union PointsTo(s)
    /\ pos' = pos + 1
    /\ UNCHANGED <<file, problem, pc, badFree>>

\* A comment or a blank line has no token.
SkipLine ==
    /\ pc = "reading" /\ ~Stops /\ Line.free = <<>>
    /\ Reads(state)
    /\ UNCHANGED <<section, finalized>>

HeaderLine ==
    /\ pc = "reading" /\ ~Stops /\ Line.free # <<>> /\ IsHeader(FreeTokens(Line))
    /\ LET next == Sections[Line.free[1]]
           leaving == section = "ROWS" /\ next # "ROWS" /\ ~finalized
           closed == IF leaving THEN FinalizeRows(state) ELSE state
       IN  /\ finalized' = (finalized \/ leaving)
           /\ section' = next
           /\ Reads(IF Len(Line.free) > 1 THEN SetSense(closed, Line.free[2]) ELSE closed)

RecordLine ==
    /\ pc = "reading" /\ ~Stops /\ Line.free # <<>> /\ ~IsHeader(FreeTokens(Line))
    /\ Reads(ParseRecord(state, Tokens(state, Line)))
    /\ UNCHANGED <<section, finalized>>

CloseReader ==
    /\ pc = "reading" /\ Stops
    /\ Free({"reader"})
    /\ pc' = "parsed"
    /\ UNCHANGED <<file, pos, section, finalized, state, problem, holds>>

(* -------------------------------------------------- what the caller gets *)
Acceptable(s) ==
    ~s.errorFlag /\ Len(s.rows) <= Limit /\ Len(s.cols) <= Limit /\ Len(s.coo) <= Limit

Reject ==
    /\ pc = "parsed" /\ ~Acceptable(state)
    /\ Free(holds["parser"])
    /\ pc' = "null"
    /\ UNCHANGED <<file, pos, section, finalized, state, problem, holds>>

\* Leaves the parser's pointers to the arrays in place.
DEV_KeepsPointers ==
    [holds EXCEPT !["problem"] = {"prob", "csr"} \union (holds["parser"] \intersect Arrays)]

\* The problem takes over the five arrays: the parser's pointers are nulled.
TakeOver ==
    [holds EXCEPT !["problem"] = {"prob", "csr"} \union (holds["parser"] \intersect Arrays),
                  !["parser"] = @ \ Arrays]

Build ==
    /\ pc = "parsed" /\ Acceptable(state)
    /\ problem' = Converted(state)
    /\ holds' = TakeOver
    /\ heap' = (heap \union {"prob", "csr"}) \ TakeOver["parser"]
    /\ badFree' = (badFree \/ ~(TakeOver["parser"] \subseteq heap))
    /\ pc' = "built"
    /\ UNCHANGED <<file, pos, section, finalized, state>>

\* mlxpdlp_mps_problem_load wraps the parsed problem, or releases it.
Wrap ==
    /\ pc = "built"
    /\ heap' = heap \union {"handle"}
    /\ holds' = [holds EXCEPT !["handle"] = {"handle"}]
    /\ pc' = "loaded"
    /\ UNCHANGED <<file, pos, section, finalized, state, problem, badFree>>

WrapFails ==
    /\ pc = "built"
    /\ Free(holds["problem"])
    /\ pc' = "null"
    /\ UNCHANGED <<file, pos, section, finalized, state, problem, holds>>

\* mlxpdlp_mps_problem_free
FreeProblem ==
    /\ pc = "loaded"
    /\ Free(holds["problem"] \union holds["handle"])
    /\ pc' = "freed"
    /\ UNCHANGED <<file, pos, section, finalized, state, problem, holds>>

MpsNext ==
    \/ OpenFails \/ Open
    \/ SkipLine \/ HeaderLine \/ RecordLine
    \/ CloseReader \/ Reject \/ Build
    \/ Wrap \/ WrapFails \/ FreeProblem

------------------------------------------------------------------------------
(***************************************************************************)
(* Every block is freed once, by its one owner: nothing is left after a    *)
(* load that failed anywhere -- half of a section, between the arrays'     *)
(* change of owner and the handle -- or after the problem is freed, and a  *)
(* loaded problem points to nothing that was freed.                        *)
(***************************************************************************)
HeapExact ==
    /\ ~badFree
    /\ pc \in {"null", "freed"} => heap = {}
    /\ pc \in {"built", "loaded"} => heap = holds["problem"] \union holds["handle"]

(***************************************************************************)
(* mps_loader.h:44 says of the loader: "Returns NULL on I/O or parse       *)
(* failure."  Reading stops early without an error at a line too long for  *)
(* the buffer and when the file cannot be read on.                         *)
(***************************************************************************)
CutShort == section # "ENDATA" /\ file.breaksAt > 0 /\ pos + 1 = file.breaksAt
FailureReturnsNull == pc = "loaded" => ~CutShort
==============================================================================
