----------------------------- MODULE MCSolveMps ------------------------------
(* The files: rows with every type, right-hand side and range; columns with*)
(* continued, repeated and marker records under up to two bounds; records  *)
(* in fixed columns with spaces in names, or out of them; sizes around the *)
(* index limit; and files that are disorderly, or cut short at each of     *)
(* their lines.                                                            *)
EXTENDS SolveMps

MCNumerals == [t \in {"0", "1", "2", "3", "5", "12", "-1", "-2"} |->
    CASE t = "0" -> 0 [] t = "1" -> 1 [] t = "2" -> 2 [] t = "3" -> 3 [] t = "5" -> 5
      [] t = "12" -> 12 [] t = "-1" -> -1 [] t = "-2" -> -2]
MCInitials == [t \in {"LE", "GE"} |-> IF t = "LE" THEN "L" ELSE "G"]
MCCoordinates == {0, 1, 2}

Nothing == [is |-> "nothing"]
Plain(tokens, means) == [free |-> tokens, fixed |-> <<>>, stray |-> {}, means |-> means]
Header(name) == Plain(<<name>>, Nothing)
Comment == Plain(<<>>, Nothing)

\* Names with a space in them, as whitespace breaks them.
Words(t) == CASE t = None -> <<>> [] t = "MY ROW" -> <<"MY", "ROW">>
              [] t = "A B" -> <<"A", "B">> [] t = "M 1" -> <<"M", "1">> [] OTHER -> <<t>>
Aligned(fields, means) ==
    [free |-> FlattenSeq([i \in DOMAIN fields |-> Words(fields[i])]),
     fixed |-> fields, stray |-> IF fields[1] \in {"UP", "FR"} THEN {3} ELSE {}, means |-> means]

Row(type, name) == Plain(<<type, name>>, [is |-> "row", type |-> type, name |-> name])
Tokenized(data) == FlattenSeq([i \in DOMAIN data |-> data[i]])
Amount(t) == IF t \in DOMAIN MCNumerals THEN MCNumerals[t] ELSE 0
Valued(data) == [i \in DOMAIN data |-> <<data[i][1], Amount(data[i][2])>>]
Record(kind, name, data) == Plain(name \o Tokenized(data), [is |-> kind, data |-> Valued(data)])
Entries(col, data) ==
    Plain(<<col>> \o Tokenized(data), [is |-> "entries", col |-> col, data |-> Valued(data)])
Continued(col, data) ==
    Plain(Tokenized(data), [is |-> "entries", col |-> col, data |-> Valued(data)])
Bound(type, set, col, value) ==
    Plain(<<type>> \o set \o <<col>> \o value,
          [is |-> "bound", type |-> type, col |-> col,
           value |-> IF value = <<>> THEN 0 ELSE MCNumerals[value[1]]])
Sense(tokens, max) == Plain(tokens, [is |-> "sense", max |-> max])
Marker == Plain(<<"M1", "'MARKER'", "'INTORG'">>, Nothing)

Orderly(lines) == [lines |-> lines \o <<Header("ENDATA")>>, opens |-> TRUE,
                   breaksAt |-> 0]
InSection(name, lines) == IF lines = <<>> THEN <<>> ELSE <<Header(name)>> \o lines

(* ---------------------------------------------- rows, sides and ranges *)
SenseLines ==
    {<<>>, <<Sense(<<"OBJSENSE", "MAX">>, TRUE)>>,
     <<Header("OBJSENS"), Sense(<<"MAXIMIZE">>, TRUE)>>,
     <<Sense(<<"OBJSENSE", "MAX">>, TRUE), Sense(<<"OBJSENSE", "MIN">>, FALSE)>>}
RhsLines ==
    {<<>>, <<Record("rhs", <<"RHS1">>, <<<<"R1", "2">>, <<"OBJ", "5">>>>)>>,
     <<Record("rhs", <<>>, <<<<"OBJ", "5">>, <<"R1", "-1">>>>)>>,
     <<Record("rhs", <<>>, <<<<"R2", "1">>>>), Record("rhs", <<"RHS1">>, <<<<"R1", "3">>>>)>>}
RangeLines ==
    {<<>>, <<Record("range", <<"RNG">>, <<<<"R1", "3">>>>)>>,
     <<Record("range", <<>>, <<<<"R1", "-2">>, <<"R2", "1">>>>)>>}
RowFiles ==
    {Orderly(sense \o <<Comment, Header("ROWS"), Row("N", "OBJ"), Row(type, "R1"), Row("N", "DROP"),
                        Row("G", "R2"), Header("COLUMNS"),
                        Entries("X1", <<<<"OBJ", "1">>, <<"R1", "2">>>>),
                        Entries("X2", <<<<"R1", "3">>, <<"DROP", "1">>>>)>>
             \o InSection("RHS", rhs) \o InSection("RANGES", range)) :
        sense \in SenseLines, type \in {"L", "G", "E"}, rhs \in RhsLines, range \in RangeLines}

(* -------------------------------------------------- columns and bounds *)
ColumnLines ==
    {<<Entries("X1", <<<<"OBJ", "1">>, <<"R1", "2">>>>), Entries("X2", <<<<"R2", "3">>>>)>>,
     <<Entries("X1", <<<<"OBJ", "1">>>>), Continued("X1", <<<<"R2", "2">>, <<"R1", "-1">>>>), Marker,
       Entries("X2", <<<<"R1", "3">>>>)>>,
     <<Entries("X2", <<<<"R2", "1">>, <<"R2", "2">>>>), Entries("X1", <<<<"OBJ", "-2">>>>),
       Entries("X2", <<<<"R1", "3">>, <<"OBJ", "5">>>>), Continued("X2", <<<<"OBJ", "1">>>>)>>}
BoundLines ==
    {Bound("LO", <<"BND">>, "X1", <<"1">>), Bound("UP", <<>>, "X1", <<"3">>),
     Bound("UP", <<"X2">>, "X1", <<"5">>), Bound("FX", <<"BND">>, "X1", <<"2">>),
     Bound("FR", <<"X2">>, "X1", <<>>), Bound("MI", <<>>, "X1", <<>>),
     Bound("PL", <<"BND">>, "X1", <<"0">>), Bound("BV", <<"BND">>, "X1", <<>>),
     Bound("LO", <<>>, "X2", <<"-1">>)}
UpTo2(S) == {<<>>} \union {<<a>> : a \in S} \union {<<a, b>> : a \in S, b \in S}
ColumnFiles ==
    {Orderly(<<Header("ROWS"), Row("L", "R1"), Row("N", "OBJ"), Row("G", "R2"),
               Header("COLUMNS")>> \o columns \o InSection("BOUNDS", bounds)) :
        columns \in ColumnLines, bounds \in UpTo2(BoundLines)}

(* -------------------------------------------------------- fixed columns *)
FixedEntries(f) ==
    Aligned(f, [is |-> "entries", col |-> "A B",
                data |-> <<<<f[3], MCNumerals[f[4]]>>>>
                         \o (IF f[5] = None THEN <<>> ELSE <<<<f[5], MCNumerals[f[6]]>>>>)])
FixedPair(kind, f) == Aligned(f, [is |-> kind, data |-> <<<<f[3], MCNumerals[f[4]]>>>>])
FixedBound(f) ==
    Aligned(f, [is |-> "bound", type |-> f[1], col |-> f[3],
                value |-> IF f[4] = None THEN 0 ELSE MCNumerals[f[4]]])
\* Aligned like fixed columns, with a number that its field would cut.
Overlong == [free |-> <<"X1", "OBJ", "12">>, fixed |-> <<"", "X1", "OBJ", "1", "2", "">>, stray |-> {},
             means |-> [is |-> "entries", col |-> "X1", data |-> <<<<"OBJ", 12>>>>]]
\* With a remark in columns 37 to 39.
Remarked(line) == [line EXCEPT !.free = Append(@, "*"), !.stray = @ \union {13}]
FixedColumnLines ==
    {<<FixedEntries(<<"", "A B", "OBJ", "1", "MY ROW", "2">>)>>,
     <<FixedEntries(<<"", "A B", "MY ROW", "3", "", "">>),
       FixedEntries(<<"", "", "MY ROW", "2", "OBJ", "5">>),
       Aligned(<<"", "M 1", "'MARKER'", "", "'INTORG'", "">>, Nothing)>>}
FixedFiles ==
    {Orderly(<<Header("ROWS"), Aligned(<<"N", "OBJ", "", "", "", "">>, [is |-> "row", type |-> "N", name |-> "OBJ"]),
               Aligned(<<type, "MY ROW", "", "", "", "">>, [is |-> "row", type |-> type, name |-> "MY ROW"]),
               Header("COLUMNS")>> \o columns \o <<Overlong, Header("RHS"), rhs, Header("RANGES"), range,
               Header("BOUNDS"), bound>>) :
        type \in {"L", "E"}, columns \in FixedColumnLines,
        rhs \in {FixedPair("rhs", <<"", v, "MY ROW", "2", "", "">>) : v \in {"", "RHS1"}}
                \union {Remarked(FixedPair("rhs", <<"", "RHS1", "MY ROW", "2", "", "">>))},
        range \in {FixedPair("range", <<"", v, "MY ROW", "-1", "", "">>) : v \in {"", "RNG"}},
        bound \in {FixedBound(<<"UP", v, "A B", "3", "", "">>) : v \in {"", "BND"}}
                  \union {FixedBound(<<"FR", "BND", "A B", "", "", "">>)}}

\* Not in fixed columns, though the fields could be cut out of them: names
\* past column 12, a column that begins in column 4, a row that was dropped.
LongRow(type, name, cut) ==
    [free |-> <<type, name>>, fixed |-> <<Initial(type), cut, "", "", "", "">>, stray |-> {3, 4, 13},
     means |-> [is |-> "row", type |-> Initial(type), name |-> name]]
LongFile(type) ==
    Orderly(<<Header("ROWS"), Row("N", "OBJ"), Row("N", "DROP"), LongRow(type, "LONGNAME1", "LONGNAM"),
              LongRow(type, "LONGNAME2", "LONGNAM"), Header("COLUMNS"), Entries("X1", <<<<"LONGNAME1", "1">>>>),
              [free |-> <<"X1", "OBJ", "5", "DROP", "1">>, fixed |-> <<"", "1", "OBJ", "5", "", "">>,
               stray |-> {4, 13},
               means |-> [is |-> "entries", col |-> "X1", data |-> <<<<"OBJ", 5>>, <<"DROP", 1>>>>]],
              Entries("X2", <<<<"LONGNAME1", "1">>, <<"LONGNAME2", "2">>>>)>>)
LongFiles == {LongFile(type) : type \in {"LE", "GE"}}

(* --------------------------------------------------------------- sizes *)
Names(prefix, n) == SubSeq(<<prefix \o "1", prefix \o "2", prefix \o "3", prefix \o "4", prefix \o "5">>, 1, n)
Sized(rows, cols, entries) ==
    LET R == Names("R", rows)
        X == Names("X", cols)
    IN  Orderly(<<Header("ROWS"), Row("N", "OBJ")>> \o [i \in 1 .. rows |-> Row("E", R[i])]
                \o <<Header("COLUMNS")>> \o [j \in 1 .. cols |-> Entries(X[j], <<<<"OBJ", "1">>>>)]
                \o [k \in 1 .. entries |-> Entries(X[1], <<<<R[((k - 1) % rows) + 1], "1">>>>)]
                \o <<Entries(X[cols], <<<<"OBJ", "2">>>>)>>)
SizedFiles ==
    {Sized(rows, cols, entries) : rows \in {1, Limit, Limit + 1}, cols \in {1, Limit, Limit + 1},
                                  entries \in {0, Limit, Limit + 1}}

(* ------------------------------------------- disorderly and broken files *)
Disorderly ==
    {<<>>, <<Header("ENDATA")>>,
     <<Header("RHS"), Record("rhs", <<"RHS1">>, <<<<"R1", "2">>>>), Header("BOUNDS"), Header("ROWS")>>,
     <<Header("COLUMNS"), Continued("X1", <<<<"R1", "2">>>>)>>,
     <<Header("ROWS"), Row("N", "OBJ"),
       [Aligned(<<"E", "MY ROW", "", "", "", "">>, [is |-> "row", type |-> "E", name |-> "MY ROW"])
           EXCEPT !.stray = {3}],
       Header("COLUMNS"), FixedEntries(<<"", "A B", "OBJ", "1", "MY ROW", "2">>)>>,
     <<Header("ROWS"), Row("LE", "R1"), Row("GE", "R2"), Row("X", "R3"), Header("COLUMNS"),
       Entries("X1", <<<<"R1", "1">>, <<"R2", "1">>>>), Header("ROWS"), Row("L", "R4"),
       Header("COLUMNS"), Entries("X1", <<<<"R4", "1">>, <<"R2", "2">>>>), Entries("X2", <<<<"R9", "X">>>>)>>,
     <<Header("ROWS"), Row("N", "OBJ"), Row("L", "R1"), Row("G", "R1"), Header("COLUMNS"),
       Entries("X1", <<<<"R1", "1">>, <<"OBJ", "2">>>>), Header("RHS"),
       Record("rhs", <<>>, <<<<"R9", "1">>>>), Header("RANGES"),
       Record("range", <<"RNG">>, <<<<"R1", "2">>, <<"OBJ", "1">>>>), Header("BOUNDS"),
       Bound("XX", <<"BND">>, "X1", <<"1">>), Bound("UP", <<"BND">>, "X9", <<"1">>)>>}
Broken(f) == {[f EXCEPT !.breaksAt = k] : k \in 0 .. Len(f.lines)}
BrokenFiles ==
    {[lines |-> <<>>, opens |-> FALSE, breaksAt |-> 0]}
    \union UNION {Broken(Orderly(lines)) : lines \in Disorderly}
    \union UNION {Broken(f) : f \in {g \in RowFiles : Maximizes(g) /\ Len(g.lines) = 15}}
    \union Broken(Sized(Limit, 1, Limit + 1))

MCFiles == RowFiles \union ColumnFiles \union FixedFiles \union LongFiles \union SizedFiles
           \union BrokenFiles

\* Every orderly file spells its meaning.
ASSUME OrderlyFilesUnderstood ==
    \A f \in RowFiles \union ColumnFiles \union FixedFiles \union LongFiles \union SizedFiles :
        Understood(f)
==============================================================================
