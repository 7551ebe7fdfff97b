------------------------------ MODULE CSVParser ------------------------------
(* CSVParser::ParseBlock (src/data/csv_parser.h) on a chunk of text, with the
   strtof it reads fields with.  A text is a sequence of tokens: the natural
   numbers, and one token for each other kind of character or run of characters
   that the parser tells apart. *)
EXTENDS Integers, Sequences, SequencesExt, FiniteSetsExt

CONSTANTS
    Fields,             \* what a field of a line can be: a sequence of tokens
    Columns, MaxLines,  \* how many fields a line has, how many lines a text
    label_column, weight_column, delimiter

Comma == -1
Space == -2
NL == -3
CR == -4
Word == -5              \* letters that begin no number
BOM == -6               \* the three bytes of a UTF-8 byte order mark
NaN == -9

VARIABLES
    lines, text,        \* the fields of each line, and the chunk made of them
    out,                \* the row block
    result              \* "parsing", "true" or "throws"

vars == <<lines, text, out, result>>

Char(p) == IF p < Len(text) THEN text[p + 1] ELSE -99      \* the zero after the chunk
IsSpace(ch) == ch \in {Space, NL, CR}
IsEnd(ch) == ch \in {NL, CR}
Skip(p, end, Test(_)) == Min({end} \cup {q \in p .. end - 1 : Test(Char(q))})

\* strtof: white space, ends of lines included, then a number or nothing.
strtof(p) ==
    LET q == Min({r \in p .. Len(text) : ~IsSpace(Char(r))}) IN
    IF Char(q) >= 0 THEN [v |-> Char(q), endptr |-> q + 1] ELSE [v |-> 0, endptr |-> q]

IgnoreUTF8BOM(p) == IF Char(p) = BOM THEN p + 1 ELSE p

\* A missing field takes no index.
MissingMutant(idx) == idx

Missing(idx) == idx + 1

\* One field of the line that is read: a label, a weight, or the next feature.
Field(o, f, p, column, idx) ==
    IF column = label_column THEN [o |-> [o EXCEPT !.label = Append(@, f.v)], idx |-> idx]
    ELSE IF column = weight_column THEN [o |-> [o EXCEPT !.line_weight = f.v], idx |-> idx]
    ELSE IF f.endptr = p THEN [o |-> o, idx |-> Missing(idx)]
    ELSE [o |-> [o EXCEPT !.value = Append(@, f.v), !.index = Append(@, idx)], idx |-> idx + 1]

RECURSIVE AddFields(_, _, _, _, _)
AddFields(o, p, lend, column, idx) ==
    LET f == strtof(p)
        got == Field(o, f, p, column, idx)
        q == Skip(Min({f.endptr, lend}), lend, LAMBDA ch : ch = delimiter)
    IN  IF p = lend THEN o
        ELSE IF q = lend /\ got.idx = 0 THEN [got.o EXCEPT !.bad = TRUE]    \* no delimiter found
        ELSE AddFields(got.o, IF q = lend THEN lend ELSE q + 1, lend, column + 1, got.idx)

\* From one line to the next, past the empty ones.
AfterLine(lend, end) == Skip(lend, end, LAMBDA ch : ~IsEnd(ch))

\* The line's row is complete.
Row(o) == [o EXCEPT !.weight = IF o.line_weight = NaN THEN @ ELSE Append(@, o.line_weight),
                    !.line_weight = NaN, !.offset = Append(@, Len(o.index))]

RECURSIVE AddLines(_, _, _)
AddLines(o, p, end) ==
    LET lbegin == IgnoreUTF8BOM(p)
        lend == Skip(lbegin + 1, end, LAMBDA ch : IsEnd(ch))
        line == AddFields(o, lbegin, lend, 0, 0)
    IN  IF p = end \/ o.bad THEN o
        ELSE IF line.bad THEN line
        ELSE AddLines(Row(line), AfterLine(lend, end), end)

Checked(o) ==
    /\ Len(o.label) \in {0, Len(o.offset) - 1}
    /\ Len(o.weight) \in {0, Len(o.offset) - 1}

Clear == [offset |-> <<0>>, label |-> <<>>, weight |-> <<>>, index |-> <<>>, value |-> <<>>,
          line_weight |-> NaN, bad |-> FALSE]

ParseBlock ==
    /\ result = "parsing"
    /\ LET o == AddLines(Clear, AfterLine(0, Len(text)), Len(text)) IN
       /\ out' = o
       /\ result' = IF ~o.bad /\ Checked(o) THEN "true" ELSE "throws"
    /\ UNCHANGED <<lines, text>>

Done == result # "parsing" /\ UNCHANGED vars

Ends == {<<NL>>, <<CR>>, <<CR, NL>>, <<NL, NL>>}

Joined(fields) == FlattenSeq([i \in DOMAIN fields |->
                     fields[i] \o IF i = Len(fields) THEN <<>> ELSE <<delimiter>>])

Init ==
    /\ \E n \in 1 .. MaxLines, eol \in Ends, noeol \in BOOLEAN, bom \in {<<>>, <<BOM>>} :
          /\ lines \in [1 .. n -> UNION {[1 .. m -> Fields] : m \in Columns}]
          /\ text = bom \o FlattenSeq([i \in 1 .. n |->
                       Joined(lines[i]) \o IF i = n /\ noeol THEN <<>> ELSE eol])
    /\ \A i \in DOMAIN lines : Joined(lines[i]) # <<>>
    /\ out = Clear /\ result = "parsing"

Next == ParseBlock \/ Done

Spec == Init /\ [][Next]_vars

-----------------------------------------------------------------------------
TypeOK ==
    /\ result \in {"parsing", "true", "throws"}
    /\ Len(out.index) = Len(out.value)
    /\ result = "true" => Last(out.offset) = Len(out.index) /\ out.line_weight = NaN

Numbers(field) == SelectSeq(field, LAMBDA t : t >= 0)
ValueOf(field) == IF Numbers(field) = <<>> THEN 0 ELSE Numbers(field)[1]
\* The place of a feature among the columns that are neither label nor weight.
Place(column) == Cardinality({k \in 0 .. column - 1 : k \notin {label_column, weight_column}})
Said(line) ==
    FlattenSeq([i \in DOMAIN line |->
        IF i - 1 \in {label_column, weight_column} \/ Numbers(line[i]) = <<>> THEN <<>>
        ELSE <<<<Place(i - 1), ValueOf(line[i])>>>>])
Got(i) == [k \in 1 .. out.offset[i + 1] - out.offset[i] |->
             <<out.index[out.offset[i] + k], out.value[out.offset[i] + k]>>]

\* A row for every line, with the numbers of that line at the indices of their
\* columns; a missing value leaves its index out.
RowsKept ==
    result = "true" =>
        /\ Len(out.offset) = Len(lines) + 1
        /\ \A i \in DOMAIN lines : Got(i) = Said(lines[i])

\* No value of a row is a number of another line.
OwnLine ==
    result = "true" => \A i \in DOMAIN lines : \A k \in DOMAIN Got(i) :
        Got(i)[k][2] \in {0} \cup UNION {ToSet(Numbers(lines[i][j])) : j \in DOMAIN lines[i]}

\* Labels and weights are those of their own line, or there are none: when some
\* line lacks the column the whole block is refused.
Aligned ==
    result = "true" =>
        /\ out.label # <<>> => \A i \in DOMAIN lines : out.label[i] = ValueOf(lines[i][label_column + 1])
        /\ out.weight # <<>> =>
              /\ Len(out.weight) = Len(lines)
              /\ \A i \in DOMAIN lines : out.weight[i] = ValueOf(lines[i][weight_column + 1])
=============================================================================
