---------------------------- MODULE LibSVMParser ----------------------------
(* A chunk of text parsed by several threads (TextParserBase::FillData) into row
   blocks, in the libsvm and libfm formats (src/data/libsvm_parser.h,
   libfm_parser.h, the pairs and triples of include/dmlc/strtonum.h).  A text is
   a sequence of tokens: the natural numbers, and one token for each kind of
   character or run of characters that the parsers tell apart.  Bounds are
   places between tokens, from 0; a thread that begins inside a token goes back
   to the same end of line. *)
EXTENDS Integers, Sequences, SequencesExt, FiniteSetsExt

CONSTANTS
    Styles,            \* sets of lines; the lines of a text are of one style
    MaxLines,
    nthread_,
    indexing_mode,
    LibFM              \* TRUE for the libfm format

NL == -1
CR == -2
Colon == -3
Space == -4
Hash == -5
Qid == -6              \* "qid:"
Word == -7             \* letters that are no part of a number
Minus == -8            \* a negative number

VARIABLES
    lines,             \* what the text was made of
    text,              \* the chunk, with the terminating zero that follows it
    data,              \* the row block of each thread
    pc, failed,        \* where each thread is; what OMPException has caught, or 0
    result             \* "parsing", "true" or "throws"

vars == <<lines, text, data, pc, failed, result>>

Null == <<>>
Threads == 1 .. nthread_
Char(p) == IF p < Len(text) THEN text[p + 1] ELSE 0 - 99
IsEnd(ch) == ch \in {NL, CR}
IsBlank(ch) == ch = Space
IsDigits(ch) == ch >= 0 \/ ch = Minus

\* The first place from p on that is end or satisfies the test.
Skip(p, end, Test(_)) == Min({end} \cup {q \in p .. end - 1 : Test(Char(q))})

\* Str2Type reads on through white space, past the end it is not told.
Number(p) ==
    LET q == Min({r \in p .. Len(text) : Char(r) \notin {Space, NL, CR}}) IN
    IF IsDigits(Char(q)) THEN Char(q) ELSE 0

-----------------------------------------------------------------------------
(* strtonum.h. *)

\* One number of a pair or a triple: where it is, and where what follows begins.
NextNumber(p, end) == Skip(p, end, LAMBDA ch : IsDigits(ch))
AfterNumber(p, end) == IF p = end THEN end ELSE p + 1
Blanks(p, end) == Skip(p, end, LAMBDA ch : ~IsBlank(ch))

\* Up to n numbers with colons between them: with the numbers v read, and q
\* behind the last of them.  The n-th one ends the search at its own end, one
\* that no colon follows at the next token that is not blank.
RECURSIVE MoreNumbers(_, _, _, _)
TakeNumber(v, p, end, n) == MoreNumbers(Append(v, Number(p)), AfterNumber(p, end), end, n)
PastColon(v, q, end, n) ==
    IF q = end \/ Char(q) # Colon THEN [r |-> Len(v), q |-> q, v |-> v]
    ELSE TakeNumber(v, NextNumber(q + 1, end), end, n)
MoreNumbers(v, q, end, n) ==
    IF Len(v) = n THEN [r |-> n, q |-> q, v |-> v] ELSE PastColon(v, Blanks(q, end), end, n)

ParseNumbers(begin, end, n) ==
    IF NextNumber(begin, end) = end THEN [r |-> 0, q |-> end, v |-> <<>>]
    ELSE TakeNumber(<<>>, NextNumber(begin, end), end, n)

ParsePair(begin, end) == ParseNumbers(begin, end, 2)

ParseTriple(begin, end) == ParseNumbers(begin, end, 3)

\* A comment counts as blank, and a blank stops nothing.
IgnoreCommentAndBlank(p, end) ==
    LET q == Blanks(p, end) IN IF q # end /\ Char(q) = Hash THEN end ELSE q

-----------------------------------------------------------------------------
(* ParseBlock. *)

Empty == [offset |-> <<0>>, label |-> Null, weight |-> Null, qid |-> Null, field |-> Null,
          index |-> Null, value |-> Null, bad |-> FALSE]

\* The features of a line from p on.  Feature ids are unsigned.
Ids == IF LibFM THEN 2 ELSE 1          \* ids before the value
WithFeature(out, f) ==
    [out EXCEPT !.field = IF LibFM THEN Append(@, f.v[1]) ELSE @,
                !.index = Append(@, f.v[Ids]),
                !.value = IF f.r > Ids THEN Append(@, f.v[Ids + 1]) ELSE @]
RECURSIVE AddFeatures(_, _, _)
AddFeature(out, f, lend) ==
    IF \E i \in 1 .. Min({Ids, f.r}) : f.v[i] = Minus THEN [out EXCEPT !.bad = TRUE]
    ELSE AddFeatures(IF f.r < Ids THEN out ELSE WithFeature(out, f), f.q, lend)
AddFeatures(out, p, lend) ==
    IF p = lend \/ out.bad THEN out
    ELSE AddFeature(out, IF LibFM THEN ParseTriple(p, lend)
                         ELSE ParsePair(IgnoreCommentAndBlank(p, lend), lend), lend)

\* The offset of a row is pushed with the next one.
AddLabel(out, v, r) ==
    [out EXCEPT !.weight = IF r = 2 THEN Append(@, v[2]) ELSE @,
                !.offset = IF out.label = Null THEN @ ELSE Append(@, Len(out.index)),
                !.label = Append(@, v[1])]

\* The query id, for which libsvm looks behind the blanks after the label.
AddQid(out, q, lend) ==
    LET p == Blanks(q, lend) IN
    IF LibFM \/ p = lend \/ Char(p) # Qid THEN [out |-> out, p |-> IF LibFM THEN q ELSE p]
    ELSE [out |-> [out EXCEPT !.qid = Append(@, Number(p + 1))],
          p |-> IF IsDigits(Char(p + 1)) THEN p + 2 ELSE p + 1]

\* A line begins with the end of the line before.
LineEnd(p, end) == Skip(p + 1, end, LAMBDA ch : IsEnd(ch))

\* A row for the line whose label is l, none if the line has no number.
AddFeaturesOf(row, lend) == AddFeatures(row.out, row.p, lend)
AddLine(out, l, lend) ==
    IF l.r < 1 THEN out ELSE AddFeaturesOf(AddQid(AddLabel(out, l.v, l.r), l.q, lend), lend)
RECURSIVE AddLines(_, _, _)
LinesFrom(out, lbegin, lend, end) ==
    AddLines(AddLine(out, ParsePair(IF LibFM THEN lbegin ELSE IgnoreCommentAndBlank(lbegin, lend), lend),
                     lend), lend, end)
AddLines(out, lbegin, end) ==
    IF lbegin = end \/ out.bad THEN out ELSE LinesFrom(out, lbegin, LineEnd(lbegin, end), end)

\* Indices from one: asked for, or detected in this block.
OneBased(out) ==
    \/ indexing_mode > 0
    \/ /\ indexing_mode < 0 /\ out.index # Null
       /\ \A i \in DOMAIN out.index : out.index[i] > 0
       /\ \A i \in DOMAIN out.field : out.field[i] > 0

\* The last offset, and the ids counted from zero.
Less(s) == [i \in DOMAIN s |-> s[i] - 1]
Finish(out) == IF out.label = Null THEN out ELSE [out EXCEPT !.offset = Append(@, Len(out.index))]
CountFromZero(out) ==
    IF out.bad \/ ~OneBased(out) THEN out ELSE [out EXCEPT !.index = Less(@), !.field = Less(@)]
ParseBlock(begin, end) == CountFromZero(Finish(AddLines(Empty, begin, end)))

-----------------------------------------------------------------------------
(* FillData. *)

\* The place that was asked for, in the middle of a line.
BackMutant(p) == p

BackFindEndLine(p) == Max({0} \cup {q \in 1 .. p : IsEnd(Char(q))})

\* The part of the chunk that a thread parses.
Piece(tid) ==
    LET nstep == (Len(text) + nthread_ - 1) \div nthread_
        send == Min({tid * nstep, Len(text)})
    IN  [begin |-> BackFindEndLine(Min({(tid - 1) * nstep, Len(text)})),
         end |-> IF tid = nthread_ THEN send ELSE BackFindEndLine(send)]

\* OMPException::Run keeps the first exception.
Run(tid, out) ==
    /\ data' = [data EXCEPT ![tid] = out]
    /\ failed' = IF out.bad /\ failed = 0 THEN tid ELSE failed

\* A thread parses its piece into its own block.
Parse(tid) ==
    /\ pc[tid] = "begin"
    /\ Run(tid, ParseBlock(Piece(tid).begin, Piece(tid).end))
    /\ pc' = [pc EXCEPT ![tid] = "end"]
    /\ UNCHANGED <<lines, text, result>>

\* FillData joins all the threads and rethrows.
Join ==
    /\ result = "parsing" /\ \A tid \in Threads : pc[tid] = "end"
    /\ result' = IF failed = 0 THEN "true" ELSE "throws"
    /\ UNCHANGED <<lines, text, data, pc, failed>>

Done == result # "parsing" /\ UNCHANGED vars

Ends == {<<NL>>, <<CR>>, <<CR, NL>>}

Init ==
    /\ \E style \in Styles, n \in 1 .. MaxLines, eol \in Ends, noeol \in BOOLEAN :
          /\ lines \in [1 .. n -> style]
          /\ text = FlattenSeq([i \in 1 .. n |->
                       lines[i].text \o IF i = n /\ noeol THEN <<>> ELSE eol])
    /\ text # <<>>
    /\ data = [tid \in Threads |-> Empty] /\ pc = [tid \in Threads |-> "begin"]
    /\ failed = 0 /\ result = "parsing"

Next == Join \/ Done \/ \E tid \in Threads : Parse(tid)

Spec == Init /\ [][Next]_vars

-----------------------------------------------------------------------------
TypeOK ==
    /\ failed \in 0 .. nthread_ /\ result \in {"parsing", "true", "throws"}
    /\ \A tid \in Threads :
          LET d == data[tid] IN
          /\ ~d.bad => Len(d.offset) = Len(d.label) + 1 /\ Last(d.offset) = Len(d.index)
          /\ Len(d.field) = IF LibFM THEN Len(d.index) ELSE 0

\* What a row of a block reads as (RowBlock::operator[]).
Column(s, i, default) == IF s = Null THEN default ELSE IF i \in DOMAIN s THEN s[i] ELSE -1
RowAt(d, i) ==
    [label |-> d.label[i], weight |-> Column(d.weight, i, 1), qid |-> Column(d.qid, i, 0),
     feats |-> [k \in 1 .. d.offset[i + 1] - d.offset[i] |->
                  LET at == d.offset[i] + k IN
                  <<Column(d.field, at, 0), d.index[at], Column(d.value, at, 1)>>]]
Rows(d) == [i \in DOMAIN d.label |-> RowAt(d, i)]
Got == FlattenSeq([tid \in Threads |-> Rows(data[tid])])
Said == FlattenSeq([i \in DOMAIN lines |-> lines[i].rows])
SaidIds == UNION {{f[2] : f \in ToSet(row.feats)} : row \in ToSet(Said)}
           \cup (IF LibFM THEN UNION {{f[1] : f \in ToSet(row.feats)} : row \in ToSet(Said)} ELSE {})
LessIn(rows, n) ==
    [i \in DOMAIN rows |-> [rows[i] EXCEPT !.feats = [k \in DOMAIN @ |->
        <<IF LibFM THEN @[k][1] - n ELSE 0, @[k][2] - n, @[k][3]>>]]]

\* The threads' blocks in order have one row for every line of the text that has
\* one, with what the line says, wherever the chunk was cut and however its
\* lines end.  Ids are counted from one if that was asked for, or if it is to be
\* detected and all the ids of the text allow it.
RowsKept ==
    result = "true" =>
        Got = LessIn(Said, IF indexing_mode > 0 \/ (indexing_mode < 0 /\ SaidIds # {} /\ 0 \notin SaidIds)
                           THEN 1 ELSE 0)

\* A line that cannot be parsed makes the whole call throw, whichever threads
\* fail, and no other text does.
ThrowsIfBad ==
    result # "parsing" => (result = "throws") = (\E i \in DOMAIN lines : lines[i].bad)
=============================================================================
