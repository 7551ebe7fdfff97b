-------------------------------- MODULE JSON --------------------------------
(* JSONWriter, JSONReader, their handlers, JSONObjectReadHelper and
   AnyJSONManager (include/dmlc/json.h).  A text is a sequence of characters:
   "q" is the quote, "b" the backslash, "NL" the end of a line (which stands
   for all characters that are written with a letter), "sp" a space (the
   indentation of one level), "1" and "2" the digits, "n" a letter.  A type is
   a record: "num", "str", "arr" and "map" of a type, "pair" of two, "any", or
   "obj", a struct that is read with a JSONObjectReadHelper. *)
EXTENDS Integers, Sequences, SequencesExt, FiniteSets, FiniteSetsExt, TLC

CONSTANTS
    Programs,      \* the [type, value] programs write, and what they read them as
    AnyTypes,      \* the types in an any, by their type_index
    Names,         \* the names they are enabled under
    KeyOrder,      \* the keys of maps and structs, in the order of std::map
    LongArray,     \* 10: arrays of more numbers have a line for each
    Damages        \* what happens to texts: "cut", "replace", "delete"

VARIABLES
    type_name_, type_map_,
    refused,       \* whether an EnableType failed a CHECK
    prog, text,
    whole,         \* whether the text is as it was written
    res,           \* the writer or reader after its call
    phase          \* "start", "written", "read" or "fatal"

vars == <<type_name_, type_map_, refused, prog, text, whole, res, phase>>

Blank == {"sp", "NL"}
Digits == {"1", "2"}

Init ==
    /\ type_name_ = <<>> /\ type_map_ = <<>> /\ refused = FALSE
    /\ prog \in Programs /\ text = <<>> /\ whole = TRUE /\ res = <<>> /\ phase = "start"

EnableType(id, name) ==
    /\ phase = "start" /\ ~refused
    /\ IF id \in DOMAIN type_name_
       THEN refused' = (type_name_[id] /= name) /\ UNCHANGED <<type_name_, type_map_>>
       ELSE IF name \in DOMAIN type_map_ THEN refused' = TRUE /\ UNCHANGED <<type_name_, type_map_>>
       ELSE /\ type_name_' = type_name_ @@ (id :> name)
            /\ type_map_' = (name :> id) @@ type_map_
            /\ UNCHANGED refused
    /\ UNCHANGED <<prog, text, whole, res, phase>>

-----------------------------------------------------------------------------
(* JSONWriter *)

Extend(w, s) == [w EXCEPT !.os_ = @ \o s]

WriteSeperator(w) ==
    IF w.scope_multi_line_ = <<>> \/ Last(w.scope_multi_line_)
    THEN Extend(w, <<"NL">> \o [i \in DOMAIN w.scope_multi_line_ |-> "sp"])
    ELSE w

\* The backslash is written as it is.
EscapedMutant(ch) == CASE ch = "NL" -> <<"b", "n">> [] ch = "q" -> <<"b", "q">> [] OTHER -> <<ch>>

Escaped(ch) ==
    CASE ch = "NL" -> <<"b", "n">> [] ch \in {"b", "q"} -> <<"b", ch>> [] OTHER -> <<ch>>

WriteString(w, s) ==
    Extend(w, <<"q">> \o FlattenSeq([i \in DOMAIN s |-> Escaped(s[i])]) \o <<"q">>)

\* BeginArray and BeginObject
Begin(w, open, multi_line) ==
    [Extend(w, <<open>>) EXCEPT !.scope_multi_line_ = Append(@, multi_line), !.scope_counter_ = Append(@, 0)]

\* EndArray and EndObject
End(w, close) ==
    LET popped == [w EXCEPT !.scope_multi_line_ = Front(@), !.scope_counter_ = Front(@)]
    IN  Extend(IF Last(w.scope_multi_line_) /\ Last(w.scope_counter_) /= 0
               THEN WriteSeperator(popped) ELSE popped, <<close>>)

Counted(s) == [s EXCEPT ![Len(s)] = @ + 1]

WriteArraySeperator(w) ==
    WriteSeperator([(IF Last(w.scope_counter_) /= 0 THEN Extend(w, <<",", "sp">>) ELSE w)
                    EXCEPT !.scope_counter_ = Counted(@)])

\* WriteObjectKeyValue up to the value: the key is written as it is.
WriteObjectKey(w, key) ==
    LET sep == IF Last(w.scope_counter_) > 0 THEN Extend(w, <<",", "sp">>) ELSE w
    IN  [Extend(WriteSeperator(sep), <<"q">> \o key \o <<"q", ":", "sp">>)
         EXCEPT !.scope_counter_ = Counted(@)]

KeysOf(m) == SelectSeq(KeyOrder, LAMBDA key : key \in DOMAIN m)
FieldType(t, key) == IF t.k = "map" THEN t.of ELSE t.fields[key].type

RECURSIVE Write(_, _, _)
\* Handler<T>::Write, by type; an any of a type that is not enabled fails.
Write(w, t, v) ==
    LET item(u, x) == Write(WriteArraySeperator(u), x.type, x.value)
        Items(u, xs) == FoldLeft(item, u, xs)
    IN  CASE ~w.ok -> w
        []   t.k = "num" -> Extend(w, v)
        []   t.k = "str" -> WriteString(w, v)
        []   t.k = "arr" ->
                End(Items(Begin(w, "[", Len(v) > LongArray \/ t.of.k /= "num"),
                          [i \in DOMAIN v |-> [type |-> t.of, value |-> v[i]]]), "]")
        []   t.k = "pair" ->
                End(Items(Begin(w, "[", TRUE), [i \in {1, 2} |-> [type |-> t.of[i], value |-> v[i]]]), "]")
        []   t.k \in {"map", "obj"} ->
                End(FoldLeft(LAMBDA u, key : Write(WriteObjectKey(u, key), FieldType(t, key), v[key]),
                             Begin(w, "{", t.k = "obj" \/ Cardinality(DOMAIN v) > 1), KeysOf(v)), "}")
        []   t.k = "any" ->
                IF v.id \notin DOMAIN type_name_ THEN [w EXCEPT !.ok = FALSE]
                ELSE End(Items(Begin(w, "[", FALSE),
                               <<[type |-> [k |-> "str"], value |-> type_name_[v.id]],
                                 [type |-> AnyTypes[v.id], value |-> v.value]>>), "]")

\* JSONWriter::Write
WriteCall ==
    /\ phase = "start"
    /\ res' = Write([os_ |-> <<>>, scope_counter_ |-> <<>>, scope_multi_line_ |-> <<>>, ok |-> TRUE],
                    prog.type, prog.value)
    /\ text' = res'.os_
    /\ phase' = IF res'.ok /\ res'.scope_multi_line_ = <<>> THEN "written" ELSE "fatal"
    /\ UNCHANGED <<type_name_, type_map_, refused, prog, whole>>

\* The text is cut off, or one of its characters is lost or another.
Damage(kind, i) ==
    /\ phase = "written" /\ whole /\ kind \in Damages /\ whole' = FALSE
    /\ text' = CASE kind = "cut" -> SubSeq(text, 1, i - 1)
               []   kind = "delete" -> RemoveAt(text, i)
               []   kind = "replace" -> [text EXCEPT ![i] = IF text[i] = "sp" THEN "n" ELSE "sp"]
    /\ UNCHANGED <<type_name_, type_map_, refused, prog, res, phase>>

-----------------------------------------------------------------------------
(* JSONReader *)

Fail(r) == [r EXCEPT !.ok = FALSE]
Lead(s) == LET seen == {i \in DOMAIN s : s[i] \notin Blank}
           IN  IF seen = {} THEN Len(s) ELSE Min(seen) - 1
Lines(s) == Cardinality({i \in DOMAIN s : s[i] = "NL"})

\* The character that PeekNextNonSpace returns, and the reader after it.
PeekNextNonSpace(r) ==
    LET n == Lead(r.is_)
    IN  [ch |-> IF n = Len(r.is_) THEN "EOF" ELSE r.is_[n + 1],
         r |-> [r EXCEPT !.is_ = SubSeq(@, n + 1, Len(@)), !.line_count_n_ = @ + Lines(SubSeq(r.is_, 1, n))]]

NextNonSpace(r) ==
    LET x == PeekNextNonSpace(r) IN [x EXCEPT !.r.is_ = SubSeq(@, 2, Len(@))]

\* NextNonSpace and the CHECK of the character.
Checked(x, ch) == IF x.ch = ch THEN x.r ELSE Fail(x.r)
Expect(r, ch) == IF ~r.ok THEN r ELSE Checked(NextNonSpace(r), ch)

RECURSIVE Chars(_, _)
\* The loop of ReadString.
Chars(r, out) ==
    IF r.is_ = <<>> \/ r.is_[1] = "NL" THEN Fail(r)
    ELSE LET rest(n) == [r EXCEPT !.is_ = SubSeq(@, n + 1, Len(@))]
         IN  IF r.is_[1] = "q" THEN [rest(1) EXCEPT !.v = out]
             ELSE IF r.is_[1] /= "b" THEN Chars(rest(1), Append(out, r.is_[1]))
             ELSE IF Len(r.is_) = 1 \/ r.is_[2] \notin {"n", "b", "q"} THEN Fail(r)
             ELSE Chars(rest(2), Append(out, IF r.is_[2] = "n" THEN "NL" ELSE r.is_[2]))

StringAfter(r) == IF r.ok THEN Chars(r, <<>>) ELSE r
ReadString(r) == StringAfter(Expect(r, "q"))

\* operator>> skips blanks, which it does not count, and takes the digits.
ReadNumber(r) ==
    LET s == SubSeq(r.is_, Lead(r.is_) + 1, Len(r.is_))
        others == {i \in DOMAIN s : s[i] \notin Digits}
        n == IF others = {} THEN Len(s) ELSE Min(others) - 1
    IN  IF n = 0 THEN Fail(r)
        ELSE [r EXCEPT !.is_ = SubSeq(s, n + 1, Len(s)), !.v = SubSeq(s, 1, n)]

\* BeginObject and BeginArray
Entered(r) == IF r.ok THEN [r EXCEPT !.scope_counter_ = Append(@, 0)] ELSE r
BeginRead(r, open) == Entered(Expect(r, open))

IsComma(ch) == ch = ","

\* What NextObjectItem and NextArrayItem share: whether there is another item,
\* by the character x behind the item before it; the first one has none before it.
NoItem(r) == [next |-> FALSE, r |-> r]
LeftScope(r) == [r EXCEPT !.scope_counter_ = Front(@)]
FirstItem(x, close) ==
    IF x.ch = close THEN NoItem(LeftScope(NextNonSpace(x.r).r))
    ELSE [next |-> TRUE, r |-> [x.r EXCEPT !.scope_counter_ = Counted(@)]]
LaterItem(x, close) ==
    IF x.ch \in {close, "EOF"} THEN NoItem(LeftScope(x.r))
    ELSE IF ~IsComma(x.ch) THEN NoItem(Fail(x.r))
    ELSE [next |-> TRUE, r |-> [x.r EXCEPT !.scope_counter_ = Counted(@)]]
NextItem(r, close) ==
    IF ~r.ok THEN NoItem(r)
    ELSE IF Last(r.scope_counter_) = 0 THEN FirstItem(PeekNextNonSpace(r), close)
    ELSE LaterItem(NextNonSpace(r), close)

NextArrayItem(r) == NextItem(r, "]")

WithKey(n) == IF ~n.next THEN n ELSE [next |-> TRUE, r |-> Expect(ReadString(n.r), ":")]
NextObjectItem(r) == WithKey(NextItem(r, "}"))

\* The fields ReadAllFields misses.
Missing(t, v) == {f \in DOMAIN t.fields : ~t.fields[f].optional /\ f \notin DOMAIN v}

RECURSIVE Read(_, _)
RECURSIVE Elements(_, _, _)
RECURSIVE Members(_, _, _)
\* ArrayHandler::Read after BeginArray
AddElement(e, t, array) == IF ~e.ok THEN e ELSE Elements(e, t, Append(array, e.v))
ElementAt(n, t, array) ==
    IF ~n.r.ok THEN n.r
    ELSE IF ~n.next THEN [n.r EXCEPT !.v = array] ELSE AddElement(Read(n.r, t.of), t, array)
Elements(r, t, array) == ElementAt(NextArrayItem(r), t, array)

\* MapHandler::Read and JSONObjectReadHelper::ReadAllFields after BeginObject
AddMember(key, e, t, map) == IF ~e.ok THEN e ELSE Members(e, t, (key :> e.v) @@ map)
MemberAt(n, t, map) ==
    IF ~n.r.ok THEN n.r
    ELSE IF ~n.next
    THEN IF t.k = "obj" /\ Missing(t, map) /= {} THEN Fail(n.r) ELSE [n.r EXCEPT !.v = map]
    ELSE IF t.k = "obj" /\ n.r.v \notin DOMAIN t.fields THEN Fail(n.r)
    ELSE AddMember(n.r.v, Read(n.r, FieldType(t, n.r.v)), t, map)
Members(r, t, map) == MemberAt(NextObjectItem(r), t, map)

\* PairHandler::Read and Handler<any>::Read: the three items they ask for, the
\* first of an any being the name of its type.
EndOfPair(first, second, three, t) ==
    IF three.next THEN Fail(three.r)
    ELSE [three.r EXCEPT !.v = IF t.k = "pair" THEN <<first, second.v>>
                               ELSE [id |-> type_map_[first], value |-> second.v]]
HaveSecond(first, second, t) ==
    IF ~second.ok THEN second ELSE EndOfPair(first, second, NextArrayItem(second), t)
ReadSecond(first, two, t) ==
    IF ~two.next THEN Fail(two.r)
    ELSE HaveSecond(first, Read(two.r, IF t.k = "pair" THEN t.of[2] ELSE AnyTypes[type_map_[first]]), t)
HaveFirst(first, t) ==
    IF ~first.ok \/ (t.k = "any" /\ first.v \notin DOMAIN type_map_) THEN Fail(first)
    ELSE ReadSecond(first.v, NextArrayItem(first), t)
ReadFirst(one, t) ==
    IF ~one.next THEN Fail(one.r)
    ELSE HaveFirst(Read(one.r, IF t.k = "pair" THEN t.of[1] ELSE [k |-> "str"]), t)

\* Handler<T>::Read, by type.
Read(r, t) ==
    CASE ~r.ok -> r
    []   t.k = "num" -> ReadNumber(r)
    []   t.k = "str" -> ReadString(r)
    []   t.k = "arr" -> Elements(BeginRead(r, "["), t, <<>>)
    []   t.k \in {"map", "obj"} -> Members(BeginRead(r, "{"), t, <<>>)
    []   t.k \in {"pair", "any"} -> ReadFirst(NextArrayItem(BeginRead(r, "[")), t)

\* JSONReader::Read
ReadCall ==
    /\ phase = "written"
    /\ res' = Read([is_ |-> text, line_count_n_ |-> 0, scope_counter_ |-> <<>>, ok |-> TRUE, v |-> <<>>], prog.as)
    /\ phase' = IF res'.ok THEN "read" ELSE "fatal"
    /\ UNCHANGED <<type_name_, type_map_, refused, prog, text, whole>>

Next ==
    \/ \E id \in DOMAIN AnyTypes, name \in Names : EnableType(id, name)
    \/ WriteCall
    \/ \E kind \in Damages : \E i \in DOMAIN text : Damage(kind, i)
    \/ ReadCall

Spec == Init /\ [][Next]_vars

-----------------------------------------------------------------------------
(* Properties *)

\* The text that was read, without the blanks between its symbols.
Consumed == SubSeq(text, 1, Len(text) - Len(res.is_))
RECURSIVE Dense(_, _)
Dense(s, quoted) ==
    LET rest(n) == SubSeq(s, n + 1, Len(s))
    IN  IF s = <<>> THEN <<>>
        ELSE IF quoted /\ s[1] = "b" /\ Len(s) > 1 THEN SubSeq(s, 1, 2) \o Dense(rest(2), TRUE)
        ELSE IF ~quoted /\ s[1] \in Blank THEN Dense(rest(1), FALSE)
        ELSE <<s[1]>> \o Dense(rest(1), quoted /= (s[1] = "q"))

RECURSIVE Text(_, _)
\* The text of a value with no blanks, as JSON defines it.
Text(t, v) ==
    LET quoted(s) == <<"q">> \o FlattenSeq([i \in DOMAIN s |-> Escaped(s[i])]) \o <<"q">>
        joined(parts) == FlattenSeq([i \in DOMAIN parts |-> IF i = 1 THEN parts[i] ELSE <<",">> \o parts[i]])
        keys == KeysOf(v)
    IN  CASE t.k = "num" -> v
        []   t.k = "str" -> quoted(v)
        []   t.k = "arr" -> <<"[">> \o joined([i \in DOMAIN v |-> Text(t.of, v[i])]) \o <<"]">>
        []   t.k = "pair" -> <<"[">> \o joined([i \in {1, 2} |-> Text(t.of[i], v[i])]) \o <<"]">>
        []   t.k = "any" -> <<"[">> \o quoted(type_name_[v.id]) \o <<",">> \o Text(AnyTypes[v.id], v.value) \o <<"]">>
        []   t.k \in {"map", "obj"} ->
                <<"{">> \o joined([i \in DOMAIN keys |->
                                    quoted(keys[i]) \o <<":">> \o Text(FieldType(t, keys[i]), v[keys[i]])]) \o <<"}">>

\* The names of the types that are enabled and the handlers found by name are
\* inverse to each other, whatever was refused.
TypeOK ==
    /\ phase \in {"start", "written", "read", "fatal"}
    /\ \A id \in DOMAIN type_name_ : type_name_[id] \in DOMAIN type_map_ /\ type_map_[type_name_[id]] = id
    /\ \A name \in DOMAIN type_map_ : type_name_[type_map_[name]] = name

\* What JSONWriter writes, JSONReader reads back, to the last character and
\* with every scope left, unless a type in an any was not enabled.
RoundTrip ==
    whole /\ prog.as = prog.type =>
             CASE phase = "read" -> res.v = prog.value /\ res.is_ = <<>> /\ res.scope_counter_ = <<>>
             []   phase = "fatal" -> /\ DOMAIN type_name_ /= DOMAIN AnyTypes
                                     /\ prog.type.k = "any" \/ (prog.type.k = "arr" /\ prog.type.of.k = "any")
             []   OTHER -> TRUE

\* A value that is read from any text is the one the text is of, where the
\* ends of arrays and objects may be missing at the end of the text.
ReadsWhatIsThere ==
    phase = "read" =>
        \E n \in 0 .. 3 : LET all == Text(prog.as, res.v)
                          IN  /\ n <= Len(all) /\ Dense(Consumed, FALSE) = SubSeq(all, 1, Len(all) - n)
                              /\ \A i \in Len(all) - n + 1 .. Len(all) : all[i] \in {"]", "}"} /\ res.is_ = <<>>

\* A struct that is read has all fields that are not optional.
RequiredRead ==
    phase = "read" /\ prog.as.k = "obj" =>
        \A f \in DOMAIN prog.as.fields : prog.as.fields[f].optional \/ f \in DOMAIN res.v

\* A read that succeeds has met the end of what it read.
EndsMet == phase = "read" => Dense(Consumed, FALSE) = Text(prog.as, res.v)

\* The line the reader counts is the line it is in.
LineCounted == phase = "read" => res.line_count_n_ = Lines(Consumed)
=============================================================================
