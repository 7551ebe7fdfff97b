------------------------------- MODULE MCText --------------------------------
(* Instances of what reads and writes text and records (Config, StrToNum,
   Parameter, JSON, RecordIO) for TLC.  Each behaviour is about one of them, on. *)
EXTENDS Integers, Sequences, FiniteSets, TLC

CONSTANTS Components, kMagic

VARIABLES
    on,   \* the component that this behaviour is about
    is, loading, config_map_, order_, multi_value_, index_, clears, log,
    errno, field, lit, checked, plain, num_pc,
    entry_map_, head, dict, call, out, env, param_pc,
    type_name_, type_map_, refused, prog, text, whole, res, json_phase,
    stream, except_counter_, written, heads, cut, rec_phase, pos, end_of_stream_, ended, got,
    from, part_index, num_parts, pbegin_, pend_

ConfigVars == <<is, loading, config_map_, order_, multi_value_, index_, clears, log>>
NumVars == <<errno, field, lit, checked, plain, num_pc>>
NetVars == <<entry_map_, head, dict, call, out, env, param_pc>>
JsonVars == <<type_name_, type_map_, refused, prog, text, whole, res, json_phase>>
RecVars == <<stream, except_counter_, written, heads, cut, rec_phase, pos, end_of_stream_,
    ended, got, from, part_index, num_parts, pbegin_, pend_>>
vars == <<on, ConfigVars, NumVars, NetVars, JsonVars, RecVars>>

Upto(S, n) == UNION {[1 .. k -> S] : k \in 0 .. n}

\* JSON: values of every type, nested up to two levels, and what they are read
\* as.  The keys Ka and Kb differ in more than one character, so that no damage
\* makes them the same; the other keys are what damage makes of them.
num == [k |-> "num"]
str == [k |-> "str"]
any == [k |-> "any"]
arr(t) == [k |-> "arr", of |-> t]
map(t) == [k |-> "map", of |-> t]
pair(t, u) == [k |-> "pair", of |-> <<t, u>>]
Ka == <<"1">>
Kb == <<"n", "n", "n">>
obj == [k |-> "obj", fields |-> (Ka :> [type |-> num, optional |-> FALSE])
                                @@ (Kb :> [type |-> arr(str), optional |-> TRUE])]
as(t, vs, u) == {[type |-> t, value |-> v, as |-> u] : v \in vs}
of(t, vs) == as(t, vs, t)
N1 == <<"1">>
N2 == <<"1", "2">>
Nums == {<<>>, <<N1>>, <<N2, N1>>, <<N1, N2, N2>>}
Programs ==
    of(num, {N1, N2}) \cup of(str, Upto({"n", "b", "q", "NL", "sp"}, 2)) \cup of(arr(num), Nums)
    \cup of(arr(arr(num)), {<<>>, <<<<>>, <<N1, N2>>>>, <<<<N1>>, <<N1, N2, N1>>>>})
    \cup of(arr(str), {<<<<"q">>>>, <<<<"n", "NL">>, <<>>>>})
    \cup of(map(num), {<<>>, Ka :> N1, (Ka :> N1) @@ (Kb :> N2)})
    \cup of(map(map(arr(num))), {Ka :> <<>>, (Ka :> (Kb :> <<N1>>)) @@ (Kb :> <<>>)})
    \cup of(pair(str, num), {<<<<"n", "sp">>, N1>>})
    \cup of(pair(arr(num), pair(num, str)), {<<<<N1, N2>>, <<N1, <<"b">>>>>>})
    \cup of(any, {[id |-> "int", value |-> N1], [id |-> "list", value |-> <<N1, N2, N1>>]})
    \cup of(arr(any), {<<[id |-> "int", value |-> N1], [id |-> "list", value |-> <<N2>>]>>})
    \cup of(obj, {Ka :> N1, (Ka :> N2) @@ (Kb :> <<<<"n">>>>), (Ka :> N1) @@ (Kb :> <<>>)})
    \cup as(map(arr(str)), {Kb :> <<<<"n">>>>}, obj)
    \cup as(map(num), {Ka :> N1, (Ka :> N1) @@ (Kb :> N1)}, obj)
    \cup as(arr(num), Nums, pair(num, num)) \cup as(pair(str, num), {<<<<"n">>, N1>>}, any)
Keys == <<<<>>, <<"sp">>, Ka, <<"n", "n">>, <<"sp", "n", "n">>, <<"n", "sp", "n">>, <<"n", "n", "sp">>, Kb>>

\* Config: pairs of two keys, with and without quotes, and every short text.
SomeParams ==
    {[key |-> <<k>>, value |-> v[1], is_string |-> v[2]] :
        k \in {"a", "b"}, v \in {<<<<"a">>, FALSE>>, <<<<"a">>, TRUE>>, <<<<"\"", "b">>, TRUE>>}}
AllTexts == Upto({"a", " ", "\n", "\"", "\\", "=", "#"}, 5)
            \cup {<<"a", "=">> \o s : s \in [1 .. 5 -> {"a", "\"", "\\"}]}

\* Parameter: a number with a range and an alias, and a required enumeration; a
\* float with a range, a Boolean and a string.
Field(type, has_default, default, begin, end) ==
    [type |-> type, has_default |-> has_default, default |-> default, begin |-> begin, end |-> end]
NetFields == "n" :> Field("int", TRUE, 5, 1, 5) @@ "act" :> Field("enum", FALSE, 0, 0, 0)
NetAliases == "num" :> "n"
NetGarbage == "n" :> 0 @@ "act" :> 2
RateFields == "rate" :> Field("float", TRUE, 1, 0, 5) @@ "flag" :> Field("bool", TRUE, TRUE, 0, 0)
              @@ "name" :> Field("string", TRUE, "x", 0, 0)
RateGarbage == "rate" :> 9 @@ "flag" :> FALSE @@ "name" :> "unset"

\* RecordIO: records of up to three words over the magic word, a word like the
\* header of a whole record (4) and one like that of a last piece (52), with
\* padding, and one that is too long.
Three == {[len |-> 12, words |-> w] :
             w \in {<<kMagic, kMagic, 4>>, <<4, kMagic, 52>>, <<kMagic, kMagic, kMagic>>}}
Padded == {[len |-> 2, words |-> <<4>>], [len |-> 7, words |-> <<kMagic, 52>>],
           [len |-> 9, words |-> <<4, kMagic, 4>>]}
AllRecords == {[len |-> 4 * Len(w), words |-> w] :
                  w \in Upto({kMagic, 4}, 2) \cup {<<52>>, <<kMagic, 52>>}}
              \cup Three \cup Padded
SomeRecords == {[len |-> 0, words |-> <<>>], [len |-> 4, words |-> <<kMagic>>],
                [len |-> 16, words |-> <<4, 52, 4, 52>>]} \cup Three \cup Padded

\* StrToNum: decimal literals of every shape, and the words.
NoLiteral ==
    [f \in {"sp", "sign", "word", "int", "point", "frac", "e", "esign", "exp", "tail"} |-> <<>>]
Signs == {<<>>, <<"-">>, <<"+">>}
Points == {<<<<>>, <<>>>>} \cup {<<".">>} \X Upto({"1", "9"}, 3)
Exponents == {<<<<>>, <<>>, <<>>>>} \cup {<<"e">>} \X Signs \X (Upto({"0", "1", "2"}, 2) \ {<<>>})
AllLiterals ==
    {[NoLiteral EXCEPT !.sp = b[1], !.sign = b[2], !.int = i, !.point = p[1], !.frac = p[2],
                      !.e = x[1], !.esign = x[2], !.exp = x[3], !.tail = t] :
        b \in {<<<<>>, <<>>>>, <<<<" ">>, <<"-">>>>}, i \in Upto({"1", "9"}, 2),
        p \in Points, x \in Exponents, t \in {<<>>, <<"f">>, <<"x">>}}
    \cup {[NoLiteral EXCEPT !.sign = sg, !.word = w, !.tail = t] :
            sg \in Signs, t \in {<<>>, <<"x">>},
            w \in {<<"inf">>, <<"inf", "ini">>, <<"inf", "inity">>, <<"nan">>, <<"nan", "(", ")">>,
                   <<"nan", "(", "1", "e", ")">>, <<"nan", "(", "1">>}}

Config == INSTANCE Config WITH Texts <- {<<>>}, Params <- SomeParams, MaxInserts <- 4,
    MaxClears <- 1
Load == INSTANCE Config WITH Texts <- AllTexts, Params <- {}, MaxInserts <- 3, MaxClears <- 0
Num == INSTANCE StrToNum WITH Literals <- AllLiterals, kMaxExponent <- 2, kMaxSignificand <- 34,
    kMinSignificand <- 12, kStrtofMaxDigits <- 2, Wrap64 <- 128, Wrap32 <- 64, pc <- num_pc
Net == INSTANCE Parameter WITH Fields <- NetFields, Aliases <- NetAliases, Texts <- {"1", "5",
    "9", "5x", "relu"}, Others <- {"other", "__hidden__"}, Garbage <- NetGarbage, MaxArgs <- 2,
    pc <- param_pc
Rate == INSTANCE Parameter WITH Fields <- RateFields, Aliases <- [a \in {} |-> ""],
    Texts <- {"0", "true", "9", ""}, Others <- {"other"}, Garbage <- RateGarbage, MaxArgs <- 1,
    pc <- param_pc
Json == INSTANCE JSON WITH AnyTypes <- "int" :> num @@ "list" :> arr(num), Names <- {<<"n">>,
    <<"1", "1">>}, KeyOrder <- Keys, LongArray <- 2, Damages <- {"cut", "delete", "replace"},
    phase <- json_phase
Rec == INSTANCE RecordIO WITH LenBits <- 4, Records <- AllRecords, MaxRecords <- 3,
    MaxParts <- 4, Crashes <- FALSE, Appends <- FALSE, Seeks <- FALSE, phase <- rec_phase
Torn == INSTANCE RecordIO WITH LenBits <- 4, Records <- SomeRecords, MaxRecords <- 3,
    MaxParts <- 3, Crashes <- TRUE, Appends <- FALSE, Seeks <- FALSE, phase <- rec_phase

Init ==
    /\ on \in Components
    /\ CASE on = "config" -> Config!Init
         [] on = "config_text" -> Load!Init
         [] OTHER -> is = 0 /\ loading = 0 /\ config_map_ = 0 /\ order_ = 0
             /\ multi_value_ = 0 /\ index_ = 0 /\ clears = 0 /\ log = 0
    /\ IF on = "strtonum" THEN Num!Init ELSE errno = 0 /\ field = 0 /\ lit = 0
          /\ checked = 0 /\ plain = 0 /\ num_pc = 0
    /\ CASE on = "net" -> Net!Init
         [] on = "rate" -> Rate!Init
         [] OTHER -> entry_map_ = 0 /\ head = 0 /\ dict = 0 /\ call = 0 /\ out = 0 /\ env = 0
             /\ param_pc = 0
    /\ IF on = "json" THEN Json!Init ELSE type_name_ = 0 /\ type_map_ = 0 /\ refused = 0
          /\ prog = 0 /\ text = 0 /\ whole = 0 /\ res = 0 /\ json_phase = 0
    /\ CASE on = "recordio" -> Rec!Init
         [] on = "recordio_torn" -> Torn!Init
         [] OTHER -> stream = 0 /\ except_counter_ = 0 /\ written = 0 /\ heads = 0 /\ cut = 0
             /\ rec_phase = 0 /\ pos = 0 /\ end_of_stream_ = 0 /\ ended = 0
             /\ got = 0 /\ from = 0 /\ part_index = 0 /\ num_parts = 0
             /\ pbegin_ = 0 /\ pend_ = 0

Next ==
    /\ UNCHANGED on
    /\ CASE on = "config" -> Config!Next
         [] on = "config_text" -> Load!Next
         [] OTHER -> UNCHANGED ConfigVars
    /\ IF on = "strtonum" THEN Num!Next ELSE UNCHANGED NumVars
    /\ CASE on = "net" -> Net!Next
         [] on = "rate" -> Rate!Next
         [] OTHER -> UNCHANGED NetVars
    /\ IF on = "json" THEN Json!Next ELSE UNCHANGED JsonVars
    /\ CASE on = "recordio" -> Rec!Next
         [] on = "recordio_torn" -> Torn!Next
         [] OTHER -> UNCHANGED RecVars

Spec == Init /\ [][Next]_vars

-----------------------------------------------------------------------------
\* Config: a walk from begin() to end() gives every pair in the order of insertion
\* when it is multi-value, and otherwise each key once, with its newest value;
\* GetParam and IsGenuineString speak of the newest pair; and a string that
\* ToProtoString writes is read back by the tokenizer as the same string.
ConfigReadsBack ==
    /\ on = "config" => Config!TypeOK /\ Config!WalkIsLog /\ Config!NewestWins
    /\ on = "config_text" => Load!TypeOK /\ Load!StringsReadBack

\* strtof and stof: a literal whose value fits is stored as exactly what it
\* denotes, and of a normalised literal the range error is raised exactly when
\* the value is beyond the normal floats; without the check it is clipped; a word
\* is taken whole or not at all.
NumbersExact ==
    on = "strtonum" => /\ Num!TypeOK /\ Num!ExactInside /\ Num!RangeExact /\ Num!ClippedInside
                      /\ Num!WordsWhole

\* Parameter: after a call that does not throw every field has the value of the
\* last argument that names it, by key or alias, in its range, or its default
\* (Init), or what it had (UpdateAllowUnknown); a call that throws has changed
\* no field but those named up to the argument at fault.  What Save wrote, Load
\* reads back to the same struct, and what SetEnv stored GetEnv gives back.
InitMeaning ==
    /\ on = "net" => /\ Net!TypeOK /\ Net!InitMeaning /\ Net!RangeHolds /\ Net!FailureStops
                     /\ Net!UpdateMeaning /\ Net!SavedLoads
    /\ on = "rate" => Rate!TypeOK /\ Rate!InitMeaning /\ Rate!SavedLoads /\ Rate!EnvReadBack

\* JSON: what the writer writes the reader reads back, to the last character and
\* with every scope left; from a damaged text it reads the value the text is of,
\* or fails, where the closing brackets and braces that are missing at the very end
\* of the text are not missed: the reader stops at the end of the stream.
JSONReadsBack == on = "json" => Json!TypeOK /\ Json!RoundTrip /\ Json!ReadsWhatIsThere /\ Json!RequiredRead

\* RecordIO: the reader returns the records that were written, in order, also
\* when a writer stopped in the middle of one; a CHECK of a reader fails only on
\* such a stream; and the parts of a chunk hold its records, each in one part.
RecordsReadBack ==
    /\ on = "recordio" => Rec!TypeOK /\ Rec!ReadBack /\ Rec!OnlyTorn /\ Rec!MagicsAreHeads /\ Rec!PartsCover
    /\ on = "recordio_torn" => Torn!TypeOK /\ Torn!ReadBack /\ Torn!OnlyTorn
=============================================================================
