------------------------------ MODULE Config ------------------------------
(***************************************************************************)
(* dmlc::Config (include/dmlc/config.h, src/config.cc): the tokenizer of    *)
(* configuration files, the table of values with its insertion order, the   *)
(* iterator that walks the order and skips what was replaced, and the text  *)
(* for protobuf.  Texts are sequences of characters; the characters that    *)
(* the tokenizer tells apart are themselves, the others are letters.        *)
(***************************************************************************)
EXTENDS Integers, SequencesExt

CONSTANTS
    Texts,      \* what a stream may hold
    Params,     \* the calls of SetParam: [key, value, is_string]
    MaxInserts, \* bound on the inserted pairs
    MaxClears   \* bound on the calls of Clear

VARIABLES
    is,          \* what is left of the stream being loaded
    loading,     \* "no", "yes", "error" (TokenizeError), "end"
    config_map_, \* key -> [val, insert_index, is_string]
    order_,      \* the <<key, val_index>> in insertion order
    multi_value_,
    index_,      \* of the iterator; 0: there is none
    clears,
    log          \* every pair since Clear, as it was inserted (history)

vars == <<is, loading, config_map_, order_, multi_value_, index_, clears, log>>

Space == {" ", "\n"}
NoKeys == [k \in {} |-> <<>>]

Init ==
    /\ is = <<>> /\ loading = "no"
    /\ config_map_ = NoKeys /\ order_ = <<>> /\ log = <<>>
    /\ multi_value_ \in BOOLEAN /\ index_ = 0 /\ clears = 0

---------------------------------------------------------------------------
Token(buf, is_string, rest) == [ok |-> TRUE, buf |-> buf, is_string |-> is_string, rest |-> rest]
TokenizeError == [ok |-> FALSE, buf |-> <<>>, is_string |-> FALSE, rest |-> <<>>]

\* An escape other than of a quotation mark, the end of the line and the end of
\* the stream are errors.
RECURSIVE ParseString(_, _)
ParseString(s, tok) ==
    IF s = <<>> \/ Head(s) = "\n" THEN TokenizeError
    ELSE IF Head(s) = "\"" THEN Token(tok, TRUE, Tail(s))
    ELSE IF Head(s) # "\\" THEN ParseString(Tail(s), Append(tok, Head(s)))
    ELSE IF Len(s) > 1 /\ s[2] = "\"" THEN ParseString(Tail(Tail(s)), Append(tok, "\""))
    ELSE TokenizeError

\* What follows the comment; its end of line stays.
RECURSIVE ParseComments(_)
ParseComments(s) == IF s = <<>> \/ Head(s) = "\n" THEN s ELSE ParseComments(Tail(s))

\* GetNextToken from the state with buf read; a quotation mark ends a token
\* wherever it is, and its string continues what the token already has.
RECURSIVE Scan(_, _)
Scan(s, buf) ==
    LET kToken == buf # <<>> IN
    IF s = <<>> THEN Token(buf, FALSE, <<>>)
    ELSE IF Head(s) \in Space THEN IF kToken THEN Token(buf, FALSE, s) ELSE Scan(Tail(s), buf)
    ELSE IF Head(s) = "\"" THEN ParseString(Tail(s), buf)
    ELSE IF Head(s) = "=" THEN IF kToken THEN Token(buf, FALSE, s) ELSE Token(<<"=">>, FALSE, Tail(s))
    ELSE IF Head(s) = "#" THEN Scan(ParseComments(s), buf)
    ELSE Scan(Tail(s), Append(buf, Head(s)))

GetNextToken(s) == Scan(s, <<>>)

---------------------------------------------------------------------------
ConfigValue == [val |-> <<>>, insert_index |-> <<>>, is_string |-> FALSE]

\* The value the pair is added to: a new one unless multi_value_.
Old(key) == IF multi_value_ /\ key \in DOMAIN config_map_ THEN config_map_[key] ELSE ConfigValue

Insert(key, value, is_string) ==
    LET cv == [val |-> Append(Old(key).val, value),
               insert_index |-> Append(Old(key).insert_index, Len(order_) + 1),
               is_string |-> is_string]
    IN  /\ Len(log) < MaxInserts
        /\ config_map_' = [k \in DOMAIN config_map_ \cup {key} |->
                                IF k = key THEN cv ELSE config_map_[k]]
        /\ order_' = Append(order_, <<key, Len(cv.val)>>)
        /\ log' = Append(log, [key |-> key, value |-> value, is_string |-> is_string])

SetParam ==
    /\ loading # "yes"
    /\ \E p \in Params : Insert(p.key, p.value, p.is_string)
    /\ UNCHANGED <<is, loading, multi_value_, index_, clears>>

LoadFromStream ==
    /\ loading = "no" /\ is' \in Texts /\ loading' = "yes"
    /\ UNCHANGED <<config_map_, order_, multi_value_, index_, clears, log>>

\* One turn of the loop of LoadFromStream.  An operator other than = is logged
\* and the pair inserted all the same.
LoadEntry ==
    LET key == GetNextToken(is)
        eqop == GetNextToken(key.rest)
        value == GetNextToken(eqop.rest)
    IN  /\ loading = "yes"
        /\ \/ /\ key.ok /\ key.buf = <<>>
              /\ loading' = "end" /\ is' = key.rest
              /\ UNCHANGED <<config_map_, order_, log>>
           \/ /\ ~key.ok \/ (key.buf # <<>> /\ ~(eqop.ok /\ value.ok))
              /\ loading' = "error" /\ is' = <<>>
              /\ UNCHANGED <<config_map_, order_, log>>
           \/ /\ key.ok /\ key.buf # <<>> /\ eqop.ok /\ value.ok
              /\ Insert(key.buf, value.buf, value.is_string)
              /\ is' = value.rest /\ UNCHANGED loading
        /\ UNCHANGED <<multi_value_, index_, clears>>

Clear ==
    /\ loading # "yes" /\ clears < MaxClears /\ clears' = clears + 1
    /\ config_map_' = NoKeys /\ order_' = <<>> /\ log' = <<>> /\ index_' = 0
    /\ UNCHANGED <<is, loading, multi_value_>>

---------------------------------------------------------------------------
EndIndex == Len(order_) + 1

\* The pair at i is the one its value was last inserted by.
Found(i) == config_map_[order_[i][1]].insert_index[order_[i][2]] = i

\* The first index from i on that is not skipped, or the end.
FindNextIndex(i) ==
    CHOOSE j \in i .. EndIndex : /\ j = EndIndex \/ Found(j)
                                 /\ \A k \in i .. j - 1 : ~Found(k)

Begin ==
    /\ index_ = 0 /\ loading # "yes" /\ index_' = FindNextIndex(1)
    /\ UNCHANGED <<is, loading, config_map_, order_, multi_value_, clears, log>>

\* ++iter, and the end of the loop when the iterator is at end().
Increment ==
    /\ index_ # 0 /\ loading # "yes"
    /\ index_' = IF index_ = EndIndex THEN 0 ELSE FindNextIndex(index_ + 1)
    /\ UNCHANGED <<is, loading, config_map_, order_, multi_value_, clears, log>>

\* *iter
Entry(i) == LET key == order_[i][1] IN <<key, config_map_[key].val[order_[i][2]]>>
GetParam(key) == Last(config_map_[key].val)
IsGenuineString(key) == config_map_[key].is_string

ProtoMutant(str) == <<"\"">> \o str \o <<"\"">>
MakeProtoStringValue(str) ==
    <<"\"">> \o FlattenSeq([i \in 1 .. Len(str) |->
                            IF str[i] = "\"" THEN <<"\\", "\"">> ELSE <<str[i]>>]) \o <<"\"">>

\* The indices that a walk from begin() to end() stops at, in order.
Walked == SetToSortSeq({i \in 1 .. Len(order_) : FindNextIndex(i) = i}, <)

ToProtoString ==
    [n \in 1 .. Len(Walked) |->
        LET e == Entry(Walked[n]) IN
        <<e[1], IF IsGenuineString(e[1]) THEN MakeProtoStringValue(e[2]) ELSE e[2]>>]

Done == loading # "yes" /\ Len(log) = MaxInserts /\ UNCHANGED vars

Next == SetParam \/ LoadFromStream \/ LoadEntry \/ Clear \/ Begin \/ Increment \/ Done

Spec == Init /\ [][Next]_vars

---------------------------------------------------------------------------
(* The table, the order and the iterator belong together: every index of
   order_ leads to a value that is there, also for an iterator that was taken
   before later calls of SetParam replaced values, so *iter never reads past a
   vector. *)
TypeOK ==
    /\ loading \in {"no", "yes", "error", "end"}
    /\ index_ \in 0 .. EndIndex
    /\ \A i \in 1 .. Len(order_) :
        /\ order_[i][1] \in DOMAIN config_map_
        /\ order_[i][2] \in 1 .. Len(config_map_[order_[i][1]].val)
    /\ \A k \in DOMAIN config_map_ :
        \A n \in DOMAIN config_map_[k].val :
            config_map_[k].insert_index[n] \in 1 .. Len(order_)

(* A walk from begin() to end() gives every pair in the order of insertion when
   multi_value_, and otherwise each key once with its newest value at the place
   of its newest insertion: FindNextIndex skips exactly the replaced pairs. *)
WalkIsLog ==
    LET kept == {i \in 1 .. Len(log) :
                    multi_value_ \/ \A j \in i + 1 .. Len(log) : log[j].key # log[i].key}
        want == SetToSortSeq(kept, <)
    IN  [n \in 1 .. Len(Walked) |-> Entry(Walked[n])]
            = [n \in 1 .. Len(want) |-> <<log[want[n]].key, log[want[n]].value>>]

(* GetParam and IsGenuineString speak of the newest pair of the key. *)
NewestWins ==
    \A k \in DOMAIN config_map_ :
        LET p == log[SelectLastInSeq(log, LAMBDA e : e.key = k)] IN
        GetParam(k) = p.value /\ IsGenuineString(k) = p.is_string

(* A string value without a backslash that ToProtoString writes is read back by
   the tokenizer as the same string: what MakeProtoStringValue escapes is what
   ParseString unescapes, and nothing of the value ends the string early. *)
StringsReadBack ==
    \A i \in 1 .. Len(log) :
        LET v == log[i].value
            t == GetNextToken(MakeProtoStringValue(v))
        IN  log[i].is_string /\ ~Contains(v, "\\") /\ ~Contains(v, "\n")
                => t = Token(v, TRUE, <<>>)

(* ToProtoString gives a text for protobuf, where a backslash starts an escape:
   a written string has none but those of the escaped quotation marks. *)
ProtoStringParses ==
    \A n \in 1 .. Len(Walked) :
        IsGenuineString(Entry(Walked[n])[1])
            => GetNextToken(ToProtoString[n][2]).ok

(* A value is wrapped in quotes when the call that inserted it said so. *)
QuotedAsInserted ==
    multi_value_ =>
        \A n \in 1 .. Len(Walked) :
            log[Walked[n]].is_string = (ToProtoString[n][2] # log[Walked[n]].value)

(* The loop of LoadFromStream ends without an error when no content is left. *)
EndsAtEnd == loading = "end" => is = <<>>
============================================================================
