----------------------------- MODULE Parameter -----------------------------
(***************************************************************************)
(* dmlc::Parameter and its manager (include/dmlc/parameter.h): a struct     *)
(* whose fields are declared with types, defaults, ranges, enumerations and *)
(* aliases, filled from keyword arguments, saved to and loaded from a       *)
(* dictionary; and the environment variables read with the same fields.     *)
(* Texts are tokens; Int says which of them a number starts with.           *)
(***************************************************************************)
EXTENDS Integers, SequencesExt, FiniteSetsExt, TLC

CONSTANTS
    Fields,   \* key -> [type, has_default, default, begin, end]
    Aliases,  \* alias -> key
    Texts,    \* the values of keyword arguments
    Others,   \* keys that are not declared
    Garbage,  \* what a struct holds before Init
    MaxArgs   \* bound on the keyword arguments of a call

VARIABLES
    entry_map_, \* key or alias -> field
    head,       \* the struct
    dict,       \* the last __DICT__, with the struct it was made from
    call,       \* the call in progress: [op, kwargs, before]
    out,        \* [err, unknown, at]: how it ended, at the argument
    env,        \* the environment variable, with the value it was made from
    pc          \* "declare", "idle", "returned", "abort"

vars == <<entry_map_, head, dict, call, out, env, pc>>

Hidden == {"__hidden__"}    \* the keys of the form __*__
NaN == 1000
\* The number that operator>> and stof read from a text, and the texts they
\* read to the end.
Numbers == ("0" :> 0) @@ ("1" :> 1) @@ ("5" :> 5) @@ ("9" :> 9) @@ ("5x" :> 5)
Whole == {"0", "1", "5", "9"}
enum_map_ == ("relu" :> 1) @@ ("sigmoid" :> 2)
Names == DOMAIN Fields \cup DOMAIN Aliases \cup Others
Kwargs == UNION {[1 .. n -> Names \X Texts] : n \in 0 .. MaxArgs}
NoCall == [op |-> "none", kwargs |-> <<>>, before |-> Garbage]
Fine == [err |-> FALSE, unknown |-> <<>>, at |-> 0]
None == [texts |-> <<>>, of |-> Garbage]
Unset == [text |-> "", type |-> "string", val |-> ""]

Init ==
    /\ entry_map_ = [k \in {} |-> ""] /\ head = Garbage /\ dict = None
    /\ call = NoCall /\ out = Fine /\ env = Unset /\ pc = "declare"

---------------------------------------------------------------------------
\* AddEntry and AddAlias, in the order of __DECLARE__; a key that is there and
\* an alias of a key that is not there end the program.
AddEntry(key) ==
    /\ pc = "declare" /\ key \notin DOMAIN entry_map_
    /\ entry_map_' = (key :> key) @@ entry_map_
    /\ UNCHANGED <<head, dict, call, out, env, pc>>

AddAlias(alias) ==
    /\ pc = "declare" /\ alias \notin DOMAIN entry_map_
    /\ IF Aliases[alias] \in DOMAIN entry_map_
       THEN entry_map_' = (alias :> entry_map_[Aliases[alias]]) @@ entry_map_ /\ UNCHANGED pc
       ELSE pc' = "abort" /\ UNCHANGED entry_map_
    /\ UNCHANGED <<head, dict, call, out, env>>

Declared ==
    /\ pc = "declare" /\ DOMAIN entry_map_ = DOMAIN Fields \cup DOMAIN Aliases /\ pc' = "idle"
    /\ UNCHANGED <<entry_map_, head, dict, call, out, env>>

---------------------------------------------------------------------------
\* FieldEntry<DType>::Set: what is stored, and whether it throws.  operator>>
\* stores 0 when it reads no number; the others store nothing then.
ReadAs(type, text, old) ==
    CASE type = "string" -> [ok |-> TRUE, val |-> text]
      [] type = "bool" -> IF text \in {"true", "1", "false", "0"}
                          THEN [ok |-> TRUE, val |-> text \in {"true", "1"}]
                          ELSE [ok |-> FALSE, val |-> old]
      [] type = "enum" -> IF text \in DOMAIN enum_map_ THEN [ok |-> TRUE, val |-> enum_map_[text]]
                          ELSE [ok |-> FALSE, val |-> old]
      [] type = "int" -> [ok |-> text \in Whole,
                          val |-> IF text \in DOMAIN Numbers THEN Numbers[text] ELSE 0]
      [] type = "float" -> IF text = "nan" THEN [ok |-> TRUE, val |-> NaN]
                           ELSE [ok |-> text \in Whole,
                                 val |-> IF text \in DOMAIN Numbers THEN Numbers[text] ELSE old]

\* FieldEntryNumeric::Check: comparisons with NaN are false.
Check(f, v) ==
    Fields[f].type \in {"int", "float"} =>
        v = NaN \/ (v >= Fields[f].begin /\ v <= Fields[f].end)

\* PrintValue
GetStringValue(type, v) ==
    CASE type = "string" -> v
      [] type = "bool" -> IF v THEN "1" ELSE "0"
      [] type = "enum" -> CHOOSE t \in DOMAIN enum_map_ : enum_map_[t] = v
      [] OTHER -> IF v = NaN THEN "nan" ELSE CHOOSE t \in Whole : Numbers[t] = v

\* Whether an argument without a field ends the call with an error.
Refused(op, key) ==
    op = "kAllMatch" \/ (op = "kAllowHidden" /\ key \notin Hidden)

\* The loop body of RunUpdate for the argument kv, the n-th, from the state st.
Step(op, st, n, kv) ==
    IF st.err THEN st
    ELSE IF kv[1] \in DOMAIN entry_map_
    THEN LET f == entry_map_[kv[1]]
             r == ReadAs(Fields[f].type, kv[2], st.head[f])
         IN  [st EXCEPT !.head[f] = r.val, !.selected = @ \cup {f}, !.at = n,
                        !.err = ~r.ok \/ ~Check(f, r.val)]
    ELSE [st EXCEPT !.unknown = IF op \in {"unknown", "update"} THEN Append(@, kv) ELSE @,
                    !.err = op \notin {"unknown", "update"} /\ Refused(op, kv[1]), !.at = n]

Start == [head |-> head, selected |-> {}, unknown |-> <<>>, err |-> FALSE, at |-> 0]

RunUpdate(op, kwargs) ==
    FoldLeft(LAMBDA st, n : Step(op, st, n, kwargs[n]), Start, [n \in 1 .. Len(kwargs) |-> n])

SelectedMutant(st, kwargs) ==
    {entry_map_[k] : k \in DOMAIN entry_map_ \ {kwargs[n][1] : n \in DOMAIN kwargs}}

\* The fields whose entry was not selected, under any of its names.
Unselected(st, kwargs) == {entry_map_[k] : k \in DOMAIN entry_map_} \ st.selected

\* SetDefault throws for these.
Required(S) == {f \in S : ~Fields[f].has_default}

\* RunInit: the defaults of what was not given; a required field ends it, and
\* which defaults were set before that depends on the order of the keys.
RunInit(op, kwargs) ==
    LET st == RunUpdate(op, kwargs)
        rest == Unselected(st, kwargs)
        required == Required(rest)
        Defaults(S) == [f \in DOMAIN st.head |-> IF f \in S THEN Fields[f].default ELSE st.head[f]]
    IN  IF st.err THEN {st}
        ELSE IF required = {} THEN {[st EXCEPT !.head = Defaults(rest)]}
        ELSE {[st EXCEPT !.head = Defaults(S), !.err = TRUE] : S \in SUBSET (rest \ required)}

End(op, kwargs, st) ==
    /\ head' = st.head /\ out' = [err |-> st.err, unknown |-> st.unknown, at |-> st.at]
    /\ call' = [op |-> op, kwargs |-> kwargs, before |-> head]
    /\ pc' = "returned"

\* Parameter::Init with each option and InitAllowUnknown ("unknown").
Init_ ==
    /\ pc = "idle"
    /\ \E op \in {"kAllowHidden", "kAllMatch", "kAllowUnknown", "unknown"}, kw \in Kwargs :
        \E st \in RunInit(op, kw) : End(op, kw, st)
    /\ UNCHANGED <<entry_map_, dict, env>>

UpdateAllowUnknown ==
    /\ pc = "idle"
    /\ \E kw \in Kwargs : End("update", kw, RunUpdate("update", kw))
    /\ UNCHANGED <<entry_map_, dict, env>>

\* Every key and every alias with the text of its field, in the order of the map.
GetDict ==
    SetToSeq({<<k, GetStringValue(Fields[entry_map_[k]].type, head[entry_map_[k]])>> :
                k \in DOMAIN entry_map_})

\* Save, after a call that did not throw.
Save ==
    /\ pc = "returned" /\ ~out.err /\ call.op # "update" /\ pc' = "idle"
    /\ dict' = [texts |-> GetDict, of |-> head] /\ call' = NoCall /\ out' = Fine
    /\ UNCHANGED <<entry_map_, head, env>>

Load ==
    /\ pc = "idle" /\ dict # None
    /\ \E st \in RunInit("kAllowHidden", dict.texts) : End("load", dict.texts, st)
    /\ UNCHANGED <<entry_map_, dict, env>>

Return ==
    /\ pc = "returned" /\ pc' = "idle" /\ call' = NoCall /\ out' = Fine
    /\ UNCHANGED <<entry_map_, head, dict, env>>

---------------------------------------------------------------------------
\* SetEnv of a field's value, UnsetEnv.
SetEnv ==
    /\ pc = "idle"
    /\ \E f \in DOMAIN Fields :
        env' = [text |-> GetStringValue(Fields[f].type, head[f]),
                type |-> Fields[f].type, val |-> head[f]]
    /\ UNCHANGED <<entry_map_, head, dict, call, out, pc>>

UnsetEnv ==
    /\ pc = "idle" /\ env # Unset /\ env' = Unset
    /\ UNCHANGED <<entry_map_, head, dict, call, out, pc>>

\* An environment variable that is blank counts as not set.
GetEnv(type, default) ==
    IF env.text = "" THEN [ok |-> TRUE, val |-> default] ELSE ReadAs(type, env.text, default)

Next ==
    \/ \E k \in DOMAIN Fields : AddEntry(k)
    \/ \E a \in DOMAIN Aliases : AddAlias(a)
    \/ Declared \/ Init_ \/ UpdateAllowUnknown \/ Save \/ Load \/ Return
    \/ SetEnv \/ UnsetEnv
    \/ (pc = "abort" /\ UNCHANGED vars)

Spec == Init /\ [][Next]_vars

---------------------------------------------------------------------------
Ended == pc = "returned"
Given(f) == {n \in DOMAIN call.kwargs : /\ call.kwargs[n][1] \in DOMAIN entry_map_
                                        /\ entry_map_[call.kwargs[n][1]] = f}
TextOf(f) == call.kwargs[Max(Given(f))][2]

(* Each field has a value of its type: a number, the number of an enumerator, a
   Boolean or a text. *)
TypeOK ==
    /\ pc \in {"declare", "idle", "returned", "abort"}
    /\ \A f \in DOMAIN Fields :
        \/ Fields[f].type \in {"int", "float"} /\ head[f] \in {0, 1, 5, 9, NaN}
        \/ Fields[f].type = "enum" /\ head[f] \in {1, 2}
        \/ Fields[f].type = "bool" /\ head[f] \in BOOLEAN
        \/ Fields[f].type = "string" /\ head[f] \in Texts \cup {Garbage[f], Fields[f].default}

(* After an Init that does not throw, every field has the value of the last
   argument that names it, by its key or by an alias, or else its default:
   nothing is left of what the struct held before, and no default overwrites an
   argument given under an alias. *)
InitMeaning ==
    Ended /\ ~out.err /\ call.op # "update" =>
        \A f \in DOMAIN Fields :
            head[f] = IF Given(f) = {} THEN Fields[f].default
                      ELSE ReadAs(Fields[f].type, TextOf(f), head[f]).val

(* A successful call has left the numbers in their ranges: those of all fields
   for Init, those it was given for UpdateAllowUnknown. *)
RangeHolds ==
    Ended /\ ~out.err =>
        \A f \in DOMAIN Fields :
            /\ Fields[f].type \in {"int", "float"}
            /\ call.op = "update" => Given(f) # {}
            => head[f] \in Fields[f].begin .. Fields[f].end

(* A call that throws at an argument has changed no field but those named up to
   that argument. *)
FailureStops ==
    Ended /\ out.err /\ out.at < Len(call.kwargs) =>
        \A f \in DOMAIN Fields : head[f] # call.before[f] => \E n \in Given(f) : n <= out.at

(* UpdateAllowUnknown leaves every field that is not named alone, and hands back
   exactly the arguments without a field, in their order. *)
UpdateMeaning ==
    Ended /\ call.op = "update" =>
        /\ \A f \in DOMAIN Fields : Given(f) = {} => head[f] = call.before[f]
        /\ ~out.err => out.unknown = SelectSeq(call.kwargs, LAMBDA kv : kv[1] \notin DOMAIN entry_map_)

(* What Save wrote, Load reads back to the same struct, aliases included. *)
SavedLoads == Ended /\ call.op = "load" => ~out.err /\ head = dict.of

(* GetEnv gives back what SetEnv stored, unless its text is blank. *)
EnvReadBack ==
    env.text # "" =>
        \E f \in DOMAIN Fields :
            /\ Fields[f].type = env.type
            /\ GetEnv(env.type, Garbage[f]) = [ok |-> TRUE, val |-> env.val]

(* RunUpdate throws when a required argument is missing. *)
RequiredChecked ==
    Ended /\ ~out.err => \A f \in DOMAIN Fields : Fields[f].has_default \/ Given(f) # {}
============================================================================
