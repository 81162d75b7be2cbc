-------------------------------- MODULE Codec --------------------------------
(***************************************************************************)
(* The text a leader replicates: Serialize and Deserialize for strings,    *)
(* vectors, structures (efis/src/rpc/mod.rs, the SerDe derive macro of     *)
(* macros/src/lib.rs) and commands (efis/src/commands.rs).  A follower     *)
(* gets its log entries through this conversion, the leader does not.      *)
(*                                                                         *)
(* A text is a sequence of characters.  Names of fields and variants, and  *)
(* the word None, are one character each: nothing looks inside them.       *)
(***************************************************************************)
EXTENDS Integers, Sequences, TLC
LOCAL INSTANCE SequencesExt

CONSTANTS
    Alphabet,       \* the characters of the values that clients write
    MaxLen          \* bound: length of a value

VARIABLES
    entry,          \* the command of the leader's log entry
    wire,           \* the text the leader sends, <<>> before that
    replica         \* what the follower's log gets: a command, Rejected or Waiting

codecVars == <<entry, wire, replica>>

\* A loop over the characters, from the left: st holds the position and what
\* has been made of the characters before it.
Fold(Op(_, _), base, s) ==
    LET RECURSIVE Loop(_)
        Loop(st) == IF st.at > Len(s) THEN st.acc
                    ELSE Loop([at |-> st.at + 1, acc |-> Op(st.acc, s[st.at])])
    IN  Loop([at |-> 1, acc |-> base])

Quote == "\""
Escape == "\\"
Failed == <<"failed">>
Rejected == [op |-> "rejected", values |-> <<>>]
Waiting == [op |-> "waiting", values |-> <<>>]

Starts(s, c) == s # <<>> /\ s[1] = c
Finishes(s, c) == s # <<>> /\ s[Len(s)] = c

\* trim_start_matches and trim_end_matches of one character; trim.
TrimStart(s, c) ==
    LET k == SelectInSeq(s, LAMBDA x : x # c)
    IN  IF k = 0 THEN <<>> ELSE SubSeq(s, k, Len(s))
TrimEnd(s, c) == Reverse(TrimStart(Reverse(s), c))
Trim(s) == TrimStart(TrimEnd(s, " "), " ")

Inside(s) == SubSeq(s, 2, Len(s) - 1)

-----------------------------------------------------------------------------
(* String, Vec                                                             *)

SerializeString(s) ==
    IF Contains(s, " ")
    THEN <<Quote>> \o FlattenSeq([k \in DOMAIN s |->
                          IF s[k] = Quote THEN <<Escape, Quote>> ELSE <<s[k]>>]) \o <<Quote>>
    ELSE s

\* replace("\\\"", "\""): an escape followed by a quote is dropped.
Unescape(s) ==
    FlattenSeq([k \in DOMAIN s |->
        IF s[k] = Escape /\ k < Len(s) /\ s[k + 1] = Quote THEN <<>> ELSE <<s[k]>>])

\* A quote alone makes the slice of its inside panic.
DeserializeString(text) ==
    LET s == Trim(text)
    IN  IF s = <<Quote>> THEN Failed
        ELSE IF Starts(s, Quote) /\ Finishes(s, Quote) THEN Unescape(Inside(s)) ELSE s

Join(texts, sep) ==
    FlattenSeq([k \in DOMAIN texts |-> IF k = 1 THEN texts[k] ELSE <<sep>> \o texts[k]])

SerializeVec(texts) == <<"[">> \o Join(texts, ",") \o <<"]">>

\* Vec::deserialize: the texts between the commas that are neither quoted nor
\* inside brackets.
SplitVec(text) ==
    LET inner == TrimEnd(TrimStart(Trim(text), "["), "]")
        Push(st, c) == [st EXCEPT !.current = Append(@, c)]
        Step(st, c) ==
            CASE c = Quote -> [Push(st, c) EXCEPT !.quoted = ~@]
              [] c \in {"[", "{"} /\ ~st.quoted -> [Push(st, c) EXCEPT !.depth = @ + 1]
              [] c \in {"]", "}"} /\ ~st.quoted -> [Push(st, c) EXCEPT !.depth = @ - 1]
              [] c = "," /\ st.depth = 0 /\ ~st.quoted ->
                    [st EXCEPT !.result = Append(@, Trim(st.current)), !.current = <<>>]
              [] OTHER -> Push(st, c)
        end == Fold(Step, [result |-> <<>>, current |-> <<>>,
                               depth |-> 0, quoted |-> FALSE], inner)
    IN  IF Trim(end.current) = <<>> THEN end.result
        ELSE Append(end.result, Trim(end.current))

-----------------------------------------------------------------------------
(* Structures: the SerDe derive macro                                      *)

\* fields is a sequence of <<name, text>>; a field that reads None is left out.
SerializeStruct(fields) ==
    LET written == SelectSeq(fields, LAMBDA f : f[2] # <<"None">>)
    IN  <<"{">> \o Join([k \in DOMAIN written |-> <<written[k][1], "=">> \o written[k][2]], " ")
            \o <<"}">>

\* Mutant: a space ends a value inside brackets, too.
ParseKeyValuesFlat(text) ==
    LET Close(st) == [st EXCEPT !.map = (Trim(st.key) :> Trim(st.value)) @@ @,
                                !.key = <<>>, !.value = <<>>, !.inKey = TRUE]
        Step(st, c) ==
            CASE c = "=" /\ st.inKey -> [st EXCEPT !.inKey = FALSE]
              [] c = Quote -> [st EXCEPT !.quoted = ~@, !.value = Append(@, c)]
              [] c = " " /\ ~st.quoted -> IF st.key # <<>> THEN Close(st) ELSE st
              [] OTHER -> IF st.inKey THEN [st EXCEPT !.key = Append(@, c)]
                          ELSE [st EXCEPT !.value = Append(@, c)]
        end == Fold(Step, [map |-> <<>>, key |-> <<>>, value |-> <<>>, inKey |-> TRUE,
                               quoted |-> FALSE], text)
    IN  IF end.key # <<>> THEN Close(end).map ELSE end.map

\* parse_key_values, one character at a time: the spaces that are neither
\* quoted nor inside brackets end a field.
ParseKeyValues(text) ==
    LET Value(st, c) == [st EXCEPT !.value = Append(@, c)]
        Close(st) == [st EXCEPT !.map = (Trim(st.key) :> Trim(st.value)) @@ @,
                                !.key = <<>>, !.value = <<>>, !.inKey = TRUE]
        Step(st, c) ==
            CASE c = "=" /\ st.inKey -> [st EXCEPT !.inKey = FALSE]
              [] c = Quote -> [Value(st, c) EXCEPT !.quoted = ~@]
              [] c = "[" /\ ~st.quoted -> [Value(st, c) EXCEPT !.square = @ + 1]
              [] c = "]" /\ ~st.quoted -> [Value(st, c) EXCEPT !.square = @ - 1]
              [] c = "{" /\ ~st.quoted -> [Value(st, c) EXCEPT !.curly = @ + 1]
              [] c = "}" /\ ~st.quoted -> [Value(st, c) EXCEPT !.curly = @ - 1]
              [] c = " " /\ ~st.quoted /\ st.square = 0 /\ st.curly = 0 ->
                    IF st.key # <<>> THEN Close(st) ELSE st
              [] OTHER -> IF st.inKey THEN [st EXCEPT !.key = Append(@, c)] ELSE Value(st, c)
        end == Fold(Step, [map |-> <<>>, key |-> <<>>, value |-> <<>>, inKey |-> TRUE,
                               quoted |-> FALSE, square |-> 0, curly |-> 0], text)
    IN  IF end.key # <<>> THEN Close(end).map ELSE end.map

\* The field of a structure, or Failed: "Missing field".
Field(text, name) ==
    LET s == Trim(text)
        map == ParseKeyValues(IF Starts(s, "{") /\ Finishes(s, "}") THEN Inside(s) ELSE s)
    IN  IF <<name>> \in DOMAIN map THEN map[<<name>>] ELSE Failed

-----------------------------------------------------------------------------
(* Commands and log entries                                                *)

SerializeCommand(c) ==
    LET field == IF c.op = "Set" THEN <<"value", SerializeString(c.values[1])>>
                 ELSE <<"values", SerializeVec([k \in DOMAIN c.values |->
                                                  SerializeString(c.values[k])])>>
    IN  <<c.op, "(">> \o SerializeStruct(<< <<"key", <<"k">> >>, field>>) \o <<")">>

\* The text up to the parenthesis that closes the first one.
Payload(s) ==
    LET open == SelectInSeq(s, LAMBDA c : c = "(")
        rest == SubSeq(s, open + 1, Len(s))
        Step(st, c) ==
            IF st.depth = 0 THEN st
            ELSE [depth |-> st.depth + (CASE c = "(" -> 1 [] c = ")" -> -1 [] OTHER -> 0),
                  inner |-> Append(st.inner, c)]
        end == Fold(Step, [depth |-> 1, inner |-> <<>>], rest)
    IN  IF open = 0 \/ end.depth # 0 THEN Failed
        ELSE SubSeq(end.inner, 1, Len(end.inner) - 1)

DeserializeCommand(text) ==
    LET s == Trim(text)
        op == s[1]
        inner == Payload(s)
        name == IF op = "Set" THEN "value" ELSE "values"
        field == Field(inner, name)
        values == IF op = "Set" THEN <<DeserializeString(field)>>
                  ELSE LET parts == SplitVec(field)
                       IN  [k \in DOMAIN parts |-> DeserializeString(parts[k])]
    IN  IF inner = Failed \/ Field(inner, "key") # <<"k">> \/ field = Failed THEN Rejected
        ELSE IF \E k \in DOMAIN values : values[k] = Failed THEN Rejected
        ELSE [op |-> op, values |-> values]

\* An AppendEntries with the entry in it, and one more after it.
SerializeEntries(c) ==
    SerializeStruct(<<
        <<"leader", <<"n">> >>,
        <<"entries", SerializeVec([k \in 1 .. 2 |->
            SerializeStruct(<< <<"command", IF k = 1 THEN SerializeCommand(c) ELSE <<"Unknown">> >>,
                               <<"term", <<"1">> >> >>)])>> >>)

DeserializeEntries(text) ==
    LET entries == Field(text, "entries")
        parts == SplitVec(entries)
        command == Field(parts[1], "command")
    IN  IF entries = Failed THEN Rejected
        ELSE IF Len(parts) # 2 \/ command = Failed THEN Rejected
        ELSE IF Field(parts[2], "command") # <<"Unknown">> THEN Rejected
        ELSE IF \E k \in 1 .. 2 : Field(parts[k], "term") # <<"1">> THEN Rejected
        ELSE DeserializeCommand(command)

-----------------------------------------------------------------------------

Text == BoundedSeq(Alphabet, MaxLen)

CodecInit ==
    /\ entry \in [op : {"Set"}, values : {<<v>> : v \in Text}]
              \cup [op : {"Lpush"}, values : {<<v, <<"a">> >> : v \in Text}]
    /\ wire = <<>> /\ replica = Waiting

\* The leader's client writes the AppendEntries, the follower's dispatcher
\* reads it.
Send ==
    /\ wire = <<>>
    /\ wire' = SerializeEntries(entry)
    /\ UNCHANGED <<entry, replica>>

Receive ==
    /\ wire # <<>> /\ replica = Waiting
    /\ replica' = DeserializeEntries(wire)
    /\ UNCHANGED <<entry, wire>>

CodecNext == Send \/ Receive

CodecSpec == CodecInit /\ [][CodecNext]_codecVars

-----------------------------------------------------------------------------
(* Properties.                                                             *)

Count(s, c) == Len(SelectSeq(s, LAMBDA x : x = c))

\* Values that the format can carry: no quotes, parentheses that match and,
\* unless a space makes the value be quoted, brackets in equal number.
Portable(v) ==
    /\ Count(v, Quote) = 0 /\ v # <<"None">>
    /\ Count(v, "(") = Count(v, ")")
    /\ \A k \in DOMAIN v : LET p == SubSeq(v, 1, k) IN Count(p, "(") >= Count(p, ")")
    /\ \/ Contains(v, " ")
       \/ Count(v, "[") = Count(v, "]") /\ Count(v, "{") = Count(v, "}")

\* An item of a list must, besides, show no comma and not be empty.
PortableItem(v) ==
    /\ Portable(v)
    /\ Contains(v, " ") \/ (v # <<>> /\ ~Contains(v, ",") /\ ~Starts(v, "["))

\* A log entry whose value is portable reaches the follower unchanged, and
\* takes nothing of the entry after it (rpc/mod.rs:141-290,
\* commands.rs:25-106).
EntryArrives ==
    (IF entry.op = "Set" THEN Portable(entry.values[1]) ELSE PortableItem(entry.values[1]))
        => replica \in {Waiting, entry}
=============================================================================
