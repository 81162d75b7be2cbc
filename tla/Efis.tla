-------------------------------- MODULE Efis --------------------------------
(***************************************************************************)
(* The state machine of Efis: the apply loop of every node                 *)
(* (efis/src/efis.rs) running the committed commands against the node's    *)
(* Datastore (efis/src/store.rs), while clients read from it.  The commit  *)
(* pipeline is reduced to the one sequence of commands it delivers to all  *)
(* nodes (module Service has the delivery).                                *)
(*                                                                         *)
(* A command makes one or two calls of the Datastore; each call is atomic  *)
(* (it runs under a lock of the DashMap), a client may read in between.    *)
(* All keys of an instance lie in one shard of the map.  Every node has    *)
(* its own clock.                                                          *)
(***************************************************************************)
EXTENDS Integers, Sequences, FiniteSets, Functions

CONSTANTS
    Node,           \* the nodes
    Reader,         \* clients that read
    Key,            \* the keys
    Cmds,           \* the commands clients submit
    MaxCmds,        \* bound: commands committed
    MaxTime,        \* bound: how far a clock runs
    MaxReads        \* bound: reads

Never == -1         \* no expiry

\* A value: its contents are a function in every variant.  A Text is a
\* number, or a word that does not parse as one.
Value(kind, val, dim) == [kind |-> kind, val |-> val, dim |-> dim]
Number(n) == Value("number", <<n>>, 0)
Word == Value("word", <<>>, 0)
List(l) == Value("list", l, 0)
SetOf(s) == Value("set", [x \in s |-> TRUE], 0)
SortedSet(z) == Value("sorted", z, 0)
Vector(rows, dim) == Value("vector", rows, dim)
IsText(v) == v.kind \in {"number", "word"}

\* push_front of one element after the other, and pop_back.  (SequencesExt has
\* these operators too, but brings Bags into every step of a proof.)
Reverse(s) == [i \in 1 .. Len(s) |-> s[Len(s) - i + 1]]
Front(s) == SubSeq(s, 1, Len(s) - 1)
Last(s) == s[Len(s)]

\* A push carries a list of elements (req.values, efis.rs:508 and 544).
ASSUME CmdsAssumption ==
    \A c \in Cmds : c.op \in {"Lpush", "Rpush"} => c.values \in Seq(Int)

VARIABLES
    committed,      \* the committed commands
    data,           \* data[n]: the node's map, key |-> item
    finished,       \* finished[n]: commands the apply loop has finished
    step,           \* step[n]: where it is in the next one
    clock,          \* clock[n]
    reader,         \* what each reading client is doing
    reads,          \* reads so far
    answers,        \* answers[n]: the results of the commands, in order
    past            \* history: the values each key had between commands

efisVars == <<committed, data, finished, step, clock, reader, reads, answers,
              past>>

OkRes == [late |-> "ok", val |-> Word]
GetRes(v) == [late |-> "value", val |-> v]
ErrRes == [late |-> "err", val |-> Word]
NoRead == [at |-> "idle", node |-> CHOOSE n \in Node : TRUE,
           op |-> "none", key |-> CHOOSE k \in Key : TRUE, res |-> OkRes]

EfisInit ==
    /\ committed = <<>>
    /\ data = [n \in Node |-> <<>>]
    /\ finished = [n \in Node |-> 0]
    /\ step = [n \in Node |-> "ready"]
    /\ clock = [n \in Node |-> 0]
    /\ reader = [r \in Reader |-> NoRead]
    /\ reads = 0
    /\ answers = [n \in Node |-> <<>>]
    /\ past = [n \in Node |-> [k \in Key |-> {ErrRes}]]

-----------------------------------------------------------------------------
(* The Datastore.  d is a node's map, now its clock.                       *)

With(d, k, item) == [x \in DOMAIN d \cup {k} |-> IF x = k THEN item ELSE d[x]]
Without(d, k) == [x \in DOMAIN d \ {k} |-> d[x]]

\* set: whatever was there is replaced, its expiry included.
StoreSet(d, k, v, exp, now) ==
    With(d, k, [value |-> v, expiry |-> IF exp = Never THEN Never ELSE now + exp])

\* get and ttl find a key that is there but past its expiry.
Expired(d, k, now) ==
    /\ k \in DOMAIN d
    /\ d[k].expiry # Never
    /\ d[k].expiry <= now

\* expire, of a key that is there, expired or not.
StoreExpire(d, k, dur, now) == With(d, k, [d[k] EXCEPT !.expiry = now + dur])

\* modify, of a key that is there, expired or not; its expiry stays.
StoreModify(d, k, v) == With(d, k, [d[k] EXCEPT !.value = v])

\* A thread that finds an expired key keeps the shard read-locked while it
\* asks for the write lock to remove it (store.rs:156-159, 192-196), and
\* never gets it.  Readers of the shard still get in, writers do not.
Stuck(n) == \E r \in Reader : reader[r].at = "stuck" /\ reader[r].node = n

-----------------------------------------------------------------------------
(* The apply loop.                                                         *)

Cmd(n) == committed[finished[n] + 1]
Here(n) == Cmd(n).key \in DOMAIN data[n]
Cur(n) == data[n][Cmd(n).key].value

\* Node n's loop is at step "at" of the next command, which is an op, and
\* the shard can be written.
At(n, at, op) ==
    /\ step[n] = at
    /\ finished[n] < Len(committed)
    /\ Cmd(n).op = op
    /\ ~Stuck(n)

\* The command is done and its result sent to whoever waits for it.
Finish(n, d, res) ==
    /\ data' = [data EXCEPT ![n] = d]
    /\ finished' = [finished EXCEPT ![n] = @ + 1]
    /\ step' = [step EXCEPT ![n] = "ready"]
    /\ answers' = [answers EXCEPT ![n] = Append(@, res)]
    /\ past' = [past EXCEPT ![n] =
                  [k \in Key |-> @[k] \cup
                     {IF k \in DOMAIN d THEN GetRes(d[k].value) ELSE ErrRes}]]
    /\ UNCHANGED <<committed, clock, reader, reads>>

\* The first of the command's two calls is done.
Half(n, d) ==
    /\ data' = [data EXCEPT ![n] = d]
    /\ step' = [step EXCEPT ![n] = "second"]
    /\ UNCHANGED <<committed, finished, clock, reader, reads, answers, past>>

\* The loop's task is lost: it waits for its own lock, or it panicked.
LoopLost(n, how) ==
    /\ step' = [step EXCEPT ![n] = how]
    /\ UNCHANGED <<committed, data, finished, clock, reader, reads, answers, past>>

\* Mutant: a command that fails is not taken off the stream.
FailsAgain(n) == UNCHANGED efisVars
Fails(n) == Finish(n, data[n], ErrRes)

Set(n) ==
    /\ At(n, "ready", "Set")
    /\ Finish(n, StoreSet(data[n], Cmd(n).key, Cmd(n).value, Cmd(n).exp, clock[n]),
              OkRes)

DeleteKey(n) ==
    /\ At(n, "ready", "Delete")
    /\ IF Here(n) THEN Finish(n, Without(data[n], Cmd(n).key), OkRes) ELSE Fails(n)

Plus(v, by) == IF v.kind = "number" THEN Number(v.val[1] + by) ELSE v

\* _increment and _decrement read the key again for their answer.
ReadBack(n) ==
    IF ~Here(n) THEN Fails(n)
    ELSE IF Expired(data[n], Cmd(n).key, clock[n]) THEN LoopLost(n, "stuck")
    ELSE Finish(n, data[n], IF IsText(Cur(n)) THEN GetRes(Cur(n)) ELSE ErrRes)

Increment(n) ==
    \/ /\ At(n, "ready", "Increment")
       /\ IF Here(n)
          THEN Half(n, StoreModify(data[n], Cmd(n).key, Plus(Cur(n), 1)))
          ELSE Fails(n)
    \/ At(n, "second", "Increment") /\ ReadBack(n)

Decrement(n) ==
    \/ /\ At(n, "ready", "Decrement")
       /\ IF Here(n)
          THEN Half(n, StoreModify(data[n], Cmd(n).key, Plus(Cur(n), -1)))
          ELSE Fails(n)
    \/ At(n, "second", "Decrement") /\ ReadBack(n)

Expire(n) ==
    /\ At(n, "ready", "Expire")
    /\ IF Here(n)
       THEN Finish(n, StoreExpire(data[n], Cmd(n).key, Cmd(n).dur, clock[n]), OkRes)
       ELSE Fails(n)

\* lpush, rpush, sadd and zadd first replace the key by an empty container,
\* then fill that.
Emptied(n, v) == Half(n, StoreSet(data[n], Cmd(n).key, v, Never, clock[n]))

\* What the second call of a two-call command does to the value it finds.
Fill(n, kind, v) ==
    IF ~Here(n) THEN Fails(n)
    ELSE Finish(n, IF Cur(n).kind = kind
                   THEN StoreModify(data[n], Cmd(n).key, v) ELSE data[n], OkRes)

\* Mutant: the values are pushed as one block.
LpushBlock(n) ==
    \/ At(n, "ready", "Lpush") /\ Emptied(n, List(<<>>))
    \/ At(n, "second", "Lpush") /\ Fill(n, "list", List(Cmd(n).values))
Lpush(n) ==
    \/ At(n, "ready", "Lpush") /\ Emptied(n, List(<<>>))
    \/ At(n, "second", "Lpush") /\ Fill(n, "list", List(Reverse(Cmd(n).values)))

Rpush(n) ==
    \/ At(n, "ready", "Rpush") /\ Emptied(n, List(<<>>))
    \/ At(n, "second", "Rpush") /\ Fill(n, "list", List(Cmd(n).values))

\* Something to pop: a non-empty list.
Poppable(n) == Here(n) /\ Cur(n).kind = "list" /\ Cur(n).val # <<>>

Lpop(n) ==
    /\ At(n, "ready", "Lpop")
    /\ IF Poppable(n)
       THEN Finish(n, StoreModify(data[n], Cmd(n).key, List(Tail(Cur(n).val))),
                   GetRes(Number(Head(Cur(n).val))))
       ELSE Fails(n)

Rpop(n) ==
    /\ At(n, "ready", "Rpop")
    /\ IF Poppable(n)
       THEN Finish(n, StoreModify(data[n], Cmd(n).key, List(Front(Cur(n).val))),
                   GetRes(Number(Last(Cur(n).val))))
       ELSE Fails(n)

\* Mutant: the first element is there before the others.
SaddOneByOne(n) ==
    \/ At(n, "ready", "Sadd") /\ Emptied(n, SetOf({Head(Cmd(n).values)}))
    \/ At(n, "second", "Sadd") /\ Fill(n, "set", SetOf(Range(Cmd(n).values)))
Sadd(n) ==
    \/ At(n, "ready", "Sadd") /\ Emptied(n, SetOf({}))
    \/ At(n, "second", "Sadd") /\ Fill(n, "set", SetOf(Range(Cmd(n).values)))

Zadd(n) ==
    \/ At(n, "ready", "Zadd") /\ Emptied(n, SortedSet(<<>>))
    \/ /\ At(n, "second", "Zadd")
       /\ Fill(n, "sorted", SortedSet([s \in {Cmd(n).score} |-> Cmd(n).value]))

\* The channels are module PubSub's; in a cluster publish always answers ok.
PublishCommand(n) ==
    /\ At(n, "ready", "Publish")
    /\ Finish(n, data[n], OkRes)

\* FlatIndex::insert of each vector in turn; those that do not fit are
\* dropped silently.
Inserted(v, vecs) ==
    LET fit == {i \in DOMAIN vecs : Len(vecs[i].vec) = v.dim}
        ids == {vecs[i].id : i \in fit}
        latest(id) == CHOOSE i \in fit : /\ vecs[i].id = id
                                         /\ \A j \in fit : vecs[j].id = id => j <= i
    IN  Vector([id \in DOMAIN v.val \cup ids |->
                  IF id \in ids THEN vecs[latest(id)].vec ELSE v.val[id]], v.dim)

\* vset: a new key gets an index of the first vector's dimension, and there
\* must be a first vector (efis.rs:826); then the vectors are inserted if
\* the key holds an index.
Vset(n) ==
    \/ /\ At(n, "ready", "VSet")
       /\ IF Expired(data[n], Cmd(n).key, clock[n]) THEN LoopLost(n, "stuck")
          ELSE IF Here(n) THEN Half(n, data[n])
          ELSE IF Cmd(n).vecs = <<>> THEN LoopLost(n, "panicked")
          ELSE Emptied(n, Vector(<<>>, Len(Cmd(n).vecs[1].vec)))
    \/ /\ At(n, "second", "VSet")
       /\ Fill(n, "vector", IF Here(n) THEN Inserted(Cur(n), Cmd(n).vecs) ELSE Word)

\* vdel removes the whole key.
Vdel(n) ==
    /\ At(n, "ready", "VDel")
    /\ IF Here(n) THEN Finish(n, Without(data[n], Cmd(n).key), OkRes) ELSE Fails(n)

ApplyCommand(n) ==
    \/ Set(n) \/ DeleteKey(n) \/ Increment(n) \/ Decrement(n) \/ Expire(n)
    \/ Lpush(n) \/ Rpush(n) \/ Lpop(n) \/ Rpop(n) \/ Sadd(n) \/ Zadd(n)
    \/ PublishCommand(n) \/ Vset(n) \/ Vdel(n)

-----------------------------------------------------------------------------
(* Reads, served by the node that is asked.                                *)

ReadCall(r, n, op, k) ==
    /\ reader[r].at = "idle" /\ reads < MaxReads
    /\ reads' = reads + 1
    /\ reader' = [reader EXCEPT ![r] = [at |-> "called", node |-> n, op |-> op,
                                        key |-> k, res |-> OkRes]]
    /\ UNCHANGED <<committed, data, finished, step, clock, answers, past>>

\* Reader r asked for an op, and it is answered res.
Answer(r, op, res) ==
    LET n == reader[r].node
    IN  /\ reader[r].at = "called" /\ reader[r].op = op
        /\ ~Expired(data[n], reader[r].key, clock[n])
        /\ reader' = [reader EXCEPT ![r].at = "idle",
                      ![r].res = IF reader[r].key \in DOMAIN data[n]
                                 THEN res ELSE ErrRes]
        /\ UNCHANGED <<committed, data, finished, step, clock, reads, answers, past>>

Found(r) == data[reader[r].node][reader[r].key].value
IfKind(r, kinds) == IF Found(r).kind \in kinds THEN GetRes(Found(r)) ELSE ErrRes

Get(r) == Answer(r, "get", IfKind(r, {"number", "word"}))
Ttl(r) == Answer(r, "ttl", OkRes)
Smembers(r) == Answer(r, "smembers", IfKind(r, {"set"}))

\* zrange answers nothing for a proper range; otherwise it slices from start
\* down to end, which panics unless both are the same position.
Zrange(r) ==
    \E start, end \in 0 .. 1 :
        Answer(r, "zrange",
               IF Found(r).kind # "sorted" THEN ErrRes
               ELSE IF end > start THEN GetRes(SortedSet(<<>>))
               ELSE IF start > end \/ end > Cardinality(DOMAIN Found(r).val)
               THEN [late |-> "panic", val |-> Word]
               ELSE GetRes(SortedSet(<<>>)))

\* k = 0 is answered with nothing; any other search of an index without
\* vectors panics in its own thread, which the caller sees as an error.
Vsearch(r) ==
    \E k \in 0 .. 1 :
        Answer(r, "vsearch",
               IF Found(r).kind # "vector" THEN ErrRes
               ELSE IF k = 0 THEN GetRes(Vector(<<>>, Found(r).dim))
               ELSE IF DOMAIN Found(r).val = {} THEN ErrRes
               ELSE GetRes(Found(r)))

\* Mutant: the guard is given up before the expired key is removed.
ReadExpiredRemoves(r) ==
    LET n == reader[r].node
    IN  /\ reader[r].at = "called"
        /\ Expired(data[n], reader[r].key, clock[n])
        /\ data' = [data EXCEPT ![n] = Without(@, reader[r].key)]
        /\ reader' = [reader EXCEPT ![r].at = "idle", ![r].res = ErrRes]
        /\ UNCHANGED <<committed, finished, step, clock, reads, answers, past>>

\* Any read that meets an expired key.
ReadExpired(r) ==
    /\ reader[r].at = "called"
    /\ Expired(data[reader[r].node], reader[r].key, clock[reader[r].node])
    /\ reader' = [reader EXCEPT ![r].at = "stuck"]
    /\ UNCHANGED <<committed, data, finished, step, clock, reads, answers, past>>

Read(r) ==
    Get(r) \/ Ttl(r) \/ Smembers(r) \/ Zrange(r) \/ Vsearch(r) \/ ReadExpired(r)

-----------------------------------------------------------------------------

Commit(c) ==
    /\ Len(committed) < MaxCmds
    /\ committed' = Append(committed, c)
    /\ UNCHANGED <<data, finished, step, clock, reader, reads, answers, past>>

ClockTick(n) ==
    /\ clock[n] < MaxTime
    /\ clock' = [clock EXCEPT ![n] = @ + 1]
    /\ UNCHANGED <<committed, data, finished, step, reader, reads, answers, past>>

EfisNext ==
    \/ \E c \in Cmds : Commit(c)
    \/ \E n \in Node : ApplyCommand(n)
    \/ \E n \in Node : ClockTick(n)
    \/ \E r \in Reader, n \in Node, k \in Key,
          op \in {"get", "ttl", "smembers", "zrange", "vsearch"} : ReadCall(r, n, op, k)
    \/ \E r \in Reader : Read(r)

EfisSpec == EfisInit /\ [][EfisNext]_efisVars

\* The apply loop and the tasks of the readers are scheduled.
EfisFairness ==
    /\ \A n \in Node : WF_efisVars(ApplyCommand(n))
    /\ \A r \in Reader : WF_efisVars(Read(r))

-----------------------------------------------------------------------------
(* Properties.                                                             *)

\* What a node's map holds, expiry times aside.
Contents(n) == [k \in DOMAIN data[n] |-> data[n][k].value]

\* Nodes at the same point of the log hold the same values, whatever their
\* clocks and whatever was read from them: no command's effect depends on
\* the clock (efis.rs:256-882, store.rs:141-223).  And they compute the same
\* answer for every command, so that it does not matter which of them the
\* client is connected to.
ReplicasAgree ==
    \A m, n \in Node :
        /\ (finished[m] = finished[n] /\ step[m] = step[n]) => Contents(m) = Contents(n)
        /\ \A i \in DOMAIN answers[m] \cap DOMAIN answers[n] : answers[m][i] = answers[n][i]

\* Lists are double-ended queues (efis.rs:486-631): after a push, l pops
\* from the left and r from the right, a pop answers with the next element
\* of that end, or fails when l + r elements are all there were.
PopsWhatWasPushed ==
    \A n \in Node : \A i, j \in 1 .. Len(answers[n]) :
        LET Pops(op) == {m \in i + 1 .. j - 1 : committed[m].op = op}
            l == Cardinality(Pops("Lpop"))
            r == Cardinality(Pops("Rpop"))
            pushed == IF committed[i].op = "Lpush" THEN Reverse(committed[i].values)
                      ELSE committed[i].values
        IN  (/\ i < j /\ l + r = j - i - 1
             /\ \A m \in i .. j : committed[m].key = committed[j].key
             /\ committed[i].op \in {"Lpush", "Rpush"}
             /\ committed[j].op \in {"Lpop", "Rpop"}) =>
            answers[n][j] =
               IF l + r >= Len(pushed) THEN ErrRes
               ELSE GetRes(Number(IF committed[j].op = "Lpop" THEN pushed[l + 1]
                                  ELSE pushed[Len(pushed) - r]))

\* Every committed command is applied by every node (process_cmd,
\* efis.rs:211-234), unless the loop panicked on an empty vset, or it or a
\* client has met an expired key.
AllApplied ==
    []<>(\A n \in Node : \/ finished[n] = Len(committed)
                         \/ step[n] \in {"stuck", "panicked"} \/ Stuck(n))

\* A read of a set returns what the commands applied so far made of it, or
\* the empty set that sadd stores before it adds the elements
\* (efis.rs:633-664): a read between the two calls sees nothing else.
ReadsCommitted ==
    \A r \in Reader :
        (reader[r].at = "idle" /\ reader[r].op = "smembers"
            /\ reader[r].res.late = "value") =>
        reader[r].res \in past[reader[r].node][reader[r].key] \cup {GetRes(SetOf({}))}
=============================================================================
