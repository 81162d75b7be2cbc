------------------------------- MODULE MCData -------------------------------
(***************************************************************************)
(* Instances of what a node keeps and passes on: its state machine, its    *)
(* vector indexes, its streams to subscribers, and the text in which log   *)
(* entries travel.  They share no state, so a behaviour is one of a part,  *)
(* while the others stay as they were created.  The state machine is       *)
(* looked at in three scenarios: a few of all commands with reads,         *)
(* commands that set expiry times with clocks that run, and longer         *)
(* sequences of list commands.                                             *)
(***************************************************************************)
EXTENDS Efis, FlatIndex, PubSub, Codec

CONSTANTS k1, k2    \* the keys

VARIABLE part       \* the part that runs, or the scenario

vars == <<part, efisVars, indexVars, pubsubVars, codecVars>>

-----------------------------------------------------------------------------
(* The commands that clients submit.                                       *)

Put(k, v, exp) == [op |-> "Set", key |-> k, value |-> v, exp |-> exp]
On(op, k) == [op |-> op, key |-> k]
With1(op, k, vs) == [op |-> op, key |-> k, values |-> vs]
ExpireCmd(k, d) == [op |-> "Expire", key |-> k, dur |-> d]
ZaddCmd(k, s, v) == [op |-> "Zadd", key |-> k, score |-> s, value |-> v]
VsetCmd(k, vs) == [op |-> "VSet", key |-> k, vecs |-> vs]
Vec(id, v) == [id |-> id, vec |-> v]

\* One of each command, on one key, and a second key of the same shard.
AllCmds ==
    {Put(k1, Number(1), Never), Put(k2, Word, Never),
     On("Delete", k1), On("Increment", k1), On("Decrement", k2),
     With1("Lpush", k1, <<1, 2>>), With1("Rpush", k1, <<1, 2>>),
     On("Lpop", k1), On("Rpop", k1), With1("Sadd", k1, <<1, 2>>),
     ZaddCmd(k1, 5, 1), On("Publish", k1), On("VDel", k1),
     VsetCmd(k1, <<Vec(1, <<0>>), Vec(2, <<0, 0>>)>>)}

\* Commands that read or set expiry times, those that meet them, and a vset
\* without vectors, which ends the apply loop.
TtlCmds ==
    {Put(k1, Number(1), 1), Put(k1, Number(2), Never), ExpireCmd(k1, 1),
     On("Increment", k1), On("Delete", k1),
     VsetCmd(k1, <<Vec(1, <<0>>)>>), VsetCmd(k1, <<>>)}

ListCmds ==
    {With1("Lpush", k1, <<1, 2>>), With1("Rpush", k1, <<1, 2>>),
     On("Lpop", k1), On("Rpop", k1), With1("Sadd", k1, <<1, 2>>)}

MCCmds == AllCmds \cup TtlCmds \cup ListCmds

-----------------------------------------------------------------------------

\* One-dimensional vectors and one of another dimension; the query is at 1.
MCVecs == {<<0>>, <<1>>, <<1, 1>>}
MCDist == [v \in MCVecs |-> (v[1] - 1) * (v[1] - 1)]

-----------------------------------------------------------------------------

Init ==
    /\ part \in {"all", "ttl", "lists", "index", "pubsub", "codec"}
    /\ EfisInit /\ IndexInit
    /\ PubSubInit /\ (part # "pubsub" => chan = CHOOSE f \in [Sub -> Chan] : TRUE)
    /\ IF part = "codec" THEN CodecInit
       ELSE /\ entry = [op |-> "Set", values |-> << <<>> >>]
            /\ wire = <<>> /\ replica = Waiting

\* Only so many of these commands are committed.
Only(cmds, most) ==
    Len(committed') <= most /\ \A i \in DOMAIN committed' : committed'[i] \in cmds

\* The nodes are interchangeable, so that one is enough to read from.
Scenario ==
    /\ \A r \in Reader : reader'[r].node = NoRead.node
    /\ \/ part = "all" /\ Only(AllCmds, 2) /\ UNCHANGED clock
       \/ part = "ttl" /\ Only(TtlCmds, 2) /\ \A r \in Reader : reader'[r].key # k2
       \/ part = "lists" /\ Only(ListCmds, MaxCmds) /\ UNCHANGED <<clock, reads>>

Next ==
    \/ /\ part \in {"all", "ttl", "lists"} /\ EfisNext /\ Scenario
       /\ UNCHANGED <<part, indexVars, pubsubVars, codecVars>>
    \/ /\ part = "index" /\ IndexNext
       /\ UNCHANGED <<part, efisVars, pubsubVars, codecVars>>
    \/ /\ part = "pubsub" /\ PubSubNext
       /\ UNCHANGED <<part, efisVars, indexVars, codecVars>>
    \/ /\ part = "codec" /\ CodecNext
       /\ UNCHANGED <<part, efisVars, indexVars, pubsubVars>>

Spec == Init /\ [][Next]_vars /\ EfisFairness /\ PubSubFairness
=============================================================================
