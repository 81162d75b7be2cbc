------------------------------- MODULE PubSub --------------------------------
(***************************************************************************)
(* Publish and subscribe on one node: the channel table of                 *)
(* efis/src/pubsub.rs, the subscribe stream of efis/src/efis.rs and the    *)
(* relay that the rpc_stream macro (macros/src/lib.rs) puts between it and *)
(* the connection.  A message is the number of the publish command that    *)
(* carries it.                                                             *)
(*                                                                         *)
(* A subscriber's messages pass two tasks, each of which reads one message *)
(* and then waits for room in an mpsc channel of 10; the message in a      *)
(* task's hand is counted as a place of that channel.                      *)
(***************************************************************************)
EXTENDS Integers, Sequences

CONSTANTS
    Chan,           \* channels
    Sub,            \* subscribers; each subscribes once
    ChanCap,        \* capacity of a broadcast channel (1024)
    QueueCap,       \* places of the two mpsc channels (10, and one in hand)
    MaxPublished    \* bound: publish commands

ASSUME CapAssumption == ChanCap \in Nat \ {0} /\ QueueCap \in Nat \ {0}

VARIABLES
    publishes,      \* publish commands applied so far
    pubsub,         \* the channels in the table
    published,      \* published[c]: messages that went into c's broadcast channel
    stage,          \* stage[s]: "off", "on", "ended" (the subscribe task is gone)
    chan,           \* chan[s]: the channel s subscribed to
    start, pos,     \* position of s in it at first and now
    first, second,  \* the two mpsc channels
    line,           \* lines the connection got: messages, then perhaps Done
    gone            \* has the connection been closed?

pubsubVars == <<publishes, pubsub, published, stage, chan, start, pos, first, second,
                line, gone>>

Done == 0

PubSubInit ==
    /\ publishes = 0
    /\ pubsub = {}
    /\ published = [c \in Chan |-> <<>>]
    /\ stage = [s \in Sub |-> "off"]
    /\ chan \in [Sub -> Chan]
    /\ start = [s \in Sub |-> 0] /\ pos = start
    /\ first = [s \in Sub |-> <<>>] /\ second = first /\ line = first
    /\ gone = [s \in Sub |-> FALSE]

-----------------------------------------------------------------------------

\* subscribe: the channel is created by its first subscriber.
Subscribe(s) ==
    /\ stage[s] = "off"
    /\ pubsub' = pubsub \cup {chan[s]}
    /\ stage' = [stage EXCEPT ![s] = "on"]
    /\ start' = [start EXCEPT ![s] = Len(published[chan[s]])]
    /\ pos' = [pos EXCEPT ![s] = Len(published[chan[s]])]
    /\ UNCHANGED <<publishes, published, chan, first, second, line, gone>>

\* publish: a message no one listens to is not kept.
Publish(c) ==
    /\ publishes < MaxPublished
    /\ publishes' = publishes + 1
    /\ published' = IF c \in pubsub /\ \E s \in Sub : stage[s] = "on" /\ chan[s] = c
               THEN [published EXCEPT ![c] = Append(@, publishes + 1)]
               ELSE published
    /\ UNCHANGED <<pubsub, stage, chan, start, pos, first, second, line, gone>>

Behind(s) == Len(published[chan[s]]) - pos[s]

\* The subscribe task passes a message on.
Take(s) ==
    /\ stage[s] = "on" /\ Behind(s) \in 1 .. ChanCap
    /\ Len(first[s]) < QueueCap
    /\ first' = [first EXCEPT ![s] = Append(@, published[chan[s]][pos[s] + 1])]
    /\ pos' = [pos EXCEPT ![s] = @ + 1]
    /\ UNCHANGED <<publishes, pubsub, published, stage, chan, start, second, line, gone>>

\* Mutant: it skips what it missed and goes on.
LaggedContinues(s) ==
    /\ stage[s] = "on" /\ Behind(s) > ChanCap /\ Len(first[s]) < QueueCap
    /\ pos' = [pos EXCEPT ![s] = Len(published[chan[s]]) - ChanCap]
    /\ UNCHANGED <<publishes, pubsub, published, stage, chan, start, first, second, line, gone>>

\* It has missed messages: "while let Ok" ends, and with it the task.
Lagged(s) ==
    /\ stage[s] = "on" /\ Behind(s) > ChanCap /\ Len(first[s]) < QueueCap
    /\ stage' = [stage EXCEPT ![s] = "ended"]
    /\ UNCHANGED <<publishes, pubsub, published, chan, start, pos, first, second, line, gone>>

\* The macro's relay passes a message on; once the connection is gone its
\* send fails, which is ignored.
Relay(s) ==
    /\ first[s] # <<>> /\ (gone[s] \/ Len(second[s]) < QueueCap)
    /\ first' = [first EXCEPT ![s] = Tail(@)]
    /\ second' = IF gone[s] THEN second
                 ELSE [second EXCEPT ![s] = Append(@, Head(first[s]))]
    /\ UNCHANGED <<publishes, pubsub, published, stage, chan, start, pos, line, gone>>

\* Mutant: a stream just stops.
RelayStops(s) ==
    /\ stage[s] = "ended" /\ first[s] = <<>>
    /\ (gone[s] \/ Len(second[s]) < QueueCap)
    /\ stage' = [stage EXCEPT ![s] = "over"]
    /\ UNCHANGED <<publishes, pubsub, published, chan, start, pos, first, second, line, gone>>

\* When the subscribe task is gone and its channel empty, the relay says so.
RelayDone(s) ==
    /\ stage[s] = "ended" /\ first[s] = <<>>
    /\ (gone[s] \/ Len(second[s]) < QueueCap)
    /\ stage' = [stage EXCEPT ![s] = "over"]
    /\ second' = IF gone[s] THEN second
                 ELSE [second EXCEPT ![s] = Append(@, Done)]
    /\ UNCHANGED <<publishes, pubsub, published, chan, start, pos, first, line, gone>>

\* Handler::run writes the next line of the stream.
WriteLine(s) ==
    /\ second[s] # <<>> /\ ~gone[s]
    /\ line' = [line EXCEPT ![s] = Append(@, Head(second[s]))]
    /\ second' = [second EXCEPT ![s] = Tail(@)]
    /\ UNCHANGED <<publishes, pubsub, published, stage, chan, start, pos, first, gone>>

\* The connection is closed, which the handler finds out when it writes; it
\* drops its end of the second channel.
Leave(s) ==
    /\ second[s] # <<>> /\ ~gone[s]
    /\ gone' = [gone EXCEPT ![s] = TRUE]
    /\ second' = [second EXCEPT ![s] = <<>>]
    /\ UNCHANGED <<publishes, pubsub, published, stage, chan, start, pos, first, line>>

-----------------------------------------------------------------------------

Tasks(s) ==
    Take(s) \/ Lagged(s) \/ Relay(s) \/ RelayDone(s) \/ WriteLine(s)

PubSubNext ==
    \/ \E s \in Sub : Subscribe(s) \/ Tasks(s) \/ Leave(s)
    \/ \E c \in Chan : Publish(c)

PubSubSpec == PubSubInit /\ [][PubSubNext]_pubsubVars

\* Every task is scheduled.
PubSubFairness ==
    /\ \A s \in Sub : /\ WF_pubsubVars(Take(s) \/ Lagged(s))
                      /\ WF_pubsubVars(Relay(s) \/ RelayDone(s))
                      /\ WF_pubsubVars(WriteLine(s))

-----------------------------------------------------------------------------
(* Properties.                                                             *)

\* What a subscriber was sent, ended or not, is a gapless run of what was
\* published on its channel, from its subscription on: the task ends when it
\* misses a message, rather than skip it (efis.rs:787-798, lib.rs:239-264).
NoGap ==
    \A s \in Sub : \A k \in DOMAIN line[s] :
        line[s][k] # Done =>
            /\ start[s] + k \in DOMAIN published[chan[s]]
            /\ line[s][k] = published[chan[s]][start[s] + k]

\* Nothing follows the end of a stream.
DoneIsLast ==
    \A s \in Sub : \A k \in DOMAIN line[s] :
        line[s][k] = Done => k = Len(line[s]) /\ stage[s] = "over"

\* A subscriber gets every message published after it subscribed, or is told
\* that its stream is over, or has closed the connection
\* (efis.rs:787-798, macros/src/lib.rs:239-264).
DeliveredOrTold ==
    []<>(\A s \in Sub :
            \/ stage[s] = "off" \/ gone[s]
            \/ start[s] + Len(line[s]) = Len(published[chan[s]])
            \/ \E k \in DOMAIN line[s] : line[s][k] = Done)
=============================================================================
