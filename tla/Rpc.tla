--------------------------------- MODULE Rpc ---------------------------------
(***************************************************************************)
(* The RPC protocol over one connection: the client's io_loop              *)
(* (efis/src/rpc/client.rs), the server's Handler (rpc/server.rs), the     *)
(* dispatcher (rpc/dispatcher.rs) and the leader check and stream relay    *)
(* that the macros generate (macros/src/lib.rs).  Requests and replies are *)
(* lines without an identifier: a reply belongs to a request by its place  *)
(* in the stream only.  The model tags both with the call, and only its    *)
(* properties look at the tag of a reply.                                  *)
(***************************************************************************)
EXTENDS Integers, Sequences

CONSTANTS
    Call,           \* the calls; each is made once
    Kinds,          \* of "read", "write", "bad", "stream", "badstream"
    Texts,          \* texts of stream items: "plain", "done", "exit"
    Cluster,        \* does the node run with peers?
    InboxCap,       \* capacity of the client's inbox (32)
    MaxItems,       \* bound: items of a stream
    MaxLosses,      \* bound: lost connections
    MaxDrops        \* bound: streams whose receiver the caller drops

VARIABLES
    request,        \* request[i]: what became of call i
    inbox,          \* the client's inbox
    io,             \* the call io_loop is busy with, or Nobody
    conn,           \* the client's connection: "none", "up", "broken"
    c2s, s2c,       \* lines on their way
    handler,        \* the server's handler of the connection
    orphans,        \* requests still executing for a lost connection
    isLeader,       \* is the node the leader?
    ran,            \* history: the calls that were executed
    items,          \* history: items[i]: texts the stream of i produced
    got,            \* got[i]: texts the receiver of i got
    losses, drops

rpcVars == <<request, inbox, io, conn, c2s, s2c, handler, orphans, isLeader,
             ran, items, got, losses, drops>>

Nobody == "nobody"
ASSUME NobodyAssumption == Nobody \notin Call
Reading == [at |-> "read", id |-> Nobody]
Line(i, what) == [id |-> i, what |-> what]

RpcInit ==
    /\ request = [i \in Call |-> [at |-> "new", kind |-> "none", ans |-> "none", by |-> Nobody]]
    /\ inbox = <<>> /\ io = Nobody
    /\ conn = "none" /\ c2s = <<>> /\ s2c = <<>>
    /\ handler = Reading /\ orphans = {}
    /\ isLeader = FALSE
    /\ ran = {}
    /\ items = [i \in Call |-> <<>>] /\ got = items
    /\ losses = 0 /\ drops = 0

Server == <<handler, orphans, isLeader, ran, items>>
Wire == <<c2s, s2c>>

-----------------------------------------------------------------------------
(* Client                                                                  *)

\* call, call_stream
Make(i, kind) ==
    /\ request[i].at = "new" /\ Len(inbox) < InboxCap
    /\ request' = [request EXCEPT ![i].at = "made", ![i].kind = kind]
    /\ inbox' = Append(inbox, i)
    /\ UNCHANGED <<io, conn, Wire, Server, got, losses, drops>>

\* io_loop connects before it looks into its inbox.
Connect ==
    /\ conn = "none"
    /\ conn' = "up"
    /\ c2s' = <<>> /\ s2c' = <<>>
    /\ handler' = Reading
    /\ UNCHANGED <<request, inbox, io, orphans, isLeader, ran, items, got, losses, drops>>

\* It writes the next request; into a broken connection, the bytes are lost.
IoTake ==
    /\ io = Nobody /\ conn # "none" /\ inbox # <<>>
    /\ io' = Head(inbox) /\ inbox' = Tail(inbox)
    /\ c2s' = IF conn = "up" THEN Append(c2s, Head(inbox)) ELSE c2s
    /\ UNCHANGED <<request, conn, s2c, Server, got, losses, drops>>

Unary(i) == request[i].kind \notin {"stream", "badstream"}
Ends(i, ans, by) ==
    /\ request' = [request EXCEPT ![i].at = "over", ![i].ans = ans, ![i].by = by]
    /\ io' = Nobody

\* parse_redirect looks for "not_leader", which no line contains: a refusal
\* reads "not leader, redirect to ..." (rpc/mod.rs).
ParseRedirect(line) == line.what = "not_leader"

\* What call makes of the reply; a line may fail to deserialize.
Results(line) ==
    IF ParseRedirect(line) THEN {"redirect"}
    ELSE IF line.what \in {"error", "refused"} THEN {"error"} ELSE {"ok", "error"}

\* process_unary: the first line is the reply; what else was read with it,
\* k lines in all, is dropped.
ReadReply ==
    \E k \in 1 .. Len(s2c) : \E res \in Results(Head(s2c)) :
        /\ io # Nobody /\ Unary(io)
        /\ Ends(io, res, Head(s2c).id)
        /\ s2c' = SubSeq(s2c, k + 1, Len(s2c))
        /\ UNCHANGED <<inbox, conn, c2s, Server, got, losses, drops>>

\* Mutant: what was read with an item is dropped.
ReadItemFirst ==
    \E k \in 1 .. Len(s2c) :
        /\ io # Nobody /\ ~Unary(io) /\ Head(s2c).what # "done"
        /\ s2c' = SubSeq(s2c, k + 1, Len(s2c))
        /\ got' = [got EXCEPT ![io] = Append(@, Head(s2c).what)]
        /\ UNCHANGED <<request, inbox, io, conn, c2s, Server, losses, drops>>

\* process_stream: one more item for the receiver, which may be gone without
\* the client having noticed.
ReadItem ==
    /\ io # Nobody /\ ~Unary(io) /\ s2c # <<>> /\ Head(s2c).what # "done"
    /\ s2c' = Tail(s2c)
    /\ got' = IF request[io].at = "dropped" THEN got
              ELSE [got EXCEPT ![io] = Append(@, Head(s2c).what)]
    /\ UNCHANGED <<request, inbox, io, conn, c2s, Server, losses, drops>>

\* It ends at a line "done", or at an item that nobody wants; the connection
\* is kept, and what else was read is dropped.
ReadLast ==
    \E k \in 1 .. Len(s2c) :
        /\ io # Nobody /\ ~Unary(io)
        /\ Head(s2c).what = "done" \/ request[io].at = "dropped"
        /\ Ends(io, "ok", Head(s2c).id)
        /\ s2c' = SubSeq(s2c, k + 1, Len(s2c))
        /\ UNCHANGED <<inbox, conn, c2s, Server, got, losses, drops>>

\* Mutant: a call whose connection was lost is made again.
ReadEofRetries ==
    /\ io # Nobody /\ conn = "broken" /\ s2c = <<>>
    /\ inbox' = Append(inbox, io) /\ io' = Nobody
    /\ conn' = "none"
    /\ UNCHANGED <<request, Wire, Server, got, losses, drops>>

\* The connection is lost: the call ends with an error, a stream just ends.
ReadEof ==
    /\ io # Nobody /\ conn = "broken" /\ s2c = <<>>
    /\ Ends(io, "lost", Nobody)
    /\ conn' = "none"
    /\ UNCHANGED <<inbox, Wire, Server, got, losses, drops>>

\* The caller drops the receiver of a stream.
DropReceiver(i) ==
    /\ request[i].at = "made" /\ ~Unary(i) /\ drops < MaxDrops
    /\ drops' = drops + 1
    /\ request' = [request EXCEPT ![i].at = "dropped"]
    /\ UNCHANGED <<inbox, io, conn, Wire, Server, got, losses>>

-----------------------------------------------------------------------------
(* Server                                                                  *)

clientVars == <<request, inbox, io, got, drops>>

\* Handler::run reads a request.
TakeRequest ==
    /\ conn = "up" /\ handler.at = "read" /\ c2s # <<>>
    /\ handler' = [at |-> "run", id |-> Head(c2s)]
    /\ c2s' = Tail(c2s)
    /\ UNCHANGED <<clientVars, conn, s2c, orphans, isLeader, ran, items, losses>>

\* The check that rpc_impl generates for requires_leader.
Refused(i) == request[i].kind = "write" /\ ~isLeader
Executes(i) == request[i].kind \notin {"bad", "badstream"} /\ ~Refused(i)

\* Mutant: the reply of a request that was not executed looks like any other.
DispatchAlwaysReplies ==
    /\ handler.at = "run" /\ request[handler.id].kind # "stream"
    /\ s2c' = Append(s2c, Line(handler.id, "reply"))
    /\ ran' = IF Executes(handler.id) THEN ran \cup {handler.id} ELSE ran
    /\ handler' = Reading
    /\ UNCHANGED <<clientVars, conn, c2s, orphans, isLeader, items, losses>>

\* dispatch_rpc, and for a method it does not know dispatch_stream: executed
\* or not, a request that opens no stream gets one line.
Dispatch ==
    /\ handler.at = "run" /\ request[handler.id].kind # "stream"
    /\ \E what \in IF Refused(handler.id) THEN {"refused"}
                    ELSE IF Executes(handler.id) THEN {"reply", "error"} ELSE {"error"} :
          s2c' = Append(s2c, Line(handler.id, what))
    /\ ran' = IF Executes(handler.id) THEN ran \cup {handler.id} ELSE ran
    /\ handler' = Reading
    /\ UNCHANGED <<clientVars, conn, c2s, orphans, isLeader, items, losses>>

OpenStream ==
    /\ handler.at = "run" /\ request[handler.id].kind = "stream"
    /\ ran' = ran \cup {handler.id}
    /\ handler' = [handler EXCEPT !.at = "stream"]
    /\ UNCHANGED <<clientVars, conn, Wire, orphans, isLeader, items, losses>>

\* The next item of the stream; one that contains "exit" closes it.
StreamItem(text) ==
    /\ handler.at = "stream" /\ Len(items[handler.id]) < MaxItems
    /\ items' = [items EXCEPT ![handler.id] = Append(@, text)]
    /\ IF text = "exit"
       THEN handler' = Reading /\ UNCHANGED s2c
       ELSE s2c' = Append(s2c, Line(handler.id, text)) /\ UNCHANGED handler
    /\ UNCHANGED <<clientVars, conn, c2s, orphans, isLeader, ran, losses>>

\* Mutant: the handler leaves a finished stream silently.
StreamEndSilent ==
    /\ handler.at = "stream"
    /\ handler' = Reading
    /\ UNCHANGED <<clientVars, conn, Wire, orphans, isLeader, ran, items, losses>>

\* The stream ends: the relay adds a line "done".
StreamEnd ==
    /\ handler.at = "stream"
    /\ s2c' = Append(s2c, Line(handler.id, "done"))
    /\ handler' = Reading
    /\ UNCHANGED <<clientVars, conn, c2s, orphans, isLeader, ran, items, losses>>

\* The connection breaks.  Lines on their way are lost from some point on; a
\* request that is being executed is executed all the same.
Lose ==
    /\ conn = "up" /\ losses < MaxLosses
    /\ losses' = losses + 1
    /\ conn' = "broken"
    /\ c2s' = <<>>
    /\ \E k \in 0 .. Len(s2c) : s2c' = SubSeq(s2c, 1, k)
    /\ orphans' = IF handler.at = "run" THEN orphans \cup {handler.id} ELSE orphans
    /\ handler' = Reading
    /\ UNCHANGED <<clientVars, isLeader, ran, items>>

OrphanRuns(i) ==
    /\ i \in orphans
    /\ orphans' = orphans \ {i}
    /\ ran' = IF Executes(i) THEN ran \cup {i} ELSE ran
    /\ UNCHANGED <<clientVars, conn, Wire, handler, isLeader, items, losses>>

\* The node gains or loses the leadership; a node without peers never sets
\* LEADER_ID, so is_leader stays false.
Elect ==
    /\ Cluster
    /\ isLeader' = ~isLeader
    /\ UNCHANGED <<clientVars, conn, Wire, handler, orphans, ran, items, losses>>

-----------------------------------------------------------------------------

ClientIo == Connect \/ IoTake \/ ReadReply \/ ReadItem \/ ReadLast \/ ReadEof
ServerIo == TakeRequest \/ Dispatch \/ OpenStream \/ StreamEnd

RpcNext ==
    \/ \E i \in Call, kind \in Kinds : Make(i, kind)
    \/ \E i \in Call : DropReceiver(i) \/ OrphanRuns(i)
    \/ \E text \in Texts : StreamItem(text)
    \/ ClientIo \/ ServerIo \/ Lose \/ Elect

RpcSpec == RpcInit /\ [][RpcNext]_rpcVars

-----------------------------------------------------------------------------
(* Properties.                                                             *)

Carried(text) == \E i \in Call : \E k \in DOMAIN items[i] : items[i][k] = text

\* Lines without identifiers go astray after a receiver was dropped, or an
\* item that reads "done" was sent: the rest of that stream is taken for the
\* answer to the next call.
spoiled == drops > 0 \/ Carried("done")

\* A reply is matched to the request it answers, although neither carries an
\* identifier and connections are lost and replaced: io_loop has one request
\* on its way at a time and starts over with a new connection
\* (client.rs:154-255).
OwnReply ==
    spoiled \/ \A i \in Call : request[i].by # Nobody => request[i].by = i

\* The receiver of a stream gets what the stream produced, in order, and all
\* of it if the stream was closed by the server (client.rs:224-255,
\* macros/src/lib.rs:249-260).
StreamWhole ==
    spoiled \/ \A i \in Call : request[i].kind = "stream" =>
        /\ Len(got[i]) <= Len(items[i])
        /\ \A k \in DOMAIN got[i] : got[i][k] = items[i][k]
        /\ request[i].at = "over" /\ request[i].ans = "ok" => Len(got[i]) = Len(items[i])

\* A request is sent and executed at most once, whatever the streams carry
\* and whatever is lost or dropped: io_loop takes a call out of its inbox for
\* good (client.rs:175-196).
SentOnce ==
    \A i \in Call :
        LET inInbox == \E k \in DOMAIN inbox : inbox[k] = i
            onWire == \E k \in DOMAIN c2s : c2s[k] = i
            running == handler.at = "run" /\ handler.id = i
        IN  /\ inInbox => ~onWire /\ ~running /\ i \notin orphans \cup ran
            /\ onWire => ~running /\ i \notin orphans \cup ran
            /\ running => i \notin orphans \cup ran
            /\ i \in orphans => i \notin ran

\* When no more calls are made, every call ends: io_loop is not left waiting
\* for a line that does not come, which would hold up all the calls behind it
\* (client.rs:154-255).  The exceptions are streams that end without a line
\* "done": one that carried "exit", and one that could not be opened
\* (server.rs:217-262).
CallsEnd ==
    []<>(\/ spoiled \/ Carried("exit")
         \/ \E i \in Call : request[i].kind = "badstream"
         \/ \A i \in Call : request[i].at # "made")

status == [i \in Call |->
             IF request[i].at # "over" THEN (IF request[i].at = "new" THEN "new" ELSE "made")
             ELSE request[i].ans]

Abstract == INSTANCE RpcCall

\* The protocol does what RpcCall says: no request is executed twice, not
\* even one whose connection was lost, since io_loop never sends it again.
ImplementsRpcCall == Abstract!Spec
=============================================================================
