------------------------------ MODULE Listener -------------------------------
(***************************************************************************)
(* The server's accept loop and the life of its connections                *)
(* (efis/src/rpc/server.rs): permits that bound the connections, accept    *)
(* with its back-off, handlers, and the shutdown that follows when accept  *)
(* gives up.                                                               *)
(***************************************************************************)
EXTENDS Integers, Sequences, FiniteSets

CONSTANTS
    Conn,               \* connections; each is made once
    MaxConnections,     \* permits (1000)
    MaxBackoff,         \* the last back-off, in seconds (64)
    MaxAcceptErrors     \* bound: errors of accept

ASSUME ConnAssumption == IsFiniteSet(Conn)
ASSUME PermitAssumption == MaxConnections \in Nat

VARIABLES
    listener,       \* "new", "permit", "accept", "stopped", "returned"
    permits,        \* permits left
    backoff,        \* of the running accept
    backlog,        \* connections the operating system holds for accept
    handling,       \* handling[c]: "none", "read", "run", "stream", "over"
    closed,         \* connections the client has closed
    acceptErrors

listenerVars == <<listener, permits, backoff, backlog, handling, closed,
                  acceptErrors>>

ListenerInit ==
    /\ listener = "new" /\ permits = MaxConnections
    /\ backoff = 1 /\ backlog = <<>>
    /\ handling = [c \in Conn |-> "none"]
    /\ closed = {} /\ acceptErrors = 0

Served == {c \in Conn : handling[c] \in {"read", "run", "stream"}}
InBacklog(c) == \E k \in DOMAIN backlog : backlog[k] = c

-----------------------------------------------------------------------------

\* RpcServer::run binds the socket, or fails to.
Run ==
    /\ listener = "new"
    /\ listener' \in {"permit", "returned"}
    /\ UNCHANGED <<permits, backoff, backlog, handling, closed, acceptErrors>>

Dial(c) ==
    /\ handling[c] = "none" /\ ~InBacklog(c) /\ listener \notin {"new", "returned"}
    /\ backlog' = Append(backlog, c)
    /\ UNCHANGED <<listener, permits, backoff, handling, closed, acceptErrors>>

Hangup(c) ==
    /\ c \in Served \ closed
    /\ closed' = closed \cup {c}
    /\ UNCHANGED <<listener, permits, backoff, backlog, handling, acceptErrors>>

\* Listener::run waits for a permit before it accepts.
AcquireOwned ==
    /\ listener = "permit" /\ permits > 0
    /\ permits' = permits - 1
    /\ listener' = "accept" /\ backoff' = 1
    /\ UNCHANGED <<backlog, handling, closed, acceptErrors>>

\* The handler's task gets the permit.
Accept ==
    /\ listener = "accept" /\ backlog # <<>>
    /\ handling' = [handling EXCEPT ![Head(backlog)] = "read"]
    /\ backlog' = Tail(backlog)
    /\ listener' = "permit"
    /\ UNCHANGED <<permits, backoff, closed, acceptErrors>>

\* accept fails: it waits and doubles the back-off, or gives up, which ends
\* run and drops the permit it held.
AcceptFails ==
    /\ listener = "accept" /\ acceptErrors < MaxAcceptErrors
    /\ acceptErrors' = acceptErrors + 1
    /\ IF backoff > MaxBackoff
       THEN /\ listener' = "stopped" /\ permits' = permits + 1
            /\ UNCHANGED backoff
       ELSE /\ backoff' = backoff * 2
            /\ UNCHANGED <<listener, permits>>
    /\ UNCHANGED <<backlog, handling, closed>>

-----------------------------------------------------------------------------
(* Handler::run                                                            *)

Moves(c, from, to) ==
    /\ handling[c] = from
    /\ handling' = [handling EXCEPT ![c] = to]
    /\ UNCHANGED <<listener, permits, backoff, backlog, closed, acceptErrors>>

Request(c) == c \notin closed /\ Moves(c, "read", "run")
WriteReply(c) == c \notin closed /\ Moves(c, "run", "read")
StartStream(c) == Moves(c, "run", "stream")
EndStream(c) == Moves(c, "stream", "read")

\* The handler's task ends and drops its permit.
HandlerEnds(c) ==
    /\ handling' = [handling EXCEPT ![c] = "over"]
    /\ permits' = permits + 1
    /\ UNCHANGED <<listener, backoff, backlog, closed, acceptErrors>>

\* Mutant: a handler that ends with an error keeps its permit.
LostKeepsPermit(c) ==
    /\ c \in closed \cap Served
    /\ handling' = [handling EXCEPT ![c] = "over"]
    /\ permits' = IF handling[c] = "read" THEN permits + 1 ELSE permits
    /\ UNCHANGED <<listener, backoff, backlog, closed, acceptErrors>>

\* The client is gone: the handler reads the end of the connection, or fails
\* to write to it.
ConnLost(c) == c \in closed \cap Served /\ HandlerEnds(c)

\* Mutant: a stream ends at a shutdown only when it ends by itself, and so
\* does a handler that waits for a request.
ShutdownIgnored(c) == listener = "stopped" /\ handling[c] = "stream" /\ HandlerEnds(c)

\* Shutdown::recv: notify_shutdown has been dropped.  A handler looks at it
\* only while it waits for a request.
Shutdown(c) == listener = "stopped" /\ handling[c] = "read" /\ HandlerEnds(c)

\* RpcServer::run returns when the last handler has dropped its sender.
Return ==
    /\ listener = "stopped" /\ Served = {}
    /\ listener' = "returned"
    /\ UNCHANGED <<permits, backoff, backlog, handling, closed, acceptErrors>>

-----------------------------------------------------------------------------

ListenerNext ==
    \/ Run \/ AcquireOwned \/ Accept \/ AcceptFails \/ Return
    \/ \E c \in Conn : \/ Dial(c) \/ Hangup(c)
                       \/ Request(c) \/ WriteReply(c) \/ StartStream(c) \/ EndStream(c)
                       \/ ConnLost(c) \/ Shutdown(c)

ListenerSpec == ListenerInit /\ [][ListenerNext]_listenerVars

\* The accept loop runs, a handler answers its request, and of the two things
\* a handler waits for, select! takes either (it chooses at random).  Each
\* connection is shut down once, so that no connection is passed over forever.
ListenerFairness ==
    /\ WF_listenerVars(AcquireOwned) /\ WF_listenerVars(Accept) /\ WF_listenerVars(Return)
    /\ \A c \in Conn : /\ WF_listenerVars(ConnLost(c))
                       /\ WF_listenerVars(WriteReply(c) \/ StartStream(c))
    /\ SF_listenerVars(\E c \in Conn : Shutdown(c))

-----------------------------------------------------------------------------
(* Properties.                                                             *)

\* Every permit is free, with the accept loop, or with one connection, on
\* every path by which a handler or accept ends: none is lost and the limit
\* holds (server.rs:126-172).
PermitsAccounted ==
    /\ permits + Cardinality(Served) + (IF listener = "accept" THEN 1 ELSE 0) = MaxConnections
    /\ permits >= 0

\* After accept has given up, run returns, unless a stream is open: streams do
\* not notice the shutdown (server.rs:64-75, 217-228).
StopReturns ==
    []<>(listener # "stopped" \/ \E c \in Conn : handling[c] = "stream")
=============================================================================
