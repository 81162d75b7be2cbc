------------------------------ MODULE MCRequest ------------------------------
(***************************************************************************)
(* Instances of the two protocols a request goes through: the RPC          *)
(* connection, and the way of a write through the Raft actor to the apply  *)
(* loop and back.  They share no state, so a behaviour is one of a part,   *)
(* while the other stays as it was created.  A write is looked at in two   *)
(* scenarios: one client's while the leader changes, with an apply loop    *)
(* that subscribes first, and those of all clients while the leader stays  *)
(* and the apply loop subscribes at any time.                              *)
(***************************************************************************)
EXTENDS Service, Rpc

CONSTANT Single     \* the client that writes while the leader changes

VARIABLE part       \* the part that runs

vars == <<part, serviceVars, rpcVars>>

Init ==
    /\ part \in {"change", "clients", "rpc"}
    /\ ServiceInit /\ RpcInit

Next ==
    \/ /\ part # "rpc" /\ ServiceNext /\ UNCHANGED <<part, rpcVars>>
       /\ part = "change" =>
             relay' # -1 /\ \A c \in Client \ {Single} : call'[c] = call[c]
       /\ part = "clients" => changes' = 0
    \/ part = "rpc" /\ RpcNext /\ UNCHANGED <<part, serviceVars>>

\* The RPC client's task, once there is a client, and the server's are
\* scheduled, and every stream ends.
RpcFairness == WF_rpcVars(part = "rpc" /\ ClientIo) /\ WF_rpcVars(ServerIo)

Spec == Init /\ [][Next]_vars /\ ServiceFairness /\ RpcFairness
=============================================================================
