------------------------------- MODULE RpcCall -------------------------------
(***************************************************************************)
(* What a caller of the RPC client may rely on (abstract): a request is    *)
(* executed at most once, never before it is made, and answered at most    *)
(* once.  As long as the connection is not spoiled, "ok" means that it was *)
(* executed, and an answer that nothing happens later.  When the           *)
(* connection is lost the caller does not know, and the request may even   *)
(* be executed later.                                                      *)
(***************************************************************************)
CONSTANT Call

VARIABLES
    status,     \* status[i]: "new", "made", "ok", "error", "lost"
    ran,        \* the calls that were executed
    spoiled     \* may lines of one call be taken for those of another?

callVars == <<status, ran>>
vars == <<status, ran, spoiled>>

Init == status = [i \in Call |-> "new"] /\ ran = {} /\ spoiled = FALSE

Make(i) ==
    /\ status[i] = "new"
    /\ status' = [status EXCEPT ![i] = "made"]
    /\ UNCHANGED ran

Execute(i) ==
    /\ status[i] # "new" /\ i \notin ran
    /\ status[i] \in {"made", "lost"} \/ spoiled
    /\ ran' = ran \cup {i}
    /\ UNCHANGED status

Answer(i, res) ==
    /\ status[i] = "made"
    /\ res = "ok" => i \in ran \/ spoiled
    /\ status' = [status EXCEPT ![i] = res]
    /\ UNCHANGED ran

Move == \E i \in Call :
            \/ Make(i) \/ Execute(i)
            \/ \E res \in {"ok", "error", "lost"} : Answer(i, res)

Spoil == spoiled' = TRUE /\ UNCHANGED callVars

Next == (Move /\ UNCHANGED spoiled) \/ Spoil

Spec == Init /\ [][Next]_vars
=============================================================================
