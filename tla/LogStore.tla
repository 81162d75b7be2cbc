------------------------------ MODULE LogStore ------------------------------
(***************************************************************************)
(* What the Raft engine may rely on from its storage: the part of module   *)
(* RaftLog that one node's handlers and restarts read and write.  A        *)
(* handler ends with persist_state, which saves term and vote and hands    *)
(* the entries it believes new to the log writer.  A restarted node has    *)
(* the term and vote last saved and some sequence of the records ever      *)
(* handed over.  Once a write has failed or was cut short within a record, *)
(* nothing is promised.  ConFileStorage is shown to implement this.        *)
(***************************************************************************)
EXTENDS Integers, Sequences, Functions

CONSTANTS
    Entry           \* the log entries

VARIABLES
    logs,               \* the node's log
    term,               \* its term and vote, as one number
    last_persisted_log, \* the index of the last entry it believes saved
    meta,               \* the term and vote in the metadata file
    log_disk,           \* the records handed to the log writer so far
    broken              \* has a write failed or been cut short?

storeVars == <<logs, term, last_persisted_log, meta, log_disk>>
vars == <<storeVars, broken>>

\* The entries persist_state takes for new: with last_persisted_log = 0 it
\* cannot tell "entry 0 is saved" from "nothing is saved" and starts over.
Unsaved(l, last) ==
    IF last = 0 THEN l ELSE SubSeq(l, last + 2, Len(l))

Init ==
    /\ logs = <<>>
    /\ term = 0
    /\ last_persisted_log = 0
    /\ meta = 0
    /\ log_disk = {}
    /\ broken = FALSE

Persist ==
    /\ logs' \in Seq(Entry)
    /\ term' \in Nat
    /\ meta' = term'
    /\ log_disk' = log_disk \cup Range(Unsaved(logs', last_persisted_log))
    /\ last_persisted_log' =
          IF Unsaved(logs', last_persisted_log) = <<>> THEN last_persisted_log
          ELSE Len(logs') - 1

Restart ==
    /\ logs' \in Seq(log_disk)
    /\ term' = meta
    /\ last_persisted_log' = IF logs' = <<>> THEN 0 ELSE Len(logs') - 1
    /\ UNCHANGED <<meta, log_disk>>

Move == Persist \/ Restart

Break == broken' = TRUE

Next == (Move /\ UNCHANGED broken) \/ Break

Spec == Init /\ [][Next]_vars
=============================================================================
