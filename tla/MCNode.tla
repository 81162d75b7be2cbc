------------------------------- MODULE MCNode --------------------------------
(***************************************************************************)
(* Instances of what runs in the background of a node: the timers of its   *)
(* Raft actor, the storage of its log, the backup of its store and its     *)
(* accept loop.  They share no state, so a behaviour is one of a part,     *)
(* while the others stay as they were created.  None of the actions that   *)
(* are assumed to be fair is enabled in a part that was not started.       *)
(***************************************************************************)
EXTENDS Timers, ConFileStorage, Backup, Listener

VARIABLE part       \* the part that runs

vars == <<part, timersVars, storageVars, backupVars, listenerVars>>

Init ==
    /\ part \in {"timers", "storage", "backup", "listener"}
    /\ TimersInit /\ StorageInit /\ BackupInit /\ ListenerInit

Next ==
    \/ /\ part = "timers" /\ TimersNext
       /\ UNCHANGED <<part, storageVars, backupVars, listenerVars>>
    \/ /\ part = "storage" /\ StorageNext
       /\ UNCHANGED <<part, timersVars, backupVars, listenerVars>>
    \/ /\ part = "backup" /\ BackupNext
       /\ UNCHANGED <<part, timersVars, storageVars, listenerVars>>
    \/ /\ part = "listener" /\ ListenerNext
       /\ UNCHANGED <<part, timersVars, storageVars, backupVars>>

Spec ==
    /\ Init /\ [][Next]_vars
    /\ TimersFairness /\ StorageFairness /\ BackupFairness /\ ListenerFairness
=============================================================================
