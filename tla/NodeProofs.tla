----------------------------- MODULE NodeProofs ------------------------------
(***************************************************************************)
(* The parts of a node around its log, for every value of the constants    *)
(* and any number of role changes, writes, connections, I/O errors and     *)
(* crashes:                                                                *)
(*   - Timers: the timers of the Raft actor fit its role;                  *)
(*   - Backup: backup.efs is always whole, and the last backup has         *)
(*     everything;                                                         *)
(*   - Listener: the permits of the accept loop are neither lost nor       *)
(*     handed out twice;                                                   *)
(*   - ConFileStorage: while writes succeed and no record is torn it       *)
(*     implements LogStore, and LAST_METADATA never differs from the file; *)
(*   - FlatIndex: rows, ids and the cache of rows fit, and a search finds  *)
(*     the nearest.                                                        *)
(***************************************************************************)
EXTENDS Timers, Backup, Listener, ConFileStorage, FlatIndex, FiniteSetTheorems, TLAPS

-----------------------------------------------------------------------------
(* The timers.                                                             *)

\* A node that was not started does not lead, so the timer that start spawns
\* is the one it should have.
TimersInv == TimersRight /\ (~started => state # "Leader")

\* Every timeout is positive, so a timer that was spawned is there.
LEMMA TimerSpawned == ASSUME SpawnElectionTimer PROVE election_handle' # None
  BY TimeoutsAssumption DEF SpawnElectionTimer, None

LEMMA TimersStep == ASSUME TimersInv, [TimersNext]_timersVars PROVE TimersInv'
  <1>0. "Leader" # "Follower" /\ "Leader" # "Candidate"
    OBVIOUS
  <1>1. CASE TimersStart
    BY <1>1, TimerSpawned, Zenon DEF TimersInv, TimersRight, TimersStart
  <1>a. ASSUME UNCHANGED <<started, state, election_handle, heartbeat_handle>>
        PROVE  TimersInv'
    BY <1>a DEF TimersInv, TimersRight
  <1>2. CASE Tick \/ ElectionTick \/ Beat \/ HearLeader \/ TakeSendAES
    BY <1>2, <1>a, Zenon DEF Tick, ElectionTick, Beat, HearLeader, TakeSendAES
  <1>3. ASSUME started, NEW tm \in Timeouts, TakeStartElection(tm) PROVE TimersInv'
    BY <1>0, <1>3, Zenon DEF TimersInv, TimersRight, TakeStartElection, StartElection
  <1>4. CASE started /\ BecomeFollower
    BY <1>0, <1>4, TimerSpawned, Zenon DEF TimersInv, TimersRight, BecomeFollower
  <1>5. CASE started /\ StartLeader
    BY <1>5, Zenon DEF TimersInv, TimersRight, StartLeader
  <1>6. CASE UNCHANGED timersVars
    BY <1>6, <1>a, Zenon DEF timersVars
  <1> QED
    BY <1>1, <1>2, <1>3, <1>4, <1>5, <1>6, Zenon DEF TimersNext, Running

\* For all timeouts, and whatever messages of aborted timers the actor takes
\* from its mailbox, a node that was started has an election timer exactly
\* while it does not lead, and a heartbeat task while it does (start,
\* start_election, become_follower, start_leader; consensus.rs:548-673).
THEOREM TimersFitRole == TimersSpec => []TimersRight
  <1>1. TimersInit => TimersInv
    BY Zenon DEF TimersInit, TimersInv, TimersRight
  <1>2. TimersInv => TimersRight
    BY DEF TimersInv
  <1> QED  BY <1>1, <1>2, TimersStep, PTL DEF TimersSpec

-----------------------------------------------------------------------------
(* The backup.                                                             *)

Files == [there : BOOLEAN, bytes : Seq(Nat), synced : BOOLEAN, of : Nat]

BackupTypeInv ==
    /\ up \in BOOLEAN /\ store \in Nat
    /\ task \in Saving \cup {"idle", "over"}
    /\ stopping \in BOOLEAN /\ lastSave \in BOOLEAN
    /\ tmp \in Files /\ backup \in Files /\ before \in Files
    /\ dropped \in Nat /\ saveErrors \in Nat /\ backupCrashes \in Nat

\* A crash leaves such a file as it is.
Whole(f) == f.synced /\ (f.there => f.bytes = Encode(f.of))

\* The temporary file gets its contents before it is synced, and is synced
\* before it is renamed; a rename that a crash undoes brings back a file that
\* was once renamed itself.
FileInv ==
    /\ Whole(backup) /\ Whole(before)
    /\ task \in {"written", "synced"} => tmp.bytes = Encode(tmp.of)
    /\ task = "synced" => tmp.synced

\* The backup asked for by the drop is made of the store as it was then, or
\* later.
DropInv ==
    /\ dropped <= store
    /\ ~up => task = "idle"
    /\ (lastSave /\ task \in Saving) => (stopping /\ tmp.of >= dropped)
    /\ (task = "over" /\ saveErrors = 0) => (stopping /\ backup.of >= dropped)

BackupInv == BackupTypeInv /\ FileInv /\ DropInv

-----------------------------------------------------------------------------

LEMMA EncodeType == ASSUME NEW s \in Nat PROVE Encode(s) \in Seq(Nat)
  BY BlocksAssumption DEF Encode

LEMMA FileType ==
  ASSUME NEW b \in Seq(Nat), NEW s \in BOOLEAN, NEW o \in Nat
  PROVE  /\ File(b, s, o) \in Files
         /\ File(b, s, o).there = TRUE /\ File(b, s, o).bytes = b
         /\ File(b, s, o).synced = s /\ File(b, s, o).of = o
  BY DEF File, Files

LEMMA NoFileType == NoFile \in Files /\ Whole(NoFile)
  <1>1. <<>> \in Seq(Nat)
    OBVIOUS
  <1> QED  BY <1>1 DEF NoFile, Files, Whole

\* What the model of a crash leaves of a whole file is that file.
LEMMA WholeSurvives ==
  ASSUME NEW f \in Files, Whole(f) PROVE Survives(f) = {f}
  BY DEF Whole, Survives

LEMMA BackupInitInv == ASSUME BackupInit PROVE BackupInv
  <1>1. BackupTypeInv
    BY NoFileType, Zenon DEF BackupInit, BackupTypeInv, Saving
  <1>2. FileInv
    BY NoFileType DEF BackupInit, FileInv
  <1>3. DropInv
    BY DEF BackupInit, DropInv, Saving
  <1> QED  BY <1>1, <1>2, <1>3 DEF BackupInv

LEMMA WriteStoreInv == ASSUME BackupInv, WriteStore PROVE BackupInv'
  BY DEF BackupInv, BackupTypeInv, FileInv, DropInv, WriteStore, faults, Whole, Encode

LEMMA DropStepInv == ASSUME BackupInv, Drop PROVE BackupInv'
  BY DEF BackupInv, BackupTypeInv, FileInv, DropInv, Drop, faults, Whole, Encode, Saving

LEMMA BackupTickInv == ASSUME BackupInv, BackupTick PROVE BackupInv'
  <1>1. <<>> \in Seq(Nat) /\ store \in Nat /\ stopping \in BOOLEAN
    BY DEF BackupInv, BackupTypeInv
  <1>2. tmp' \in Files /\ tmp'.of = store
    <2>1. File(<<>>, FALSE, store) \in Files /\ File(<<>>, FALSE, store).of = store
      BY <1>1 DEF File, Files
    <2> QED  BY <2>1, Zenon DEF BackupTick, faults
  <1>3. BackupTypeInv'
    BY <1>2, Zenon DEF BackupInv, BackupTypeInv, BackupTick, faults, Saving
  <1>4. FileInv'
    BY DEF BackupInv, FileInv, BackupTick, faults, Whole, Encode
  <1>5. DropInv'
    <2>1. dropped <= store /\ dropped \in Nat /\ store \in Nat
      BY DEF BackupInv, BackupTypeInv, DropInv
    <2>2. lastSave' => stopping'
      BY <1>1, Zenon DEF BackupTick, faults
    <2>3. tmp'.of >= dropped'
      BY <1>2, <2>1, Zenon DEF BackupTick, faults
    <2> QED  BY <2>1, <2>2, <2>3, Zenon DEF DropInv, BackupTick, faults
  <1> QED  BY <1>3, <1>4, <1>5 DEF BackupInv

LEMMA WriteAllInv == ASSUME BackupInv, WriteAll PROVE BackupInv'
  <1>1. tmp \in Files /\ tmp.of \in Nat
    BY DEF BackupInv, BackupTypeInv, Files
  <1>2. Encode(tmp.of) \in Seq(Nat)
    BY <1>1, EncodeType
  <1>3. tmp' \in Files /\ tmp'.of = tmp.of /\ tmp'.bytes = Encode(tmp.of)
    BY <1>1, <1>2, Zenon DEF WriteAll, faults, Files
  <1>4. BackupTypeInv'
    BY <1>3 DEF BackupInv, BackupTypeInv, WriteAll, faults, Saving
  <1>5. FileInv'
    BY <1>3 DEF BackupInv, FileInv, WriteAll, faults, Whole, Encode
  <1>6. DropInv'
    BY <1>3 DEF BackupInv, DropInv, WriteAll, faults, Saving
  <1> QED  BY <1>4, <1>5, <1>6 DEF BackupInv

LEMMA SyncAllInv == ASSUME BackupInv, SyncAll PROVE BackupInv'
  <1>1. tmp \in Files
    BY DEF BackupInv, BackupTypeInv
  <1>2. /\ tmp' \in Files /\ tmp'.of = tmp.of /\ tmp'.bytes = tmp.bytes
        /\ tmp'.synced
    BY <1>1, Zenon DEF SyncAll, faults, Files
  <1>3. BackupTypeInv'
    BY <1>2 DEF BackupInv, BackupTypeInv, SyncAll, faults, Saving
  <1>4. FileInv'
    BY <1>2 DEF BackupInv, FileInv, SyncAll, faults, Whole, Encode
  <1>5. DropInv'
    BY <1>2 DEF BackupInv, DropInv, SyncAll, faults, Saving
  <1> QED  BY <1>3, <1>4, <1>5 DEF BackupInv

LEMMA RenameInv == ASSUME BackupInv, Rename PROVE BackupInv'
  <1>1. BackupTypeInv'
    BY NoFileType DEF BackupInv, BackupTypeInv, Rename, faults, Saving
  <1>2. FileInv'
    BY DEF BackupInv, FileInv, Rename, faults, Whole, Encode
  <1>3. DropInv'
    BY DEF BackupInv, BackupTypeInv, DropInv, Rename, faults, Saving
  <1> QED  BY <1>1, <1>2, <1>3 DEF BackupInv

LEMMA SaveFailsInv == ASSUME BackupInv, SaveFails PROVE BackupInv'
  <1>1. BackupTypeInv'
    BY NoFileType DEF BackupInv, BackupTypeInv, SaveFails, Saving
  <1>2. FileInv'
    BY DEF BackupInv, FileInv, SaveFails, Whole, Encode
  <1>3. DropInv'
    BY DEF BackupInv, BackupTypeInv, DropInv, SaveFails, Saving
  <1> QED  BY <1>1, <1>2, <1>3 DEF BackupInv

LEMMA CrashInv == ASSUME BackupInv, BackupCrash PROVE BackupInv'
  <1>1. backup' \in {backup, before}
    <2>1. /\ backup \in Files /\ before \in Files
          /\ Whole(backup) /\ Whole(before)
      BY DEF BackupInv, BackupTypeInv, FileInv
    <2>2. Survives(backup) = {backup} /\ Survives(before) = {before}
      BY <2>1, WholeSurvives
    <2> QED  BY <2>2 DEF BackupCrash
  <1>2. BackupTypeInv'
    <2>1. backup' \in Files /\ before' \in Files
      BY <1>1 DEF BackupInv, BackupTypeInv, BackupCrash
    <2>2. tmp' \in Files
      BY NoFileType DEF BackupCrash
    <2>3. backupCrashes' \in Nat /\ saveErrors' \in Nat /\ dropped' \in Nat /\ store' \in Nat
      BY SMT DEF BackupInv, BackupTypeInv, BackupCrash
    <2> QED  BY <2>1, <2>2, <2>3, Zenon DEF BackupInv, BackupTypeInv, BackupCrash
  <1>3. FileInv'
    BY <1>1, Zenon DEF BackupInv, FileInv, BackupCrash, Whole, Encode
  <1>4. DropInv'
    BY DEF BackupInv, DropInv, BackupCrash, Saving
  <1> QED  BY <1>2, <1>3, <1>4 DEF BackupInv

LEMMA StartInv == ASSUME BackupInv, BackupStart PROVE BackupInv'
  <1>1. task' = task /\ lastSave' = lastSave /\ tmp' = tmp /\ backup' = backup
        /\ before' = before /\ saveErrors' = saveErrors /\ backupCrashes' = backupCrashes
    BY DEF BackupStart, faults
  <1>2. store' = 0 /\ dropped' = 0 /\ up' = TRUE /\ stopping' = FALSE
    BY DEF BackupStart, faults, From
  <1>3. BackupTypeInv'
    BY <1>1, <1>2, Zenon DEF BackupInv, BackupTypeInv
  <1>4. FileInv'
    BY <1>1 DEF BackupInv, FileInv, Whole, Encode
  <1>5. DropInv'
    BY <1>1, <1>2 DEF BackupInv, BackupTypeInv, DropInv, BackupStart, faults, Saving
  <1> QED  BY <1>3, <1>4, <1>5 DEF BackupInv

\* One step per action of the backup.
LEMMA BackupStepInv == ASSUME BackupInv, [BackupNext]_backupVars PROVE BackupInv'
  <1>1. CASE UNCHANGED backupVars
    BY <1>1
    DEF backupVars, faults, BackupInv, BackupTypeInv, FileInv, DropInv, Whole, Encode
  <1>2. CASE BackupNext
    BY <1>2, WriteStoreInv, DropStepInv, BackupTickInv, WriteAllInv, SyncAllInv,
       RenameInv, SaveFailsInv, CrashInv, StartInv DEF BackupNext, Save
  <1> QED  BY <1>1, <1>2, SMTT(20)

\* Whatever fails and whenever the machine stops, backup.efs is the whole
\* encoding of a store or is not there (backup.rs:19-47).
THEOREM BackupIsWhole == BackupSpec => []BackupWhole
  <1>1. BackupInit => BackupInv
    BY BackupInitInv
  <1>2. BackupInv /\ [BackupNext]_backupVars => BackupInv'
    BY BackupStepInv
  <1>3. BackupInv => BackupWhole
    BY DEF BackupInv, FileInv, Whole, BackupWhole
  <1> QED  BY <1>1, <1>2, <1>3, PTL DEF BackupSpec

\* If no save failed, the backup task ends only with a backup that was begun
\* after the guard was dropped (store.rs:83-98).
THEOREM LastBackupIsLast == BackupSpec => []LastBackupCounts
  <1>1. BackupInit => BackupInv
    BY BackupInitInv
  <1>2. BackupInv /\ [BackupNext]_backupVars => BackupInv'
    BY BackupStepInv
  <1>3. BackupInv => LastBackupCounts
    BY DEF BackupInv, DropInv, LastBackupCounts
  <1> QED  BY <1>1, <1>2, <1>3, PTL DEF BackupSpec

-----------------------------------------------------------------------------
(* The accept loop.                                                        *)

Alive == {"read", "run", "stream"}

ListenerTypeInv ==
    /\ listener \in {"new", "permit", "accept", "stopped", "returned"}
    /\ permits \in Nat
    /\ backlog \in Seq(Conn)
    /\ handling \in [Conn -> Alive \cup {"none", "over"}]

\* accept never hands a connection to a second handler: the ones it may
\* return have none, and each is there once.
BacklogInv ==
    \A k \in 1 .. Len(backlog) :
        /\ handling[backlog[k]] = "none"
        /\ \A l \in 1 .. Len(backlog) : backlog[k] = backlog[l] => k = l

ListenerInv == ListenerTypeInv /\ BacklogInv /\ PermitsAccounted

-----------------------------------------------------------------------------

LEMMA ServedFinite == IsFiniteSet(Served) /\ Cardinality(Served) \in Nat
  <1>1. Served \subseteq Conn
    BY DEF Served
  <1>2. IsFiniteSet(Served)
    BY <1>1, ConnAssumption, FS_Subset
  <1> QED  BY <1>2, FS_CardinalityType

\* A handler that starts adds one to the connections served.
LEMMA ServedMore ==
  ASSUME ListenerTypeInv, NEW c \in Conn, handling[c] = "none",
         NEW to \in Alive, handling' = [handling EXCEPT ![c] = to]
  PROVE  Cardinality(Served') = Cardinality(Served) + 1
  <1>1. c \notin Served
    BY DEF Served
  <1>2. Served' = Served \cup {c}
    BY DEF Served, ListenerTypeInv, Alive
  <1> QED  BY <1>1, <1>2, ServedFinite, FS_AddElement, Zenon

\* A handler that ends takes one away.
LEMMA ServedLess ==
  ASSUME ListenerTypeInv, NEW c \in Served, handling' = [handling EXCEPT ![c] = "over"]
  PROVE  Cardinality(Served') = Cardinality(Served) - 1
  <1>1. c \in Conn
    BY DEF Served
  <1>2. Served' = Served \ {c}
    BY <1>1 DEF Served, ListenerTypeInv
  <1> QED  BY <1>2, ServedFinite, FS_RemoveElement

\* A handler that goes on changes nothing.
LEMMA ServedSame ==
  ASSUME ListenerTypeInv, NEW c \in Served, NEW to \in Alive,
         handling' = [handling EXCEPT ![c] = to]
  PROVE  Served' = Served
  BY DEF Served, ListenerTypeInv, Alive

LEMMA ListenerInitInv == ASSUME ListenerInit PROVE ListenerInv
  <1>1. Served = {}
    BY DEF ListenerInit, Served
  <1>2. Cardinality(Served) = 0
    BY <1>1, FS_EmptySet
  <1>3. ListenerTypeInv
    BY PermitAssumption DEF ListenerInit, ListenerTypeInv
  <1>4. BacklogInv
    BY DEF ListenerInit, BacklogInv
  <1>5. PermitsAccounted
    BY <1>2, PermitAssumption DEF ListenerInit, PermitsAccounted
  <1> QED  BY <1>3, <1>4, <1>5 DEF ListenerInv

LEMMA DialInv == ASSUME ListenerInv, NEW c \in Conn, Dial(c) PROVE ListenerInv'
  <1>1. Served' = Served
    BY DEF Dial, Served
  <1>2. /\ backlog \in Seq(Conn) /\ backlog' = Append(backlog, c)
        /\ handling' = handling /\ handling[c] = "none"
    BY DEF ListenerInv, ListenerTypeInv, Dial
  <1>3. \A k \in 1 .. Len(backlog) : backlog[k] # c
    BY DEF Dial, InBacklog, ListenerInv, ListenerTypeInv
  <1>4. ListenerTypeInv'
    BY <1>2 DEF ListenerInv, ListenerTypeInv, Dial
  <1>5. BacklogInv'
    <2>1. /\ Len(backlog') = Len(backlog) + 1 /\ Len(backlog) \in Nat
          /\ \A k \in 1 .. Len(backlog) : backlog'[k] = backlog[k]
          /\ backlog'[Len(backlog) + 1] = c
      BY <1>2
    <2>2. \A k \in 1 .. Len(backlog') :
             k \in 1 .. Len(backlog) \/ k = Len(backlog) + 1
      BY <2>1
    <2> QED  BY <1>2, <1>3, <2>1, <2>2, SMTT(20) DEF ListenerInv, BacklogInv
  <1>6. PermitsAccounted'
    BY <1>1 DEF ListenerInv, PermitsAccounted, Dial
  <1> QED  BY <1>4, <1>5, <1>6 DEF ListenerInv

LEMMA AcquireInv == ASSUME ListenerInv, AcquireOwned PROVE ListenerInv'
  <1>1. Served' = Served
    BY DEF AcquireOwned, Served
  <1>2. ListenerTypeInv'
    BY DEF ListenerInv, ListenerTypeInv, AcquireOwned
  <1>3. BacklogInv'
    BY DEF ListenerInv, BacklogInv, AcquireOwned
  <1>4. PermitsAccounted'
    BY <1>1, ServedFinite, PermitAssumption
    DEF ListenerInv, ListenerTypeInv, PermitsAccounted, AcquireOwned
  <1> QED  BY <1>2, <1>3, <1>4 DEF ListenerInv

LEMMA AcceptInv == ASSUME ListenerInv, Accept PROVE ListenerInv'
  <1>0. backlog \in Seq(Conn) /\ backlog # <<>> /\ ListenerTypeInv
    BY DEF ListenerInv, ListenerTypeInv, Accept
  <1>1. /\ Len(backlog) \in Nat /\ Len(backlog) >= 1
        /\ Head(backlog) = backlog[1] /\ backlog[1] \in Conn
    BY <1>0
  <1>2. handling[backlog[1]] = "none"
    BY <1>1 DEF ListenerInv, BacklogInv
  <1>3. handling' = [handling EXCEPT ![backlog[1]] = "read"]
    BY <1>1 DEF Accept
  <1>4. Cardinality(Served') = Cardinality(Served) + 1
    BY <1>0, <1>1, <1>2, <1>3, ServedMore, Zenon DEF Alive
  <1>5. ListenerTypeInv'
    BY <1>0, <1>1, <1>3 DEF ListenerTypeInv, Accept, Alive
  <1>6. BacklogInv'
    <2>1. /\ Len(backlog') = Len(backlog) - 1
          /\ \A k \in 1 .. Len(backlog') : backlog'[k] = backlog[k + 1]
      BY <1>0 DEF Accept
    <2>2. SUFFICES ASSUME NEW k \in 1 .. Len(backlog')
                   PROVE  /\ handling'[backlog'[k]] = "none"
                          /\ \A l \in 1 .. Len(backlog') :
                                backlog'[k] = backlog'[l] => k = l
      BY DEF BacklogInv
    <2>3. k + 1 \in 1 .. Len(backlog) /\ 1 \in 1 .. Len(backlog) /\ k + 1 # 1
      BY <1>1, <2>1
    <2>4. backlog[k + 1] # backlog[1] /\ handling[backlog[k + 1]] = "none"
      BY <2>3 DEF ListenerInv, BacklogInv
    <2>5. backlog[k + 1] \in Conn
      BY <1>0, <2>3
    <2>6. handling'[backlog'[k]] = "none"
      BY <1>0, <1>3, <2>1, <2>4, <2>5 DEF ListenerTypeInv
    <2>7. ASSUME NEW l \in 1 .. Len(backlog'), backlog'[k] = backlog'[l]
          PROVE  k = l
      <3>1. l + 1 \in 1 .. Len(backlog) /\ backlog[k + 1] = backlog[l + 1]
        BY <1>1, <2>1, <2>7, SMTT(20)
      <3>2. k + 1 = l + 1
        BY <2>3, <3>1 DEF ListenerInv, BacklogInv
      <3> QED  BY <3>2
    <2> QED  BY <2>6, <2>7
  <1>7. PermitsAccounted'
    BY <1>4, ServedFinite, PermitAssumption
    DEF ListenerInv, ListenerTypeInv, PermitsAccounted, Accept
  <1> QED  BY <1>5, <1>6, <1>7 DEF ListenerInv

LEMMA AcceptFailsInv == ASSUME ListenerInv, AcceptFails PROVE ListenerInv'
  <1>1. Served' = Served
    BY DEF AcceptFails, Served
  <1>2. ListenerTypeInv'
    BY DEF ListenerInv, ListenerTypeInv, AcceptFails
  <1>3. BacklogInv'
    BY DEF ListenerInv, BacklogInv, AcceptFails
  <1>4. PermitsAccounted'
    BY <1>1, ServedFinite, PermitAssumption
    DEF ListenerInv, ListenerTypeInv, PermitsAccounted, AcceptFails
  <1> QED  BY <1>2, <1>3, <1>4 DEF ListenerInv

\* A change of a handler that has been started leaves the backlog in order.
LEMMA BacklogKept ==
  ASSUME ListenerInv, NEW c \in Served, NEW to \in Alive \cup {"over"},
         handling' = [handling EXCEPT ![c] = to], backlog' = backlog
  PROVE  BacklogInv'
  <1>1. handling[c] # "none" /\ c \in Conn
    BY DEF Served
  <1>2. \A k \in 1 .. Len(backlog) : backlog[k] \in Conn
    BY DEF ListenerInv, ListenerTypeInv
  <1> QED  BY <1>1, <1>2 DEF ListenerInv, ListenerTypeInv, BacklogInv

LEMMA MovesInv ==
  ASSUME ListenerInv, NEW c \in Conn, NEW from \in Alive, NEW to \in Alive, Moves(c, from, to)
  PROVE  ListenerInv'
  <1>0. ListenerTypeInv /\ c \in Served /\ handling' = [handling EXCEPT ![c] = to]
    BY DEF ListenerInv, Moves, Served, Alive
  <1>1. Served' = Served
    BY <1>0, ServedSame, Zenon
  <1>2. ListenerTypeInv'
    BY <1>0 DEF ListenerTypeInv, Moves
  <1>3. BacklogInv'
    BY <1>0, BacklogKept, Zenon DEF Moves
  <1>4. PermitsAccounted'
    BY <1>1 DEF ListenerInv, PermitsAccounted, Moves
  <1> QED  BY <1>2, <1>3, <1>4 DEF ListenerInv

LEMMA EndsInv == ASSUME ListenerInv, NEW c \in Served, HandlerEnds(c) PROVE ListenerInv'
  <1>0. ListenerTypeInv /\ handling' = [handling EXCEPT ![c] = "over"] /\ c \in Conn
    BY DEF ListenerInv, HandlerEnds, Served
  <1>1. Cardinality(Served') = Cardinality(Served) - 1
    BY <1>0, ServedLess, Zenon
  <1>2. ListenerTypeInv'
    BY <1>0 DEF ListenerTypeInv, HandlerEnds
  <1>3. BacklogInv'
    BY <1>0, BacklogKept, Zenon DEF HandlerEnds
  <1>4. PermitsAccounted'
    BY <1>1, ServedFinite, PermitAssumption
    DEF ListenerInv, ListenerTypeInv, PermitsAccounted, HandlerEnds
  <1> QED  BY <1>2, <1>3, <1>4 DEF ListenerInv

LEMMA OtherInv ==
  ASSUME ListenerInv, \/ Run \/ Return \/ UNCHANGED listenerVars
              \/ \E c \in Conn : Hangup(c)
  PROVE  ListenerInv'
  <1>1. /\ handling' = handling /\ backlog' = backlog /\ permits' = permits
        /\ listener' \in {listener, "permit", "returned"}
        /\ (listener' = "accept") <=> (listener = "accept")
    BY DEF Run, Return, Hangup, listenerVars
  <1>2. Served' = Served
    BY <1>1 DEF Served
  <1>3. ListenerTypeInv'
    BY <1>1 DEF ListenerInv, ListenerTypeInv
  <1>4. BacklogInv'
    BY <1>1, Zenon DEF ListenerInv, BacklogInv
  <1>5. PermitsAccounted'
    BY <1>1, <1>2 DEF ListenerInv, PermitsAccounted
  <1> QED  BY <1>3, <1>4, <1>5 DEF ListenerInv

LEMMA ListenerStepInv == ASSUME ListenerInv, [ListenerNext]_listenerVars PROVE ListenerInv'
  <1>1. ASSUME NEW c \in Conn,
               Request(c) \/ WriteReply(c) \/ StartStream(c) \/ EndStream(c)
        PROVE  ListenerInv'
    BY <1>1, MovesInv DEF Request, WriteReply, StartStream, EndStream, Alive
  <1>2. ASSUME NEW c \in Conn, ConnLost(c) \/ Shutdown(c) PROVE ListenerInv'
    BY <1>2, EndsInv DEF ConnLost, Shutdown, Served
  <1> QED  BY <1>1, <1>2, DialInv, AcquireInv, AcceptInv, AcceptFailsInv, OtherInv
           DEF ListenerNext

\* On every path by which accept or a handler ends, its permit comes back, and
\* never twice (server.rs:126-172).
THEOREM PermitsNeverLost == ListenerSpec => []PermitsAccounted
  <1>1. ListenerInit => ListenerInv
    BY ListenerInitInv
  <1>2. ListenerInv /\ [ListenerNext]_listenerVars => ListenerInv'
    BY ListenerStepInv
  <1>3. ListenerInv => PermitsAccounted
    BY DEF ListenerInv
  <1> QED  BY <1>1, <1>2, <1>3, PTL DEF ListenerSpec

-----------------------------------------------------------------------------
(* ConFileStorage.                                                         *)

Rec == Entry \cup {Garbled}

StorageTypeInv ==
    /\ logs \in Seq(Rec) /\ log_disk \subseteq Rec
    /\ term \in Nat /\ meta \in Nat
    /\ last_persisted_log \in Nat
    /\ handled \in Nat /\ writeErrors \in Nat /\ torn \in Nat /\ synced \in Nat
    /\ saving \in {"idle", "flush", "write", "append", "down"}

\* Every record between the actor and the file was handed over: this is why
\* a restart finds no others.
RecordInv ==
    /\ batch \in Seq(log_disk) /\ buffer \in Seq(log_disk)
    /\ taken \in [Writers -> Seq(log_disk)]
    /\ file \in Seq(log_disk)

\* persist_state has a batch exactly while it is running, or was when the
\* process went down.
BatchInv ==
    /\ saving = "idle" => batch = <<>>
    /\ batch # <<>> => logs # <<>>
    /\ saving \in {"flush", "write", "append"} => batch # <<>>
    /\ taken[ActorTask] # <<>> => saving = "write"

StorageInv == StorageTypeInv /\ RecordInv /\ BatchInv /\ MetadataCacheRight

-----------------------------------------------------------------------------
(* Sequences.                                                              *)

LEMMA SeqGrows ==
  ASSUME NEW S, NEW T, S \subseteq T, NEW s \in Seq(S) PROVE s \in Seq(T)
  OBVIOUS

LEMMA SubSeqIn ==
  ASSUME NEW S, NEW s \in Seq(S), NEW m \in Nat, m <= Len(s)
  PROVE  SubSeq(s, 1, m) \in Seq(S)
  OBVIOUS

LEMMA TailIn ==
  ASSUME NEW S, NEW s \in Seq(S), NEW m \in Nat \ {0}
  PROVE  SubSeq(s, m, Len(s)) \in Seq(S)
  OBVIOUS

LEMMA OfRange ==
  ASSUME NEW S, NEW s \in Seq(S), NEW T PROVE s \in Seq(T \cup Range(s))
  <1>1. \A i \in 1 .. Len(s) : s[i] \in Range(s)
    BY DEF Range
  <1> QED  BY <1>1

LEMMA RangeIn ==
  ASSUME NEW S, NEW s \in Seq(S) PROVE Range(s) \subseteq S
  BY DEF Range

LEMMA UnsavedIn ==
  ASSUME NEW l \in Seq(Rec), NEW last \in Nat
  PROVE  /\ Unsaved(l, last) \in Seq(Rec)
         /\ Unsaved(l, last) # <<>> => l # <<>>
  <1>1. last + 2 \in Nat \ {0}
    OBVIOUS
  <1>2. SubSeq(l, last + 2, Len(l)) \in Seq(Rec)
    BY <1>1, TailIn
  <1>3. l = <<>> => SubSeq(l, last + 2, Len(l)) = <<>>
    OBVIOUS
  <1> QED  BY <1>2, <1>3 DEF Unsaved

LEMMA Numbers == MaxHandled \in Nat /\ Torn \notin Rec /\ NoMeta \notin Nat
  BY BoundAssumption DEF Torn, Rec, Entry, Garbled, NoMeta

-----------------------------------------------------------------------------
(* The refinement, while nothing fails.                                    *)

NoFaults == MaxWriteErrors = 0 /\ MaxTorn = 0

LEMMA StorageInitInv == ASSUME StorageInit PROVE StorageInv
  <1>1. StorageTypeInv
    BY DEF StorageInit, StorageTypeInv
  <1>2. RecordInv
    BY DEF StorageInit, RecordInv
  <1>3. BatchInv
    BY DEF StorageInit, BatchInv, Writers
  <1>4. MetadataCacheRight
    BY DEF StorageInit, MetadataCacheRight
  <1> QED  BY <1>1, <1>2, <1>3, <1>4 DEF StorageInv

\* Without failed writes, store leaves the term and vote it was given in the
\* file, also when it skips the write.
LEMMA Stored ==
  ASSUME NoFaults, StorageInv, NEW m \in Nat, Store(m)
  PROVE  meta' = m /\ last_metadata' = m /\ writeErrors' = writeErrors
  <1>1. ~(writeErrors < MaxWriteErrors)
    BY DEF NoFaults, StorageInv, StorageTypeInv
  <1>2. CASE last_metadata = m /\ UNCHANGED <<meta, last_metadata, writeErrors>>
    BY <1>2, Numbers DEF StorageInv, MetadataCacheRight
  <1> QED  BY <1>1, <1>2 DEF Store

LEMMA PersistStep ==
  ASSUME NoFaults, StorageInv, NEW l \in Seq(Rec), NEW m \in Nat, Persist(l, m)
  PROVE  StorageInv' /\ Device!Persist
  <1>1. meta' = m /\ last_metadata' = m /\ writeErrors' = writeErrors
    BY Stored DEF Persist
  <1>2. last_persisted_log \in Nat /\ saving = "idle" /\ batch = <<>>
    BY Zenon DEF StorageInv, StorageTypeInv, BatchInv, Persist
  <1>3. /\ batch' = Unsaved(l, last_persisted_log) /\ logs' = l
        /\ log_disk' = log_disk \cup Range(batch') /\ log_disk \subseteq Rec
    BY DEF Persist, StorageInv, StorageTypeInv
  <1>4. batch' \in Seq(Rec) /\ (batch' # <<>> => logs' # <<>>)
    BY <1>2, <1>3, UnsavedIn
  <1>5. StorageTypeInv'
    <2>1. log_disk' \subseteq Rec
      BY <1>3, <1>4, RangeIn
    <2>2. saving' \in {"idle", "flush", "append"}
      BY DEF Persist
    <2> QED  BY <1>1, <1>3, <2>1, <2>2 DEF StorageTypeInv, StorageInv, Persist
  <1>6. RecordInv'
    <2>1. batch' \in Seq(log_disk')
      BY <1>3, <1>4, OfRange, Zenon
    <2>2. log_disk \subseteq log_disk'
      BY <1>3
    <2>3. buffer \in Seq(log_disk') /\ file \in Seq(log_disk')
      BY <2>2, SeqGrows DEF StorageInv, RecordInv
    <2>4. taken \in [Writers -> Seq(log_disk')]
      BY <2>2, SeqGrows DEF StorageInv, RecordInv
    <2> QED  BY <2>1, <2>3, <2>4 DEF RecordInv, Persist, writerVars
  <1>7. BatchInv'
    <2>1. taken' = taken /\ taken[ActorTask] = <<>>
      BY <1>2, Zenon DEF StorageInv, BatchInv, Persist, writerVars
    <2>2. (saving' = "idle" <=> batch' = <<>>) /\ saving' \in {"idle", "flush", "append"}
      BY DEF Persist
    <2> QED  BY <1>4, <2>1, <2>2 DEF BatchInv
  <1>8. MetadataCacheRight'
    BY <1>1 DEF MetadataCacheRight
  <1>9. Device!Persist
    <2>1. Device!Unsaved(logs', last_persisted_log) = batch'
      BY <1>3 DEF Device!Unsaved, Unsaved
    <2>2. last_persisted_log' = last_persisted_log /\ term' = m
      BY DEF Persist
    <2> QED  BY <1>1, <1>2, <1>3, <2>1, <2>2 DEF Device!Persist, Device!Range, Range, Rec
  <1> QED  BY <1>5, <1>6, <1>7, <1>8, <1>9, SMTT(20) DEF StorageInv

LEMMA HandlerStep ==
  ASSUME NoFaults, StorageInv,
         PersistTerm \/ PersistAppend \/ \E k \in 0 .. Len(logs) - 1 : PersistSplice(k)
  PROVE  StorageInv' /\ Device!Persist
  <1>1. logs \in Seq(Rec) /\ term \in Nat /\ term + 1 \in Nat /\ handled \in Nat
    BY DEF StorageInv, StorageTypeInv
  <1>2. handled < MaxHandled => handled + 1 \in Rec
    BY <1>1, Numbers DEF Rec, Entry
  <1>3. CASE PersistTerm
    <2>1. PICK m \in {term, term + 1} : Persist(logs, m)
      BY <1>3 DEF PersistTerm
    <2> QED  BY <1>1, <2>1, PersistStep
  <1>4. CASE PersistAppend
    <2>1. Persist(Append(logs, handled + 1), term)
      BY <1>4 DEF PersistAppend
    <2>2. handled < MaxHandled
      BY <2>1, Zenon DEF Persist
    <2>3. Append(logs, handled + 1) \in Seq(Rec)
      BY <1>1, <1>2, <2>2
    <2> QED  BY <1>1, <2>1, <2>3, PersistStep, Zenon
  <1>5. ASSUME NEW k \in 0 .. Len(logs) - 1, PersistSplice(k)
        PROVE  StorageInv' /\ Device!Persist
    <2>1. Persist(Append(SubSeq(logs, 1, k), handled + 1), term)
      BY <1>5 DEF PersistSplice
    <2>2. handled < MaxHandled
      BY <2>1 DEF Persist
    <2>3. SubSeq(logs, 1, k) \in Seq(Rec)
      BY <1>1, SubSeqIn
    <2>4. Append(SubSeq(logs, 1, k), handled + 1) \in Seq(Rec)
      BY <1>2, <2>2, <2>3
    <2> QED  BY <1>1, <2>1, <2>4, PersistStep, Zenon
  <1> QED  BY <1>3, <1>4, <1>5

LEMMA AppendBatchStep == ASSUME StorageInv, AppendBatch PROVE StorageInv' /\ UNCHANGED Device!storeVars
  <1>1. /\ batch # <<>> /\ logs # <<>> /\ logs \in Seq(Rec)
        /\ batch \in Seq(log_disk) /\ buffer \in Seq(log_disk)
    BY DEF StorageInv, StorageTypeInv, BatchInv, RecordInv, AppendBatch
  <1>2. Len(logs) - 1 \in Nat
    BY <1>1
  <1>3. /\ logs' = logs /\ term' = term /\ meta' = meta /\ log_disk' = log_disk
        /\ last_persisted_log' = Len(logs) - 1 /\ batch' = <<>> /\ saving' = "idle"
        /\ buffer' = buffer \o batch /\ taken' = taken /\ file' = file
        /\ last_metadata' = last_metadata /\ synced' = synced
        /\ handled' = handled /\ writeErrors' = writeErrors /\ torn' = torn
    BY DEF AppendBatch, diskVars, counters
  <1>4. StorageTypeInv'
    BY <1>2, <1>3 DEF StorageInv, StorageTypeInv
  <1>5. RecordInv'
    BY <1>1, <1>3 DEF StorageInv, RecordInv
  <1>6. BatchInv'
    BY <1>3, Zenon DEF StorageInv, BatchInv, AppendBatch
  <1>7. MetadataCacheRight'
    BY <1>3 DEF StorageInv, MetadataCacheRight
  <1>8. UNCHANGED Device!storeVars
    BY <1>1, <1>3 DEF Device!storeVars
  <1> QED  BY <1>4, <1>5, <1>6, <1>7, <1>8, SMTT(20) DEF StorageInv

LEMMA TakeBufferStep ==
  ASSUME StorageInv, ActorTake \/ FlusherTake PROVE StorageInv' /\ UNCHANGED Device!storeVars
  <1>1. /\ UNCHANGED <<logs, term, meta, log_disk, last_persisted_log, batch,
                       file, synced, last_metadata, handled, writeErrors, torn>>
        /\ buffer' = <<>>
    BY DEF ActorTake, FlusherTake, persistVars, diskVars, counters, history
  <1>2. taken' \in [Writers -> Seq(log_disk)]
    BY Zenon DEF StorageInv, RecordInv, ActorTake, FlusherTake
  <1>3. StorageTypeInv'
    BY <1>1 DEF StorageInv, StorageTypeInv, ActorTake, FlusherTake
  <1>4. RecordInv'
    BY <1>1, <1>2 DEF StorageInv, RecordInv
  <1>5. BatchInv'
    <2>1. taken \in [Writers -> Seq(log_disk)] /\ ActorTask # Flusher /\ ActorTask \in Writers
      BY SMTT(20) DEF StorageInv, RecordInv, ActorTask, Flusher, Writers
    <2>2. CASE ActorTake
      BY <1>1, <2>1, <2>2 DEF StorageInv, BatchInv, ActorTake
    <2>3. CASE FlusherTake
      BY <1>1, <2>1, <2>3, Zenon DEF StorageInv, BatchInv, FlusherTake
    <2> QED  BY <2>2, <2>3
  <1>6. MetadataCacheRight'
    BY <1>1 DEF StorageInv, MetadataCacheRight
  <1>7. UNCHANGED Device!storeVars
    BY <1>1 DEF Device!storeVars
  <1> QED  BY <1>3, <1>4, <1>5, <1>6, <1>7, SMTT(20) DEF StorageInv

LEMMA WriteStep ==
  ASSUME StorageInv, NEW w \in Writers, Write(w) PROVE StorageInv' /\ UNCHANGED Device!storeVars
  <1>1. /\ UNCHANGED <<logs, term, meta, log_disk, last_persisted_log, batch,
                       buffer, last_metadata, handled, writeErrors, torn>>
        /\ taken' = [taken EXCEPT ![w] = <<>>] /\ file' = file \o taken[w]
        /\ synced' = IF flushes = 0 THEN Len(file') ELSE synced
    BY DEF Write, persistVars, counters, history
  <1>2. /\ taken \in [Writers -> Seq(log_disk)] /\ taken[w] \in Seq(log_disk)
        /\ file \in Seq(log_disk)
    BY DEF StorageInv, RecordInv
  <1>3. file' \in Seq(log_disk) /\ Len(file') \in Nat
    BY <1>1, <1>2
  <1>4. StorageTypeInv'
    BY <1>1, <1>3, Zenon DEF StorageInv, StorageTypeInv, Write
  <1>5. RecordInv'
    BY <1>1, <1>2, <1>3 DEF StorageInv, RecordInv
  <1>6. BatchInv'
    <2>1. w = ActorTask => saving = "write"
      BY DEF StorageInv, BatchInv, Write
    <2>2. ActorTask \in Writers
      BY DEF Writers
    <2> QED  BY <1>1, <1>2, <2>1, <2>2, Zenon DEF StorageInv, BatchInv, Write
  <1>7. MetadataCacheRight'
    BY <1>1 DEF StorageInv, MetadataCacheRight
  <1>8. UNCHANGED Device!storeVars
    BY <1>1 DEF Device!storeVars
  <1> QED  BY <1>4, <1>5, <1>6, <1>7, <1>8, SMTT(20) DEF StorageInv

LEMMA CrashStep == ASSUME NoFaults, StorageInv, StorageCrash PROVE StorageInv' /\ UNCHANGED Device!storeVars
  <1>1. /\ UNCHANGED <<logs, term, meta, log_disk, last_persisted_log, batch,
                       handled, writeErrors>>
        /\ saving' = "down" /\ buffer' = <<>> /\ taken' = [w \in Writers |-> <<>>]
        /\ last_metadata' = NoMeta /\ synced' = Len(file')
    BY DEF StorageCrash, persistVars, history
  <1>2. ~(torn < MaxTorn) /\ synced \in Nat /\ torn \in Nat
    BY DEF NoFaults, StorageInv, StorageTypeInv
  <1>3. PICK w \in Writers : \E k \in 0 .. Len(taken[w]) :
            LET full == file \o SubSeq(taken[w], 1, k)
            IN  \E m \in synced .. Len(full) :
                   file' = SubSeq(full, 1, m) /\ UNCHANGED torn
    BY <1>2, Zenon DEF StorageCrash
  <1>4. PICK k \in 0 .. Len(taken[w]) :
            \E m \in synced .. Len(file \o SubSeq(taken[w], 1, k)) :
                /\ file' = SubSeq(file \o SubSeq(taken[w], 1, k), 1, m)
                /\ UNCHANGED torn
    BY <1>3
  <1>5. taken[w] \in Seq(log_disk) /\ file \in Seq(log_disk)
    BY DEF StorageInv, RecordInv
  <1>6. SubSeq(taken[w], 1, k) \in Seq(log_disk)
    BY <1>5, SubSeqIn
  <1>7. file \o SubSeq(taken[w], 1, k) \in Seq(log_disk)
    BY <1>5, <1>6
  <1>8. file' \in Seq(log_disk) /\ torn' = torn
    BY <1>2, <1>4, <1>7, SubSeqIn, SMTT(20)
  <1>9. StorageTypeInv'
    BY <1>1, <1>8 DEF StorageInv, StorageTypeInv
  <1>10. RecordInv'
    BY <1>1, <1>8, SMTT(20) DEF StorageInv, RecordInv
  <1>11. BatchInv'
    BY <1>1 DEF StorageInv, BatchInv, Writers
  <1>12. MetadataCacheRight'
    BY <1>1 DEF MetadataCacheRight
  <1>13. UNCHANGED Device!storeVars
    BY <1>1 DEF Device!storeVars
  <1> QED  BY <1>9, <1>10, <1>11, <1>12, <1>13, SMTT(20) DEF StorageInv

\* A file without a torn record is read as it is.
LEMMA Reads == ASSUME StorageInv PROVE ~Misread(file) /\ Readable(file) = file
  <1>1. file \in Seq(log_disk) /\ log_disk \subseteq Rec
    BY DEF StorageInv, RecordInv, StorageTypeInv
  <1>2. \A i \in DOMAIN file : file[i] # Torn
    BY <1>1, Numbers
  <1> QED  BY <1>2 DEF Misread, Readable, TornAt

LEMMA StartStep == ASSUME StorageInv, StorageStart \/ StartUnreadable PROVE StorageInv' /\ Device!Restart
  <1>0. StorageStart
    BY Reads DEF StartUnreadable
  <1>1. /\ UNCHANGED <<meta, log_disk, buffer, taken, file, synced, last_metadata,
                       handled, writeErrors, torn>>
        /\ saving = "down" /\ saving' = "idle" /\ batch' = <<>> /\ term' = meta
        /\ last_persisted_log' = IF logs' = <<>> THEN 0 ELSE Len(logs') - 1
    BY <1>0, Zenon DEF StorageStart, writerVars, diskVars, counters
  <1>2. logs' \in Reordered(file)
    BY <1>0, Reads DEF StorageStart
  <1>3. PICK p \in [1 .. Len(file) -> 1 .. Len(file)] :
            logs' = [i \in 1 .. Len(file) |-> file[p[i]]]
    BY <1>2, Zenon DEF Reordered
  <1>4. file \in Seq(log_disk) /\ log_disk \subseteq Rec
    BY DEF StorageInv, RecordInv, StorageTypeInv
  <1>5. \A i \in 1 .. Len(file) : file[p[i]] \in log_disk
    BY <1>4
  <1>6. logs' \in Seq(log_disk)
    BY <1>3, <1>4, <1>5
  <1>7. logs' \in Seq(Rec)
    BY <1>4, <1>6, SeqGrows
  <1>8. last_persisted_log' \in Nat
    BY <1>1, <1>7
  <1>9. StorageTypeInv'
    BY <1>1, <1>7, <1>8, SMTT(20) DEF StorageInv, StorageTypeInv
  <1>10. RecordInv'
    BY <1>1 DEF StorageInv, RecordInv
  <1>11. BatchInv'
    BY <1>1, Zenon DEF StorageInv, BatchInv
  <1>12. MetadataCacheRight'
    BY <1>1 DEF StorageInv, MetadataCacheRight
  <1>13. Device!Restart
    BY <1>1, <1>6 DEF Device!Restart
  <1> QED  BY <1>9, <1>10, <1>11, <1>12, <1>13, SMTT(20) DEF StorageInv

LEMMA Refines ==
  ASSUME NoFaults, StorageInv, [StorageNext]_storageVars
  PROVE  StorageInv' /\ [Device!Move]_Device!storeVars
  <1>1. CASE UNCHANGED storageVars
    BY <1>1, Zenon DEF StorageInv, StorageTypeInv, RecordInv, BatchInv, MetadataCacheRight, Device!storeVars,
                storageVars, persistVars, writerVars, diskVars, counters, history
  <1>2. ASSUME NEW w \in Writers, WriteFails(w) PROVE FALSE
    BY <1>2 DEF WriteFails, NoFaults, StorageInv, StorageTypeInv
  <1>3. CASE StorageNext
    BY <1>2, <1>3, HandlerStep, AppendBatchStep, TakeBufferStep, WriteStep, CrashStep,
       StartStep DEF StorageNext, Device!Move
  <1> QED  BY <1>1, <1>3

Calm == writeErrors = 0 /\ torn = 0

LEMMA CalmStep == ASSUME NoFaults, Calm, [StorageNext]_storageVars PROVE Calm'
  <1>0. ~(writeErrors < MaxWriteErrors) /\ ~(torn < MaxTorn)
    BY DEF NoFaults, Calm
  <1>1. ASSUME NEW l, NEW m, Persist(l, m) PROVE Calm'
    BY <1>0, <1>1 DEF Persist, Store, Calm
  <1>2. CASE PersistTerm \/ PersistAppend
             \/ \E k \in 0 .. Len(logs) - 1 : PersistSplice(k)
    BY <1>1, <1>2 DEF PersistTerm, PersistAppend, PersistSplice
  <1>3. CASE StorageCrash
    BY <1>0, <1>3 DEF StorageCrash, Calm
  <1>4. CASE \/ AppendBatch \/ ActorTake \/ FlusherTake \/ StorageStart
             \/ StartUnreadable \/ UNCHANGED storageVars
             \/ \E w \in Writers : Write(w)
    BY <1>4, Zenon DEF AppendBatch, ActorTake, FlusherTake, StorageStart, StartUnreadable,
                Write, storageVars, counters, Calm
  <1>5. ASSUME NEW w \in Writers PROVE ~WriteFails(w)
    BY <1>0 DEF WriteFails
  <1> QED  BY <1>2, <1>3, <1>4, <1>5 DEF StorageNext

\* While writes succeed and no record is torn, the storage gives the Raft
\* engine what RaftLog assumes: the term and vote saved last, and a log made
\* of records that were handed over (storage/consensus.rs, restore_state).
THEOREM StorageRefines ==
  ASSUME NoFaults PROVE StorageSpec => ImplementsLogStore
  <1>1. StorageInit => StorageInv /\ Calm /\ Device!Init
    <2>1. StorageInit => Calm
      BY DEF StorageInit, Calm
    <2>2. StorageInit => Device!Init
      BY DEF StorageInit, Device!Init, broken
    <2> QED  BY <2>1, <2>2, StorageInitInv
  <1>2. StorageInv /\ Calm /\ [StorageNext]_storageVars
           => StorageInv' /\ Calm' /\ [Device!Next]_Device!vars
    <2>1. Calm /\ Calm' => broken' = broken
      BY DEF Calm, broken
    <2> QED  BY <2>1, Refines, CalmStep DEF Device!Next, Device!vars
  <1> QED  BY <1>1, <1>2, PTL DEF StorageSpec, ImplementsLogStore, Device!Spec

-----------------------------------------------------------------------------

\* Whatever write fails and whenever the process crashes, the store never
\* skips a write because LAST_METADATA is ahead of the file
\* (storage/consensus.rs:105-139).
THEOREM MetadataCached == StorageSpec => []MetadataCacheRight
  <1>1. StorageInit => MetadataCacheRight
    BY DEF StorageInit, MetadataCacheRight
  <1>2. ASSUME MetadataCacheRight, [StorageNext]_storageVars PROVE MetadataCacheRight'
    <2>1. ASSUME NEW m, Store(m) PROVE MetadataCacheRight'
      BY <1>2, <2>1 DEF Store, MetadataCacheRight
    <2>2. CASE PersistTerm \/ PersistAppend
               \/ \E k \in 0 .. Len(logs) - 1 : PersistSplice(k)
      BY <2>1, <2>2, Zenon DEF PersistTerm, PersistAppend, PersistSplice, Persist
    <2>3. CASE StorageCrash
      BY <2>3 DEF StorageCrash, MetadataCacheRight
    <2>4. CASE \/ AppendBatch \/ ActorTake \/ FlusherTake \/ StorageStart
               \/ StartUnreadable \/ UNCHANGED storageVars
               \/ \E w \in Writers : Write(w) \/ WriteFails(w)
      <3>1. UNCHANGED <<meta, last_metadata>>
        BY <2>4, Zenon DEF AppendBatch, ActorTake, FlusherTake, StorageStart, StartUnreadable,
                    Write, WriteFails, storageVars, diskVars
      <3> QED  BY <1>2, <3>1 DEF MetadataCacheRight
    <2> QED  BY <1>2, <2>2, <2>3, <2>4 DEF StorageNext
  <1> QED  BY <1>1, <1>2, PTL DEF StorageSpec

-----------------------------------------------------------------------------
(* FlatIndex.                                                              *)

IndexInv ==
    /\ ids \in Seq(Ids) /\ vecs \in Seq(Vecs) /\ Len(vecs) = Len(ids)
    /\ deletes \in Nat /\ idset \in [DOMAIN idset -> Nat]
    /\ RowsRight

LEMMA SeqAdd ==
  ASSUME NEW S, NEW q \in Seq(S), NEW e \in S
  PROVE  /\ Append(q, e) \in Seq(S) /\ Len(Append(q, e)) = Len(q) + 1 /\ Len(q) \in Nat
         /\ \A k \in 1 .. Len(q) : Append(q, e)[k] = q[k]
         /\ Append(q, e)[Len(q) + 1] = e
         /\ \A k \in 1 .. Len(q) + 1 : k \in 1 .. Len(q) \/ k = Len(q) + 1
  OBVIOUS

\* The ids of the rows.
LEMMA RowIds ==
  ASSUME NEW S, NEW s \in Seq(S)
  PROVE  /\ Len(s) \in Nat /\ DOMAIN s = 1 .. Len(s) /\ \A i \in 1 .. Len(s) : s[i] \in S
         /\ \A x : x \in Range(s) <=> \E i \in 1 .. Len(s) : s[i] = x
  <1>1. Len(s) \in Nat /\ DOMAIN s = 1 .. Len(s) /\ \A i \in 1 .. Len(s) : s[i] \in S
    OBVIOUS
  <1> QED  BY <1>1, Zenon DEF Range

LEMMA IndexInitInv == ASSUME IndexInit PROVE IndexInv
  <1>1. /\ <<>> \in Seq(Ids) /\ <<>> \in Seq(Vecs) /\ DOMAIN <<>> = {} /\ Len(<<>>) = 0
        /\ 0 \in Nat /\ "no" # "insert" /\ \A i : i \notin 1 .. 0
    OBVIOUS
  <1>2. <<>> \in [DOMAIN <<>> -> Nat]
    BY <1>1
  <1>3. Range(<<>>) = {} /\ IsInjective(<<>>)
    BY <1>1, Zenon DEF Range, IsInjective
  <1>4. RowsRight
    BY <1>1, <1>3, Zenon DEF RowsRight, IndexInit
  <1> QED  BY <1>1, <1>2, <1>4, Zenon DEF IndexInv, IndexInit

LEMMA InsertOverInv ==
  ASSUME IndexInv, NEW id \in Ids, NEW v \in Vecs, InsertOver(id, v) PROVE IndexInv'
  <1>1. /\ ids \in Seq(Ids) /\ vecs \in Seq(Vecs) /\ Len(vecs) = Len(ids)
        /\ deletes \in Nat /\ idset \in [DOMAIN idset -> Nat]
        /\ IsInjective(ids) /\ DOMAIN idset = Range(ids) /\ DOMAIN lastVec = Range(ids)
    BY Zenon DEF IndexInv, RowsRight
  <1>2. /\ id \in DOMAIN idset /\ ids' = ids /\ idset' = idset /\ deletes' = deletes
    BY Zenon DEF InsertOver
  <1>3. PICK q \in 1 .. Len(ids) : ids[q] = id
    BY <1>1, <1>2, RowIds, Zenon
  <1>4. idset[id] \in Nat /\ Len(ids) \in Nat /\ DOMAIN ids = 1 .. Len(ids)
    <2>1. Len(ids) \in Nat /\ DOMAIN ids = 1 .. Len(ids)
      BY <1>1, RowIds, Zenon
    <2> QED  BY <1>1, <1>2, <2>1, Zenon
  <1>5. ASSUME deletes = 0
        PROVE  /\ panicked # "insert" /\ idset[id] = q - 1 /\ idset[id] < Len(vecs)
               /\ idset[id] + 1 = q
               /\ \A i \in 1 .. Len(ids) : idset[ids[i]] = i - 1 /\ vecs[i] = lastVec[ids[i]]
    <2>1. /\ panicked # "insert" /\ idset[id] = q - 1
          /\ \A i \in 1 .. Len(ids) : idset[ids[i]] = i - 1 /\ vecs[i] = lastVec[ids[i]]
      BY <1>3, <1>5, Zenon DEF IndexInv, RowsRight
    <2>2. idset[id] < Len(vecs) /\ idset[id] + 1 = q
      BY <1>1, <1>4, <2>1
    <2> QED  BY <2>1, <2>2, Zenon
  <1>6. CASE idset[id] < Len(vecs)
    <2>1. /\ vecs' = [vecs EXCEPT ![idset[id] + 1] = v]
          /\ lastVec' = [lastVec EXCEPT ![id] = v] /\ panicked' = panicked
      BY <1>6, Zenon DEF InsertOver
    <2>2. idset[id] + 1 \in 1 .. Len(vecs)
      BY <1>1, <1>4, <1>6
    <2>3. /\ vecs' \in Seq(Vecs) /\ Len(vecs') = Len(vecs)
          /\ vecs'[idset[id] + 1] = v
          /\ \A i \in 1 .. Len(vecs) : i # idset[id] + 1 => vecs'[i] = vecs[i]
      BY <1>1, <2>1, <2>2
    <2>4. /\ DOMAIN lastVec' = DOMAIN lastVec /\ lastVec'[id] = v
          /\ \A x \in DOMAIN lastVec : x # id => lastVec'[x] = lastVec[x]
      BY <1>1, <1>2, <2>1, Zenon
    <2>5. ASSUME deletes = 0, NEW i \in 1 .. Len(ids)
          PROVE  vecs'[i] = lastVec'[ids[i]]
      <3>1. CASE i = q
        BY <1>3, <1>5, <2>3, <2>4, <2>5, <3>1, Zenon
      <3>2. CASE i # q
        <4>1. ids[i] # id /\ ids[i] \in DOMAIN lastVec
          BY <1>1, <1>3, <1>4, <3>2, RowIds, Zenon DEF IsInjective
        <4>2. vecs'[i] = vecs[i]
          BY <1>1, <1>5, <2>3, <2>5, <3>2, Zenon
        <4> QED  BY <1>5, <2>4, <2>5, <4>1, <4>2, Zenon
      <3> QED  BY <3>1, <3>2, Zenon
    <2>6. RowsRight'
      BY <1>1, <1>2, <1>5, <2>1, <2>4, <2>5, Zenon DEF RowsRight
    <2> QED  BY <1>1, <1>2, <2>3, <2>6, Zenon DEF IndexInv
  <1>7. CASE ~(idset[id] < Len(vecs))
    <2>1. vecs' = vecs /\ lastVec' = lastVec
      BY <1>7, Zenon DEF InsertOver
    <2>2. deletes # 0
      BY <1>5, <1>7, Zenon
    <2> QED  BY <1>1, <1>2, <2>1, <2>2, Zenon DEF IndexInv, RowsRight
  <1> QED  BY <1>6, <1>7

LEMMA InsertNewInv ==
  ASSUME IndexInv, NEW id \in Ids, NEW v \in Vecs, InsertNew(id, v) PROVE IndexInv'
  <1>1. /\ ids \in Seq(Ids) /\ vecs \in Seq(Vecs) /\ Len(vecs) = Len(ids)
        /\ deletes \in Nat /\ idset \in [DOMAIN idset -> Nat]
        /\ IsInjective(ids) /\ DOMAIN idset = Range(ids) /\ DOMAIN lastVec = Range(ids)
    BY Zenon DEF IndexInv, RowsRight
  <1>2. /\ id \notin DOMAIN idset /\ vecs' = Append(vecs, v) /\ ids' = Append(ids, id)
        /\ idset' = [i \in DOMAIN idset \cup {id} |-> IF i = id THEN Len(ids) ELSE idset[i]]
        /\ lastVec' = [i \in DOMAIN lastVec \cup {id} |-> IF i = id THEN v ELSE lastVec[i]]
        /\ panicked' = panicked /\ deletes' = deletes
    BY Zenon DEF InsertNew
  <1>3. /\ ids' \in Seq(Ids) /\ Len(ids') = Len(ids) + 1 /\ Len(ids) \in Nat
        /\ \A k \in 1 .. Len(ids) : ids'[k] = ids[k]
        /\ ids'[Len(ids) + 1] = id
        /\ \A k \in 1 .. Len(ids) + 1 : k \in 1 .. Len(ids) \/ k = Len(ids) + 1
    BY <1>1, <1>2, SeqAdd, SMTT(20)
  <1>4. /\ vecs' \in Seq(Vecs) /\ Len(vecs') = Len(ids) + 1
        /\ \A k \in 1 .. Len(ids) : vecs'[k] = vecs[k]
        /\ vecs'[Len(ids) + 1] = v
    BY <1>1, <1>2, SeqAdd
  <1>5. /\ DOMAIN ids' = 1 .. Len(ids) + 1 /\ DOMAIN ids = 1 .. Len(ids)
        /\ \A x : x \in Range(ids) <=> \E i \in 1 .. Len(ids) : ids[i] = x
        /\ \A x : x \in Range(ids') <=> \E i \in 1 .. Len(ids) + 1 : ids'[i] = x
    <2>1. /\ DOMAIN ids = 1 .. Len(ids)
          /\ \A x : x \in Range(ids) <=> \E i \in 1 .. Len(ids) : ids[i] = x
      BY <1>1, RowIds, Zenon
    <2>2. /\ DOMAIN ids' = 1 .. Len(ids')
          /\ \A x : x \in Range(ids') <=> \E i \in 1 .. Len(ids') : ids'[i] = x
      BY <1>3, RowIds, Zenon
    <2> QED  BY <1>3, <2>1, <2>2, Zenon
  <1>6. /\ Len(ids) + 1 \in 1 .. Len(ids) + 1 /\ (Len(ids) + 1) - 1 = Len(ids)
        /\ \A k \in 1 .. Len(ids) : k \in 1 .. Len(ids) + 1
    BY <1>3
  <1>7. Range(ids') = Range(ids) \cup {id}
    <2>1. \A x \in Range(ids') : x \in Range(ids) \/ x = id
      BY <1>3, <1>5, Zenon
    <2>2. \A x \in Range(ids) : x \in Range(ids')
      BY <1>3, <1>5, <1>6, Zenon
    <2>3. id \in Range(ids')
      BY <1>3, <1>5, <1>6, Zenon
    <2> QED  BY <2>1, <2>2, <2>3, Zenon
  <1>8. IsInjective(ids')
    <2>1. \A k \in 1 .. Len(ids) : ids[k] # id
      BY <1>1, <1>2, <1>5, Zenon
    <2>2. \A a, b \in 1 .. Len(ids) : ids[a] = ids[b] => a = b
      BY <1>1, <1>5, Zenon DEF IsInjective
    <2>3. \A a, b \in 1 .. Len(ids) + 1 : ids'[a] = ids'[b] => a = b
      BY <1>3, <2>1, <2>2, Zenon
    <2> QED  BY <1>5, <2>3, Zenon DEF IsInjective
  <1>9. /\ DOMAIN idset' = Range(ids') /\ DOMAIN lastVec' = Range(ids')
        /\ idset'[id] = Len(ids) /\ lastVec'[id] = v
        /\ \A x \in Range(ids) : idset'[x] = idset[x] /\ lastVec'[x] = lastVec[x]
    <2>1. \A x \in Range(ids) : x # id
      BY <1>1, <1>2, Zenon
    <2>2. DOMAIN idset' = Range(ids') /\ DOMAIN lastVec' = Range(ids')
      BY <1>1, <1>2, <1>7, Zenon
    <2>3. idset'[id] = Len(ids) /\ \A x \in Range(ids) : idset'[x] = idset[x]
      BY <1>1, <1>2, <2>1, Zenon
    <2>4. lastVec'[id] = v /\ \A x \in Range(ids) : lastVec'[x] = lastVec[x]
      BY <1>1, <1>2, <2>1, Zenon
    <2> QED  BY <2>2, <2>3, <2>4, Zenon
  <1>10. idset' \in [DOMAIN idset' -> Nat]
    <2>1. \A x \in DOMAIN idset : idset[x] \in Nat
      BY <1>1, Zenon
    <2>2. \A x \in DOMAIN idset \cup {id} : (IF x = id THEN Len(ids) ELSE idset[x]) \in Nat
      BY <1>3, <2>1, Zenon
    <2> QED  BY <1>2, <2>2, Zenon
  <1>11. ASSUME deletes = 0, NEW i \in 1 .. Len(ids')
         PROVE  idset'[ids'[i]] = i - 1 /\ vecs'[i] = lastVec'[ids'[i]]
    <2>1. CASE i = Len(ids) + 1
      BY <1>3, <1>4, <1>6, <1>9, <2>1, Zenon
    <2>2. CASE i \in 1 .. Len(ids)
      <3>1. idset[ids[i]] = i - 1 /\ vecs[i] = lastVec[ids[i]]
        BY <1>11, <2>2, Zenon DEF IndexInv, RowsRight
      <3>2. ids[i] \in Range(ids) /\ ids'[i] = ids[i]
        BY <1>3, <1>5, <2>2, Zenon
      <3> QED  BY <1>4, <1>9, <2>2, <3>1, <3>2, Zenon
    <2> QED  BY <1>3, <2>1, <2>2, Zenon
  <1>12. RowsRight'
    <2>1. deletes = 0 => panicked # "insert"
      BY Zenon DEF IndexInv, RowsRight
    <2> QED  BY <1>2, <1>8, <1>9, <1>11, <2>1, Zenon DEF RowsRight
  <1> QED  BY <1>1, <1>2, <1>3, <1>4, <1>10, <1>12, Zenon DEF IndexInv

LEMMA AllButLast ==
  ASSUME NEW S, NEW u \in Seq(S), Len(u) >= 1
  PROVE  /\ SubSeq(u, 1, Len(u) - 1) \in Seq(S) /\ Len(SubSeq(u, 1, Len(u) - 1)) = Len(u) - 1
         /\ \A k \in 1 .. Len(u) - 1 : SubSeq(u, 1, Len(u) - 1)[k] = u[k]
  <1>1. PICK m \in Nat : m = Len(u) - 1
    OBVIOUS
  <1>2. Len(SubSeq(u, 1, m)) = m
    BY <1>1, SMTT(20)
  <1>3. \A k \in 1 .. m : SubSeq(u, 1, m)[k] = u[k]
    BY <1>1
  <1>4. SubSeq(u, 1, m) \in Seq(S)
    BY <1>1
  <1> QED  BY <1>1, <1>2, <1>3, <1>4, Zenon

\* The last element takes the place of one that leaves.
LEMMA SwapRemove ==
  ASSUME NEW S, NEW s \in Seq(S), NEW i \in 1 .. Len(s)
  PROVE  LET t == DropLast([s EXCEPT ![i] = s[Len(s)]])
         IN  /\ t \in Seq(S) /\ Len(t) = Len(s) - 1
             /\ \A k \in 1 .. Len(s) - 1 : t[k] = IF k = i THEN s[Len(s)] ELSE s[k]
  <1>1. Len(s) \in Nat /\ Len(s) >= 1
    OBVIOUS
  <1>2. s[Len(s)] \in S
    BY <1>1
  <1> DEFINE u == [s EXCEPT ![i] = s[Len(s)]]
  <1>3. u \in Seq(S) /\ Len(u) = Len(s) /\ \A k \in 1 .. Len(s) : u[k] = IF k = i THEN s[Len(s)] ELSE s[k]
    BY <1>2
  <1> HIDE DEF u
  <1>4. /\ SubSeq(u, 1, Len(u) - 1) \in Seq(S) /\ Len(SubSeq(u, 1, Len(u) - 1)) = Len(u) - 1
        /\ \A k \in 1 .. Len(u) - 1 : SubSeq(u, 1, Len(u) - 1)[k] = u[k]
    <2>1. u \in Seq(S) /\ Len(u) >= 1
      BY <1>1, <1>3, Zenon
    <2> QED  BY <2>1, AllButLast, Zenon
  <1>5. \A k \in 1 .. Len(s) - 1 : k \in 1 .. Len(s)
    BY <1>1
  <1>6. /\ DropLast(u) \in Seq(S) /\ Len(DropLast(u)) = Len(s) - 1
        /\ \A k \in 1 .. Len(s) - 1 : DropLast(u)[k] = IF k = i THEN s[Len(s)] ELSE s[k]
    BY <1>3, <1>4, <1>5, Zenon DEF DropLast
  <1> QED  BY <1>6, Zenon DEF u

\* Without the element at i, if no other is the same.
\* In t the last element of s stands at i.
Swapped(t, s, i) == \A k \in 1 .. Len(s) - 1 : t[k] = IF k = i THEN s[Len(s)] ELSE s[k]

LEMMA SwapRemoveOne ==
  ASSUME NEW S, NEW s \in Seq(S), NEW i \in 1 .. Len(s), IsInjective(s), NEW t \in Seq(S),
         Len(t) = Len(s) - 1, Swapped(t, s, i)
  PROVE  IsInjective(t) /\ Range(t) = Range(s) \ {s[i]}
  <1> DEFINE at(k) == IF k = i THEN Len(s) ELSE k
  <1>1. Len(s) \in Nat /\ DOMAIN s = 1 .. Len(s) /\ DOMAIN t = 1 .. Len(s) - 1
    BY RowIds, Zenon
  <1>2. \A a, b \in 1 .. Len(s) : s[a] = s[b] => a = b
    BY <1>1, Zenon DEF IsInjective
  <1>3. \A k \in 1 .. Len(s) - 1 : at(k) \in 1 .. Len(s) /\ at(k) # i /\ t[k] = s[at(k)]
    BY <1>1 DEF Swapped
  <1>4. \A k, l \in 1 .. Len(s) - 1 : at(k) = at(l) => k = l
    BY <1>1
  <1>5. \A k \in 1 .. Len(s) : k # i => \E l \in 1 .. Len(s) - 1 : at(l) = k
    <2> SUFFICES ASSUME NEW k \in 1 .. Len(s), k # i
                 PROVE  \E l \in 1 .. Len(s) - 1 : at(l) = k
      BY SMTT(20)
    <2>1. CASE k = Len(s)
      <3>1. i \in 1 .. Len(s) - 1 /\ at(i) = k
        BY <1>1, <2>1
      <3> QED  BY <3>1, Zenon
    <2>2. CASE k # Len(s)
      <3>1. k \in 1 .. Len(s) - 1 /\ at(k) = k
        BY <1>1, <2>2
      <3> QED  BY <3>1, Zenon
    <2> QED  BY <2>1, <2>2, SMTT(20)
  <1> HIDE DEF at
  <1>6. IsInjective(t)
    <2> SUFFICES ASSUME NEW k \in 1 .. Len(s) - 1, NEW l \in 1 .. Len(s) - 1, t[k] = t[l]
                 PROVE  k = l
      BY <1>1, Zenon DEF IsInjective
    <2>1. at(k) \in 1 .. Len(s) /\ at(l) \in 1 .. Len(s) /\ s[at(k)] = s[at(l)]
      BY <1>3, Zenon
    <2>2. at(k) = at(l)
      BY <1>2, <2>1, Zenon
    <2> QED  BY <1>4, <2>2, Zenon
  <1>7. /\ \A x : x \in Range(s) <=> \E k \in 1 .. Len(s) : s[k] = x
        /\ \A x : x \in Range(t) <=> \E k \in 1 .. Len(s) - 1 : t[k] = x
    BY <1>1, Zenon DEF Range
  <1>8. ASSUME NEW x \in Range(t) PROVE x \in Range(s) /\ x # s[i]
    <2>1. PICK k \in 1 .. Len(s) - 1 : t[k] = x
      BY <1>7, <1>8, Zenon
    <2>2. at(k) \in 1 .. Len(s) /\ at(k) # i /\ s[at(k)] = x
      BY <1>3, <2>1, Zenon
    <2> QED  BY <1>2, <1>7, <2>2, Zenon
  <1>9. ASSUME NEW x \in Range(s), x # s[i] PROVE x \in Range(t)
    <2>1. PICK k \in 1 .. Len(s) : s[k] = x
      BY <1>7, Zenon
    <2>2. PICK l \in 1 .. Len(s) - 1 : at(l) = k
      BY <1>5, <1>9, <2>1, Zenon
    <2> QED  BY <1>3, <1>7, <2>1, <2>2, Zenon
  <1> QED  BY <1>6, <1>8, <1>9, Zenon

LEMMA DeleteInv ==
  ASSUME IndexInv, NEW id \in Ids, DeleteRow(id) PROVE IndexInv'
  <1>1. /\ ids \in Seq(Ids) /\ vecs \in Seq(Vecs) /\ Len(vecs) = Len(ids)
        /\ deletes \in Nat /\ idset \in [DOMAIN idset -> Nat]
        /\ IsInjective(ids) /\ DOMAIN idset = Range(ids) /\ DOMAIN lastVec = Range(ids)
    BY Zenon DEF IndexInv, RowsRight
  <1> DEFINE Row(k) == ids[k] = id /\ \A m \in 1 .. k - 1 : ids[m] # id
             i == CHOOSE k \in 1 .. Len(ids) : Row(k)
  <1>2. /\ id \in Range(ids) /\ deletes' = deletes + 1
        /\ vecs' = DropLast([vecs EXCEPT ![i] = vecs[Len(vecs)]])
        /\ ids' = DropLast([ids EXCEPT ![i] = ids[Len(ids)]])
        /\ idset' = [j \in DOMAIN idset \ {id} |-> idset[j]]
        /\ lastVec' = [j \in DOMAIN lastVec \ {id} |-> lastVec[j]]
    BY Zenon DEF DeleteRow
  <1>3. Len(ids) \in Nat /\ DOMAIN ids = 1 .. Len(ids)
    BY <1>1, RowIds, Zenon
  <1>4. i \in 1 .. Len(ids) /\ ids[i] = id
    <2>1. PICK k \in 1 .. Len(ids) : ids[k] = id
      BY <1>1, <1>2, RowIds, Zenon
    <2>2. \A m \in 1 .. k - 1 : m \in 1 .. Len(ids) /\ m # k
      BY <1>3
    <2>3. Row(k)
      BY <1>1, <1>3, <2>1, <2>2, Zenon DEF IsInjective
    <2> QED  BY <2>3, Zenon
  <1> HIDE DEF i
  <1>5. /\ ids' \in Seq(Ids) /\ Len(ids') = Len(ids) - 1
        /\ \A k \in 1 .. Len(ids) - 1 : ids'[k] = IF k = i THEN ids[Len(ids)] ELSE ids[k]
    BY <1>1, <1>2, <1>4, SwapRemove, Zenon
  <1>6. vecs' \in Seq(Vecs) /\ Len(vecs') = Len(vecs) - 1
    BY <1>1, <1>2, <1>4, SwapRemove, Zenon
  <1>7. IsInjective(ids') /\ Range(ids') = Range(ids) \ {id}
    <2>1. IsInjective(ids') /\ Range(ids') = Range(ids) \ {ids[i]}
      <3>1. i \in 1 .. Len(ids) /\ ids \in Seq(Ids) /\ IsInjective(ids)
        BY <1>1, <1>4, Zenon
      <3>2. ids' \in Seq(Ids) /\ Len(ids') = Len(ids) - 1 /\ Swapped(ids', ids, i)
        BY <1>5, Zenon DEF Swapped
      <3> QED  BY <3>1, <3>2, SwapRemoveOne, Zenon
    <2> QED  BY <1>4, <2>1, Zenon
  <1>8. /\ DOMAIN idset' = DOMAIN idset \ {id} /\ DOMAIN lastVec' = DOMAIN lastVec \ {id}
        /\ idset' \in [DOMAIN idset' -> Nat]
    BY <1>1, <1>2, Zenon
  <1>9. deletes' \in Nat /\ deletes' # 0
    BY <1>1, <1>2
  <1>10. RowsRight'
    BY <1>1, <1>7, <1>8, <1>9, Zenon DEF RowsRight
  <1> QED  BY <1>1, <1>5, <1>6, <1>8, <1>9, <1>10, Zenon DEF IndexInv

LEMMA IndexStepInv == ASSUME IndexInv, [IndexNext]_indexVars PROVE IndexInv'
  <1>1. ASSUME UNCHANGED <<vecs, ids, idset, lastVec, deletes>>, panicked' = panicked \/ panicked' = "search"
        PROVE  IndexInv'
    <2>1. "search" # "insert"
      OBVIOUS
    <2> QED  BY <1>1, <2>1, Zenon DEF IndexInv, RowsRight
  <1>2. CASE \/ \E id \in Ids, v \in Vecs : InsertRefused(id, v)
             \/ \E k \in 0 .. MaxK : Search(k) \/ SearchNone(k) \/ SearchPanics(k)
             \/ UNCHANGED indexVars
    BY <1>1, <1>2, Zenon DEF InsertRefused, Search, SearchNone, SearchPanics, indexVars
  <1> QED  BY <1>2, InsertOverInv, InsertNewInv, DeleteInv, Zenon DEF IndexNext

\* After any inserts and deletes, of any vectors, an id has at most one row
\* and is cached exactly when it has one; until the first delete the cached
\* row is the id's and holds the vector last inserted (flat.rs:36-46).
THEOREM RowsFit == IndexSpec => []RowsRight
  <1>1. IndexInit => IndexInv
    BY IndexInitInv
  <1>2. IndexInv => RowsRight
    BY Zenon DEF IndexInv
  <1> QED  BY <1>1, <1>2, IndexStepInv, PTL DEF IndexSpec

\* The order of the sort is one of all the rows.
LEMMA SortedOnto ==
  ASSUME NEW len \in Nat, NEW p \in [1 .. len -> 1 .. len], IsInjective(p)
  PROVE  \A q \in 1 .. len : \E j \in 1 .. len : p[j] = q
  <1>1. IsFiniteSet(1 .. len)
    BY FS_Interval
  <1>2. p \in Injection(1 .. len, 1 .. len)
    BY Zenon DEF Injection
  <1>3. p \in Surjection(1 .. len, 1 .. len)
    BY <1>1, <1>2, FS_Injection, Zenon
  <1> QED  BY <1>3, Zenon DEF Surjection

LEMMA IntervalNat == ASSUME NEW m, NEW k \in 0 .. m PROVE k \in Nat
  OBVIOUS

LEMMA SearchIsNearest ==
  ASSUME IndexInv, NEW k \in 0 .. MaxK, Search(k), deletes = 0
  PROVE  /\ \A i, j \in DOMAIN result' :
              i < j => /\ result'[i].id # result'[j].id
                       /\ result'[i].d <= result'[j].d
         /\ \A i \in DOMAIN result' :
              /\ result'[i].d = Dist[lastVec[result'[i].id]]
              /\ \A id \in DOMAIN lastVec :
                    id \in {result'[j].id : j \in DOMAIN result'}
                      \/ Dist[lastVec[id]] >= result'[i].d
  <1> DEFINE len == Len(ids)
             top == IF k < len THEN k ELSE len
             d(r) == Dist[vecs[r]]
  <1>1. /\ ids \in Seq(Ids) /\ vecs \in Seq(Vecs) /\ Len(vecs) = len
        /\ IsInjective(ids) /\ DOMAIN lastVec = Range(ids)
        /\ \A i \in 1 .. len : vecs[i] = lastVec[ids[i]]
    BY Zenon DEF IndexInv, RowsRight
  <1>2. PICK p \in Sorted : result' = [i \in 1 .. top |-> [id |-> ids[p[i]], d |-> d(p[i])]]
    BY Zenon DEF Search
  <1>3. /\ p \in [1 .. len -> 1 .. len] /\ IsInjective(p)
        /\ \A i, j \in 1 .. len : i < j => d(p[i]) <= d(p[j])
    BY <1>2, Zenon DEF Sorted
  <1>4. len \in Nat /\ top \in Nat /\ top <= len /\ DOMAIN ids = 1 .. len
    <2>1. len \in Nat /\ DOMAIN ids = 1 .. len
      BY <1>1, RowIds, Zenon
    <2>2. k \in Nat
      BY IntervalNat, Zenon
    <2> QED  BY <2>1, <2>2
  <1>5. \A r \in 1 .. len : d(r) \in Int /\ d(r) = Dist[lastVec[ids[r]]]
    <2>1. \A r \in 1 .. len : vecs[r] \in Vecs
      BY <1>1, RowIds, Zenon
    <2> QED  BY <1>1, <2>1, DistAssumption, Zenon
  <1>6. /\ DOMAIN result' = 1 .. top
        /\ \A i \in 1 .. top : result'[i].id = ids[p[i]] /\ result'[i].d = d(p[i])
    BY <1>2, Zenon
  <1> HIDE DEF top, d
  <1>7. \A i \in 1 .. top : i \in 1 .. len /\ p[i] \in 1 .. len
    <2>1. \A i \in 1 .. top : i \in 1 .. len
      BY <1>4
    <2> QED  BY <1>3, <2>1, Zenon
  <1>8. ASSUME NEW i \in 1 .. top, NEW j \in 1 .. top, i < j
        PROVE  result'[i].id # result'[j].id /\ result'[i].d <= result'[j].d
    <2>1. i # j
      BY <1>4, <1>8
    <2>2. p[i] # p[j]
      BY <1>3, <1>7, <2>1, Zenon DEF IsInjective
    <2>3. ids[p[i]] # ids[p[j]]
      BY <1>1, <1>4, <1>7, <2>2, Zenon DEF IsInjective
    <2> QED  BY <1>3, <1>6, <1>7, <1>8, <2>3, Zenon
  <1>9. ASSUME NEW i \in 1 .. top, NEW id \in DOMAIN lastVec,
               \A j \in 1 .. top : id # result'[j].id
        PROVE  Dist[lastVec[id]] >= result'[i].d
    <2>1. PICK r \in 1 .. len : ids[r] = id
      BY <1>1, RowIds, Zenon
    <2>2. PICK j \in 1 .. len : p[j] = r
      BY <1>3, <1>4, SortedOnto, Zenon
    <2>3. j \notin 1 .. top
      BY <1>6, <1>9, <2>1, <2>2, Zenon
    <2>4. i < j
      BY <1>4, <2>3
    <2>5. d(p[i]) <= d(r) /\ d(p[i]) \in Int /\ d(r) \in Int /\ d(r) = Dist[lastVec[id]]
      BY <1>3, <1>5, <1>7, <2>1, <2>2, <2>4, Zenon
    <2>6. result'[i].d = d(p[i])
      BY <1>6, Zenon
    <2> QED  BY <2>5, <2>6, Zenon
  <1>10. \A i \in 1 .. top : result'[i].d = Dist[lastVec[result'[i].id]]
    <2> SUFFICES ASSUME NEW i \in 1 .. top PROVE result'[i].d = Dist[lastVec[result'[i].id]]
      BY Zenon
    <2>1. p[i] \in 1 .. len /\ result'[i].id = ids[p[i]] /\ result'[i].d = d(p[i])
      BY <1>6, <1>7, Zenon
    <2>2. d(p[i]) = Dist[lastVec[ids[p[i]]]]
      BY <1>5, <2>1, Zenon
    <2> QED  BY <2>1, <2>2, Zenon
  <1> QED  BY <1>6, <1>8, <1>9, <1>10, Zenon

\* A search of an index nothing was deleted from finds the nearest vectors,
\* whatever the distance, the vectors and their number (flat.rs:60-73).
THEOREM SearchFindsNearest == IndexSpec => SearchNearest
  <1> DEFINE Nearest ==
        (result' # result /\ deletes = 0) =>
        /\ \A i, j \in DOMAIN result' :
              i < j => /\ result'[i].id # result'[j].id
                       /\ result'[i].d <= result'[j].d
        /\ \A i \in DOMAIN result' :
              /\ result'[i].d = Dist[lastVec[result'[i].id]]
              /\ \A id \in DOMAIN lastVec :
                    id \in {result'[j].id : j \in DOMAIN result'}
                      \/ Dist[lastVec[id]] >= result'[i].d
  <1>1. ASSUME result' = <<>> PROVE Nearest
    <2>1. DOMAIN <<>> = {}
      OBVIOUS
    <2> QED  BY <1>1, <2>1, Zenon
  <1>2. ASSUME result' = result PROVE Nearest
    BY <1>2, Zenon
  <1>3. ASSUME IndexInv, IndexNext PROVE Nearest
    <2>1. ASSUME NEW k \in 0 .. MaxK, Search(k) PROVE Nearest
      BY <1>3, <2>1, SearchIsNearest, Zenon
    <2> HIDE DEF Nearest
    <2>2. ASSUME NEW k \in 0 .. MaxK, SearchNone(k) \/ SearchPanics(k) PROVE Nearest
      BY <1>1, <1>2, <2>2, Zenon DEF SearchNone, SearchPanics
    <2>3. ASSUME NEW id \in Ids, NEW v \in Vecs,
                 InsertRefused(id, v) \/ InsertOver(id, v) \/ InsertNew(id, v)
          PROVE  Nearest
      BY <1>1, <1>2, <2>3, Zenon DEF InsertRefused, InsertOver, InsertNew, indexVars
    <2>4. ASSUME NEW id \in Ids, DeleteRow(id) PROVE Nearest
      BY <1>1, <2>4, Zenon DEF DeleteRow
    <2> QED  BY <1>3, <2>1, <2>2, <2>3, <2>4, Zenon DEF IndexNext
  <1>4. IndexInv /\ [IndexNext]_indexVars => [Nearest]_indexVars
    BY <1>3, Zenon
  <1>5. IndexInit => IndexInv
    BY IndexInitInv
  <1> QED  BY <1>4, <1>5, IndexStepInv, PTL DEF IndexSpec, SearchNearest
=============================================================================
