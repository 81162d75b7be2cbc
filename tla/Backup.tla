------------------------------- MODULE Backup --------------------------------
(***************************************************************************)
(* The periodic backup of the store: DatastoreGuard (efis/src/store.rs)    *)
(* and FileBackupRepo (efis/src/storage/backup.rs), with I/O errors and    *)
(* crashes.  The store is the number of writes made to it; its encoding is *)
(* a sequence of blocks.  A file that was not synced survives a crash in   *)
(* part only; a rename, in a directory that is never synced, may be undone *)
(* by a crash.  Temporary names are taken to be fresh.                     *)
(***************************************************************************)
EXTENDS Integers, Sequences

CONSTANTS
    Blocks,         \* blocks of an encoded store
    MaxWrites,      \* bound: writes to the store
    MaxSaveErrors,  \* bound: I/O errors
    MaxBackupCrashes \* bound: crashes

ASSUME BlocksAssumption == Blocks \in Nat

VARIABLES
    up,             \* is the process running?
    store,          \* the store
    task,           \* the backup task: what it did last
    stopping,       \* has the guard been dropped?
    lastSave,       \* is this the backup that the drop asked for?
    tmp,            \* the task's temporary file
    backup,         \* backup.efs
    before,         \* backup.efs before the last rename
    dropped,        \* history: the store when the guard was dropped
    saveErrors, backupCrashes

faults == <<saveErrors, backupCrashes>>
backupVars == <<up, store, task, stopping, lastSave, tmp, backup, before, dropped,
                faults>>

\* encode returns an empty vector as long as the encoder is commented out:
\* with Blocks = 0 this is what it does.
Encode(s) == [k \in 1 .. Blocks |-> s]

\* DatastoreGuard::from makes an empty store, whatever it is given.
From(bytes) == 0

\* A file, with the store it was taken from.
File(bytes, synced, of) == [there |-> TRUE, bytes |-> bytes, synced |-> synced, of |-> of]
NoFile == [there |-> FALSE, bytes |-> <<>>, synced |-> TRUE, of |-> 0]

\* What a crash may leave of a file.
Survives(f) ==
    IF f.synced THEN {f}
    ELSE {File(SubSeq(f.bytes, 1, k), TRUE, f.of) : k \in 0 .. Len(f.bytes)}

\* A process that has not been started.
BackupInit ==
    /\ up = FALSE /\ store = 0
    /\ task = "idle" /\ stopping = FALSE /\ lastSave = FALSE
    /\ tmp = NoFile /\ backup = NoFile /\ before = NoFile
    /\ dropped = 0 /\ saveErrors = 0 /\ backupCrashes = 0

-----------------------------------------------------------------------------

WriteStore ==
    /\ up /\ store < MaxWrites
    /\ store' = store + 1
    /\ UNCHANGED <<up, task, stopping, lastSave, tmp, backup, before, dropped, faults>>

\* Drop for DatastoreGuard
Drop ==
    /\ up /\ ~stopping
    /\ stopping' = TRUE
    /\ dropped' = store
    /\ UNCHANGED <<up, store, task, lastSave, tmp, backup, before, faults>>

\* run_backup: at a tick, or when the guard was dropped (select! takes either
\* when both are ready), backup encodes the store and save opens a file.
BackupTick ==
    /\ up /\ task = "idle"
    /\ lastSave' \in {FALSE, stopping}
    /\ tmp' = File(<<>>, FALSE, store)
    /\ task' = "open"
    /\ UNCHANGED <<up, store, stopping, backup, before, dropped, faults>>

\* write_all of the encoding made at the tick.
WriteAll ==
    /\ up /\ task = "open"
    /\ tmp' = [tmp EXCEPT !.bytes = Encode(tmp.of)]
    /\ task' = "written"
    /\ UNCHANGED <<up, store, stopping, lastSave, backup, before, dropped, faults>>

\* Mutant: the file is renamed without having been synced.
SyncNothing ==
    /\ up /\ task = "written"
    /\ task' = "synced"
    /\ UNCHANGED <<up, store, stopping, lastSave, tmp, backup, before, dropped, faults>>

SyncAll ==
    /\ up /\ task = "written"
    /\ tmp' = [tmp EXCEPT !.synced = TRUE]
    /\ task' = "synced"
    /\ UNCHANGED <<up, store, stopping, lastSave, backup, before, dropped, faults>>

\* Mutant: the task ends with the backup that was running at the drop.
RenameAndStop ==
    /\ up /\ task = "synced"
    /\ backup' = tmp /\ before' = backup /\ tmp' = NoFile
    /\ task' = IF stopping THEN "over" ELSE "idle"
    /\ UNCHANGED <<up, store, stopping, lastSave, dropped, faults>>

\* The file becomes backup.efs; run_backup loops, or returns.
Rename ==
    /\ up /\ task = "synced"
    /\ backup' = tmp /\ before' = backup /\ tmp' = NoFile
    /\ task' = IF lastSave THEN "over" ELSE "idle"
    /\ UNCHANGED <<up, store, stopping, lastSave, dropped, faults>>

\* save has been called and has not returned.
Saving == {"open", "written", "synced"}

\* Mutant: "backup service stopped" after an error.
SaveFailsForGood ==
    /\ up /\ task \in Saving /\ saveErrors < MaxSaveErrors
    /\ saveErrors' = saveErrors + 1
    /\ tmp' = NoFile
    /\ task' = "over"
    /\ UNCHANGED <<up, store, stopping, lastSave, backup, before, dropped, backupCrashes>>

\* save fails in one of its steps; the temporary file is removed (or, after
\* a failed rename, left behind under a name nobody uses again).
SaveFails ==
    /\ up /\ task \in Saving /\ saveErrors < MaxSaveErrors
    /\ saveErrors' = saveErrors + 1
    /\ tmp' = NoFile
    /\ task' = IF lastSave THEN "over" ELSE "idle"
    /\ UNCHANGED <<up, store, stopping, lastSave, backup, before, dropped, backupCrashes>>

\* The machine stops.
BackupCrash ==
    /\ up /\ backupCrashes < MaxBackupCrashes
    /\ backupCrashes' = backupCrashes + 1
    /\ up' = FALSE
    /\ task' = "idle" /\ lastSave' = FALSE /\ tmp' = NoFile
    /\ backup' \in Survives(backup) \cup Survives(before)
    /\ before' = backup'
    /\ UNCHANGED <<store, stopping, dropped, saveErrors>>

\* DatastoreGuard::new
BackupStart ==
    /\ ~up
    /\ up' = TRUE
    /\ stopping' = FALSE /\ dropped' = 0
    /\ store' = IF backup.there THEN From(backup.bytes) ELSE 0
    /\ UNCHANGED <<task, lastSave, tmp, backup, before, faults>>

-----------------------------------------------------------------------------

Save == BackupTick \/ WriteAll \/ SyncAll \/ Rename

BackupNext == WriteStore \/ Save \/ Drop \/ SaveFails \/ BackupCrash \/ BackupStart

BackupSpec == BackupInit /\ [][BackupNext]_backupVars

\* The timer ticks and I/O calls return.
BackupFairness == WF_backupVars(Save)

-----------------------------------------------------------------------------
(* Properties.                                                             *)

\* Whatever fails and whenever the machine stops, backup.efs is a whole
\* encoding of a store or is not there: it is synced under another name
\* before it is renamed (backup.rs:19-47).
BackupWhole == backup.there => backup.bytes = Encode(backup.of)

\* The backup task ends only with a backup begun after the guard was dropped,
\* so that nothing written before the drop is missing (store.rs:83-98).
LastBackupCounts == task = "over" /\ saveErrors = 0 => backup.of >= dropped

\* A write to the store is in a backup in the end, I/O errors or not, unless
\* the guard is dropped or the machine stops (store.rs:72-110).
KeepsUp ==
    []<>(backup.of = store \/ stopping \/ backupCrashes > 0)
=============================================================================
