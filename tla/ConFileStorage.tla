--------------------------- MODULE ConFileStorage ---------------------------
(***************************************************************************)
(* The storage of the Raft engine (efis/src/storage/consensus.rs) together *)
(* with the two functions of the actor that use it, persist_state and      *)
(* restore_state (efis/src/consensus.rs).  Records reach raft_log.bin      *)
(* through a buffer that two tasks empty: the background flusher, and the  *)
(* actor itself when too much is pending.                                  *)
(*                                                                         *)
(* An entry is a number, fresh for every new entry.  Term and vote are one *)
(* number that only grows.  The record cache is written while the process  *)
(* runs but read only when it starts, so it shows as the order in which a  *)
(* restart finds the records: hash order, i.e. any.                        *)
(***************************************************************************)
EXTENDS Integers, Sequences, FiniteSets, Functions

CONSTANTS
    Limit,          \* records that may be pending (1 MB in the code)
    SyncEvery,      \* every how many flushes the file is synced (10)
    MaxHandled,     \* bound: handlers that persist
    MaxLog,         \* bound: length of the log
    MaxTruncs,      \* bound: times a log suffix is replaced
    MaxStorageCrashes,  \* bound: crashes
    MaxWriteErrors, \* bound: failed writes
    MaxTorn         \* bound: writes cut short within a record

ASSUME LimitAssumption == Limit \in Nat
ASSUME SyncAssumption == SyncEvery \in Nat \ {0}
ASSUME BoundAssumption ==
    /\ MaxHandled \in Nat /\ MaxLog \in Nat /\ MaxTruncs \in Nat
    /\ MaxStorageCrashes \in Nat /\ MaxWriteErrors \in Nat /\ MaxTorn \in Nat

VARIABLES
    logs, term, last_persisted_log, \* the actor's fields
    saving,         \* where the actor is in persist_state
    batch,          \* the entries persist_state is saving
    last_metadata,  \* LAST_METADATA
    buffer, pending, taken, flushes,    \* the LogWriter; taken[w] is the
                                        \* buffer that task w has in hand
    file, synced,   \* raft_log.bin, and how much of it is synced
    meta,           \* raft_meta.bin
    handled, truncs, storageCrashes, writeErrors, torn,     \* counters
    handed,         \* history: what the file should hold in the end
    log_disk        \* history: every record ever handed over

persistVars == <<logs, term, last_persisted_log>>
writerVars == <<buffer, pending, taken, flushes>>
diskVars == <<file, synced, meta>>
counters == <<handled, truncs, storageCrashes, writeErrors, torn>>
history == <<handed, log_disk>>
storageVars == <<persistVars, saving, batch, last_metadata, writerVars,
                 diskVars, counters, history>>

Entry == 1 .. MaxHandled
Torn == 0               \* a record cut short
Garbled == MaxHandled + 1   \* bytes that decode to an entry nobody wrote
NoMeta == -1
ActorTask == "actor"
Flusher == "flusher"
Writers == {ActorTask, Flusher}

StorageInit ==
    /\ logs = <<>> /\ term = 0 /\ last_persisted_log = 0
    /\ saving = "idle" /\ batch = <<>>
    /\ last_metadata = NoMeta
    /\ buffer = <<>> /\ pending = 0 /\ flushes = 0
    /\ taken = [w \in Writers |-> <<>>]
    /\ file = <<>> /\ synced = 0 /\ meta = 0
    /\ handled = 0 /\ truncs = 0 /\ storageCrashes = 0 /\ writeErrors = 0 /\ torn = 0
    /\ handed = <<>> /\ log_disk = {}

-----------------------------------------------------------------------------
(* persist_state, called at the end of a handler that left log l and term  *)
(* and vote m: store, then append_entry up to the test of pending_bytes.   *)

\* Mutant: LAST_METADATA is set before the file is written.
StoreCachesFirst(m) ==
    /\ last_metadata' = m
    /\ \/ last_metadata = m /\ UNCHANGED <<meta, writeErrors>>
       \/ last_metadata # m /\ meta' = m /\ UNCHANGED writeErrors
       \/ /\ last_metadata # m /\ writeErrors < MaxWriteErrors
          /\ writeErrors' = writeErrors + 1 /\ UNCHANGED meta

\* The write is skipped when term and vote are those written last; it goes
\* through a temporary file, so a failed one leaves raft_meta.bin alone.
Store(m) ==
    \/ last_metadata = m /\ UNCHANGED <<meta, last_metadata, writeErrors>>
    \/ last_metadata # m /\ meta' = m /\ last_metadata' = m /\ UNCHANGED writeErrors
    \/ /\ last_metadata # m /\ writeErrors < MaxWriteErrors
       /\ writeErrors' = writeErrors + 1 /\ UNCHANGED <<meta, last_metadata>>

Unsaved(l, last) ==
    IF last = 0 THEN l ELSE SubSeq(l, last + 2, Len(l))

Persist(l, m) ==
    /\ saving = "idle" /\ handled < MaxHandled
    /\ handled' = handled + 1
    /\ logs' = l
    /\ term' = m
    /\ Store(m)
    /\ batch' = Unsaved(l, last_persisted_log)
    /\ log_disk' = log_disk \cup Range(batch')
    /\ saving' = IF batch' = <<>> THEN "idle"
             ELSE IF pending + Len(batch') > Limit THEN "flush" ELSE "append"
    /\ UNCHANGED <<last_persisted_log, writerVars, file, synced, storageCrashes, torn,
                   handed>>

\* A handler that only changes term or vote, or changes nothing.
PersistTerm == /\ \E m \in {term, term + 1} : Persist(logs, m)
               /\ UNCHANGED truncs

\* A handler that appends an entry (a submit, or append_entries).
PersistAppend == /\ Len(logs) < MaxLog
                 /\ Persist(Append(logs, handled + 1), term)
                 /\ UNCHANGED truncs

\* append_entries replacing the entries from k on.
PersistSplice(k) == /\ truncs < MaxTruncs
                    /\ truncs' = truncs + 1
                    /\ Persist(Append(SubSeq(logs, 1, k), handled + 1), term)

\* The rest of append_batch, under the buffer lock.
AppendBatch ==
    /\ saving = "append"
    /\ buffer' = buffer \o batch
    /\ pending' = pending + Len(batch)
    /\ handed' = handed \o batch
    /\ last_persisted_log' = Len(logs) - 1
    /\ saving' = "idle" /\ batch' = <<>>
    /\ UNCHANGED <<logs, term, last_metadata, taken, flushes, diskVars,
                   counters, log_disk>>

-----------------------------------------------------------------------------
(* flush: the buffer is taken under one lock and written under another.    *)

ActorTake ==
    /\ saving = "flush"
    /\ saving' = IF buffer = <<>> THEN "append" ELSE "write"
    /\ taken' = [taken EXCEPT ![ActorTask] = buffer]
    /\ buffer' = <<>>
    /\ UNCHANGED <<persistVars, batch, last_metadata, pending, flushes, diskVars,
                   counters, handed, log_disk>>

\* The background flusher, on its tick or when notified.
FlusherTake ==
    /\ saving # "down" /\ taken[Flusher] = <<>> /\ buffer # <<>>
    /\ taken' = [taken EXCEPT ![Flusher] = buffer]
    /\ buffer' = <<>>
    /\ UNCHANGED <<persistVars, saving, batch, last_metadata, pending, flushes,
                   diskVars, counters, history>>

\* Mutant: the new bytes replace the file instead of being appended.
WriteTruncating(w) ==
    /\ taken[w] # <<>>
    /\ file' = taken[w]
    /\ synced' = IF flushes = 0 THEN Len(file') ELSE synced
    /\ flushes' = (flushes + 1) % SyncEvery
    /\ pending' = 0
    /\ taken' = [taken EXCEPT ![w] = <<>>]
    /\ saving' = IF w = ActorTask THEN "append" ELSE saving
    /\ UNCHANGED <<persistVars, batch, last_metadata, buffer, meta, counters,
                   history>>

Write(w) ==
    /\ taken[w] # <<>>
    /\ file' = file \o taken[w]
    /\ synced' = IF flushes = 0 THEN Len(file') ELSE synced
    /\ flushes' = (flushes + 1) % SyncEvery
    /\ pending' = 0
    /\ taken' = [taken EXCEPT ![w] = <<>>]
    /\ saving' = IF w = ActorTask THEN "append" ELSE saving
    /\ UNCHANGED <<persistVars, batch, last_metadata, buffer, meta, counters,
                   history>>

\* write_all or sync_data fails after part of the batch is in the file.  The
\* rest is lost; the flusher ignores the error, the actor gives up on its
\* batch without counting it as persisted.
WriteFails(w) ==
    /\ taken[w] # <<>> /\ writeErrors < MaxWriteErrors
    /\ writeErrors' = writeErrors + 1
    /\ \E k \in 0 .. Len(taken[w]) : file' = file \o SubSeq(taken[w], 1, k)
    /\ taken' = [taken EXCEPT ![w] = <<>>]
    /\ saving' = IF w = ActorTask THEN "idle" ELSE saving
    /\ batch' = IF w = ActorTask THEN <<>> ELSE batch
    /\ UNCHANGED <<persistVars, last_metadata, buffer, pending, flushes, synced,
                   meta, handled, truncs, storageCrashes, torn, history>>

-----------------------------------------------------------------------------
(* Crash and start.                                                        *)

\* What the process held is gone.  A batch in hand may be in the file in
\* part, and the end of the file that was not synced may be missing.
StorageCrash ==
    /\ saving # "down" /\ storageCrashes < MaxStorageCrashes
    /\ storageCrashes' = storageCrashes + 1
    /\ saving' = "down"
    /\ \E w \in Writers : \E k \in 0 .. Len(taken[w]) :
          LET full == file \o SubSeq(taken[w], 1, k)
          IN  \E n \in synced .. Len(full) :
                 \/ file' = SubSeq(full, 1, n) /\ UNCHANGED torn
                 \/ /\ torn < MaxTorn /\ n < Len(file) + Len(taken[w])
                    /\ torn' = torn + 1
                    /\ file' = Append(SubSeq(full, 1, n), Torn)
    /\ synced' = Len(file')
    /\ buffer' = <<>> /\ pending' = 0 /\ flushes' = 0
    /\ taken' = [w \in Writers |-> <<>>]
    /\ last_metadata' = NoMeta
    /\ UNCHANGED <<persistVars, batch, meta, handled, truncs, writeErrors, history>>

TornAt(f) == {i \in DOMAIN f : f[i] = Torn}

\* What reading the file gives: every record up to a torn one; if more was
\* written after that, its bytes are taken for the rest of the torn record.
Readable(f) ==
    IF TornAt(f) = {} THEN f
    ELSE SubSeq(f, 1, (CHOOSE i \in TornAt(f) : \A j \in TornAt(f) : i <= j) - 1)
Misread(f) == \E i \in TornAt(f) : i < Len(f)

\* Mutant: restore returns the cached records in the order of the file, and
\* one of them twice.
ReorderedTwice(l) ==
    {Append(l, 1)}
Reordered(l) ==
    {[i \in 1 .. Len(l) |-> l[p[i]]] :
        p \in {q \in [1 .. Len(l) -> 1 .. Len(l)] : IsInjective(q)}}

\* ConFileStorage::new (warm_cache) and restore_state.
StorageStart ==
    /\ saving = "down"
    /\ \E l \in {Readable(file)} \cup
                IF Misread(file) THEN {Append(Readable(file), Garbled)} ELSE {} :
          logs' \in Reordered(l)
    /\ term' = meta
    /\ last_persisted_log' = IF logs' = <<>> THEN 0 ELSE Len(logs') - 1
    /\ saving' = "idle" /\ batch' = <<>>
    /\ handed' = file
    /\ UNCHANGED <<last_metadata, writerVars, diskVars, counters, log_disk>>

\* A record that does not decode makes restore fail as a whole: the node
\* starts with an empty log, in term 0 (restore_state, lines 363-368).
StartUnreadable ==
    /\ saving = "down"
    /\ Misread(file)
    /\ logs' = <<>>
    /\ term' = 0
    /\ last_persisted_log' = 0
    /\ saving' = "idle" /\ batch' = <<>>
    /\ handed' = file
    /\ UNCHANGED <<last_metadata, writerVars, diskVars, counters, log_disk>>

-----------------------------------------------------------------------------

StorageNext ==
    \/ PersistTerm
    \/ PersistAppend
    \/ \E k \in 0 .. Len(logs) - 1 : PersistSplice(k)
    \/ AppendBatch
    \/ ActorTake
    \/ FlusherTake
    \/ \E w \in Writers : Write(w)
    \/ \E w \in Writers : WriteFails(w)
    \/ StorageCrash
    \/ StorageStart
    \/ StartUnreadable

StorageSpec == StorageInit /\ [][StorageNext]_storageVars

\* The flusher's timer never stops and the actor finishes what it started.
StorageFairness ==
    /\ WF_storageVars(FlusherTake)
    /\ \A w \in Writers : WF_storageVars(Write(w))
    /\ WF_storageVars(ActorTake)
    /\ WF_storageVars(AppendBatch)

-----------------------------------------------------------------------------
(* Properties.                                                             *)

\* LAST_METADATA, which lets store skip a write (storage/consensus.rs:111),
\* never differs from raft_meta.bin, failed writes and crashes included: a
\* vote is never taken for saved when the file holds another.
MetadataCacheRight == last_metadata # NoMeta => last_metadata = meta

\* Every record handed to the writer reaches the file when nothing crashes
\* and no write fails (the flusher's timer, storage/consensus.rs:86-103).
EventuallyWritten ==
    []<>(storageCrashes + writeErrors > 0 \/ Range(handed) = Range(file))

broken == writeErrors > 0 \/ torn > 0

\* The storage gives the Raft engine what module RaftLog assumes of it, as
\* long as no write fails or is cut short within a record.
Device == INSTANCE LogStore WITH
    Entry <- Entry \cup {Garbled},
    last_persisted_log <-
        IF batch = <<>> THEN last_persisted_log ELSE Len(logs) - 1
ImplementsLogStore == Device!Spec
=============================================================================
