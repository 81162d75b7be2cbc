------------------------------ MODULE RaftLog ------------------------------
(***************************************************************************)
(* Elections and log replication of the Raft engine of Efis                *)
(* (efis/src/consensus.rs), without the commit pipeline that module        *)
(* Consensus adds.  Each node is one actor task that takes messages from a *)
(* mailbox and runs one handler at a time to its end, so a handler is one  *)
(* action.  Nodes call each other through request_vote and append_entries; *)
(* a call is answered at most once and may be lost, delayed and reordered. *)
(*                                                                         *)
(* Logs are Vec<LogEntry>, indexed from 0: log index k is logs[i][k + 1].  *)
(* An Option<usize> is a natural number or None.                           *)
(***************************************************************************)
EXTENDS Integers, Sequences, FiniteSets, FiniteSetsExt

CONSTANTS
  Server,       \* the nodes of the cluster
  Command,      \* the commands clients submit
  Nil,          \* "no node": voted_for and LEADER_ID when they are None
  CommitHint,   \* the values of leader_commit, which this module only carries
  MaxTerm,      \* bound: no election is started beyond this term
  MaxElections, \* bound: number of elections started in the cluster
  MaxLog,       \* bound: no command is submitted to a log of this length
  MaxRestarts,  \* bound: number of crashes in the cluster
  MaxCalls      \* bound: append_entries calls a node has under way

ASSUME ServerAssumption == IsFiniteSet(Server) /\ Server # {}
ASSUME NilAssumption == Nil \notin Server
ASSUME HintAssumption == CommitHint \subseteq Nat \cup {-1}
ASSUME BoundsAssumption ==
  /\ MaxTerm \in Nat /\ MaxElections \in Nat /\ MaxLog \in Nat
  /\ MaxRestarts \in Nat /\ MaxCalls \in Nat

None == -1

VARIABLES
  \* the actor's fields
  state, current_term, voted_for, vote_count, logs, last_persisted_log,
  next_index,
  leader_id,    \* the process-wide LEADER_ID
  \* what survives the process
  meta,         \* term and vote in raft_meta.bin
  log_disk,     \* the records handed to the log writer so far
  \* the calls between nodes: every request_vote request and reply so far,
  \* and the append_entries requests and replies on their way
  rv_req, rv_rep, ae_req, ae_rep,
  counted,      \* peers whose vote a candidate has been told of
  boot_term,    \* calls of this term or earlier belong to a dead process
  restarts,     \* crashes so far
  elected       \* history: <<node, term>> for each election won

electionVars == <<state, current_term, voted_for, leader_id>>
voteVars == <<vote_count, counted, elected>>
diskVars == <<meta, log_disk, last_persisted_log>>
rvVars == <<rv_req, rv_rep>>
aeVars == <<ae_req, ae_rep>>
crashVars == <<boot_term, restarts>>
logVars == <<electionVars, voteVars, logs, next_index, diskVars, rvVars,
             aeVars, crashVars>>

-----------------------------------------------------------------------------
(* The types.                                                              *)

State == {"Follower", "Candidate", "Leader"}
LogEntry == [term : Nat, command : Command]
OptIndex == Nat \cup {None}
Metadata == [current_term : Nat, voted_for : Server \cup {Nil}]

\* The reply records carry the term of the call they answer (req), which
\* the code keeps in the task that waits for the reply.
RequestVote ==
  [from : Server, to : Server, term : Nat,
   last_log_index : Nat, last_log_term : Nat]
RequestVoteReply ==
  [from : Server, to : Server, req : Nat, term : Nat, voted : BOOLEAN]
AppendEntries ==
  [from : Server, to : Server, term : Nat, prev_log_index : OptIndex,
   prev_log_term : OptIndex, entries : Seq(LogEntry), leader_commit : OptIndex]
\* ni is the next_index the call was made with.
AppendEntriesReply ==
  [from : Server, to : Server, req : Nat, ni : Nat, term : Nat,
   success : BOOLEAN, conflict_index : OptIndex, conflict_term : OptIndex]

Peers(i) == Server \ {i}
Quorum == Cardinality(Server) \div 2 + 1

-----------------------------------------------------------------------------
(* Logs.                                                                   *)

LastIndex(l) == IF l = <<>> THEN 0 ELSE Len(l) - 1
LastTerm(l) == IF l = <<>> THEN 0 ELSE l[Len(l)].term

UpToDate(m, l) ==
  \/ m.last_log_term > LastTerm(l)
  \/ m.last_log_term = LastTerm(l) /\ m.last_log_index >= LastIndex(l)

PrevOkLengthOnly(m, l) ==
  m.prev_log_index # None => m.prev_log_index < Len(l)
PrevOk(m, l) ==
  m.prev_log_index # None =>
    /\ m.prev_log_index < Len(l)
    /\ l[m.prev_log_index + 1].term = m.prev_log_term

\* The first index of the run of entries that share the term of entry idx.
FirstOfTerm(l, idx) ==
  Min({f \in 0..idx : \A k \in f..idx : l[k + 1].term = l[idx + 1].term})

\* The positions of es that l already holds from index "at" on, by term.
Held(l, at, es) ==
  {k \in 1..Len(es) : /\ at + k <= Len(l)
                      /\ \A j \in 1..k : l[at + j].term = es[j].term}

SpliceAppend(l, at, es) == l \o es
\* The first entry that differs and all that follow it are replaced by the
\* leader's; a log that holds all of es is left alone, tail included.
Splice(l, at, es) ==
  IF Held(l, at, es) = 1..Len(es) THEN l
  ELSE [k \in 1..(at + Len(es)) |->
          IF k <= at \/ k - at \in Held(l, at, es) THEN l[k] ELSE es[k - at]]

NextAfterConflictLate(l, r) ==
  LET same == {k \in 0..(Len(l) - 1) : l[k + 1].term = r.conflict_term}
  IN  IF r.conflict_term # None /\ same # {} THEN Max(same) + 2
      ELSE Max({r.conflict_index, 0})
\* Where a leader with log l probes next after a conflict: after its own
\* last entry of the conflicting term, or at the follower's hint.
NextAfterConflict(l, r) ==
  LET same == {k \in 0..(Len(l) - 1) : l[k + 1].term = r.conflict_term}
  IN  IF r.conflict_term # None /\ same # {} THEN Max(same) + 1
      ELSE Max({r.conflict_index, 0})

-----------------------------------------------------------------------------
LogInit ==
  /\ state = [i \in Server |-> "Follower"]
  /\ current_term = [i \in Server |-> 0]
  /\ voted_for = [i \in Server |-> Nil]
  /\ leader_id = [i \in Server |-> Nil]
  /\ vote_count = [i \in Server |-> 0]
  /\ counted = [i \in Server |-> {}]
  /\ elected = {}
  /\ logs = [i \in Server |-> <<>>]
  /\ next_index = [i \in Server |-> [j \in Server |-> 0]]
  /\ meta = [i \in Server |-> [current_term |-> 0, voted_for |-> Nil]]
  /\ log_disk = [i \in Server |-> {}]
  /\ last_persisted_log = [i \in Server |-> 0]
  /\ rv_req = {} /\ rv_rep = {} /\ ae_req = {} /\ ae_rep = {}
  /\ boot_term = [i \in Server |-> 0]
  /\ restarts = 0

-----------------------------------------------------------------------------
(* Persistence.                                                            *)

StoreMetaTermOnly(i) ==
  meta' = [meta EXCEPT ![i].current_term = current_term'[i]]
StoreMeta(i) ==
  meta' = [meta EXCEPT ![i] = [current_term |-> current_term'[i],
                               voted_for |-> voted_for'[i]]]

\* The state the handler leaves behind is stored: the term and the vote,
\* and the entries after last_persisted_log (from 0 while that is 0).  A
\* handler that persists twice does so first with an unchanged log, which
\* adds no record that is not there.
PersistState(i) ==
  LET last == Len(logs'[i]) - 1
      start == IF last_persisted_log[i] = 0 THEN 0
               ELSE last_persisted_log[i] + 1
  IN  /\ StoreMeta(i)
      /\ log_disk' = [log_disk EXCEPT ![i] =
                        @ \cup {logs'[i][k + 1] : k \in start..last}]
      /\ last_persisted_log' = [last_persisted_log EXCEPT ![i] =
                                  IF start <= last THEN last ELSE @]

\* A request with term "term" makes node i become_follower first; what
\* voted_for and LEADER_ID are after that.
Newer(i, term) == term > current_term[i]
VoteAfter(i, term) == IF Newer(i, term) THEN Nil ELSE voted_for[i]
LeaderAfterKept(i, term) == leader_id[i]
LeaderAfter(i, term) == IF Newer(i, term) THEN Nil ELSE leader_id[i]

BecomeFollowerQuietly(i, term) ==
  /\ state' = [state EXCEPT ![i] = "Follower"]
  /\ current_term' = [current_term EXCEPT ![i] = term]
  /\ voted_for' = [voted_for EXCEPT ![i] = Nil]
  /\ UNCHANGED <<leader_id, logs>>
  /\ PersistState(i)
BecomeFollower(i, term) ==
  /\ state' = [state EXCEPT ![i] = "Follower"]
  /\ current_term' = [current_term EXCEPT ![i] = term]
  /\ voted_for' = [voted_for EXCEPT ![i] = Nil]
  /\ leader_id' = [leader_id EXCEPT ![i] = Nil]
  /\ UNCHANGED logs
  /\ PersistState(i)

-----------------------------------------------------------------------------
(* Elections.                                                              *)

\* The election timer fired and no leader was heard of for its duration.
\* Timing is abstracted: it may happen to any node that does not lead.
StartElection(i) ==
  /\ state[i] \in {"Follower", "Candidate"}
  /\ current_term[i] < MaxTerm
  /\ Cardinality({<<m.from, m.term>> : m \in rv_req}) < MaxElections
  /\ state' = [state EXCEPT ![i] = "Candidate"]
  /\ current_term' = [current_term EXCEPT ![i] = @ + 1]
  /\ voted_for' = [voted_for EXCEPT ![i] = i]
  /\ vote_count' = [vote_count EXCEPT ![i] = 1]
  /\ counted' = [counted EXCEPT ![i] = {}]
  /\ UNCHANGED logs
  /\ PersistState(i)
  /\ rv_req' = rv_req \cup
       {[from |-> i, to |-> j, term |-> current_term[i] + 1,
         last_log_index |-> LastIndex(logs[i]),
         last_log_term |-> LastTerm(logs[i])] : j \in Peers(i)}
  /\ UNCHANGED <<leader_id, elected, next_index, rv_rep, aeVars, crashVars>>

GrantAnyVote(i, m) ==
  m.term >= current_term[i] /\ UpToDate(m, logs[i])
Grant(i, m) ==
  /\ m.term >= current_term[i]
  /\ VoteAfter(i, m.term) \in {Nil, m.from}
  /\ UpToDate(m, logs[i])

\* _request_vote: a newer term is adopted before the vote is decided.  A
\* call is answered once.
HandleRequestVote(m) ==
  LET i == m.to
  IN  /\ ~\E r \in rv_rep : r.from = i /\ r.to = m.from /\ r.req = m.term
      /\ state' = [state EXCEPT ![i] = IF Newer(i, m.term) THEN "Follower" ELSE @]
      /\ current_term' = [current_term EXCEPT ![i] = Max({@, m.term})]
      /\ voted_for' = [voted_for EXCEPT ![i] =
                         IF Grant(i, m) THEN m.from ELSE VoteAfter(i, m.term)]
      /\ leader_id' = [leader_id EXCEPT ![i] = LeaderAfter(i, m.term)]
      /\ UNCHANGED logs
      /\ IF Newer(i, m.term) \/ Grant(i, m) THEN PersistState(i)
         ELSE UNCHANGED diskVars
      /\ rv_rep' = rv_rep \cup
           {[from |-> i, to |-> m.from, req |-> m.term,
             term |-> current_term'[i], voted |-> Grant(i, m)]}
      /\ UNCHANGED <<voteVars, next_index, rv_req, aeVars, crashVars>>

\* The reply of a call this process made is delivered to a candidate; a
\* denial in the candidate's own term, or an older one, is ignored.
VoteResultNewer(r) ==
  LET i == r.to
  IN  /\ r.req > boot_term[i]
      /\ state[i] = "Candidate"
      /\ r.term > current_term[i]
      /\ BecomeFollower(i, r.term)
      /\ UNCHANGED <<voteVars, next_index, rvVars, aeVars, crashVars>>

StartLeader(i) ==
  /\ state' = [state EXCEPT ![i] = "Leader"]
  /\ leader_id' = [leader_id EXCEPT ![i] = i]
  /\ elected' = elected \cup {<<i, current_term[i]>>}
  /\ counted' = [counted EXCEPT ![i] = {}]
  /\ next_index' = [next_index EXCEPT ![i] = [j \in Server |-> Len(logs[i])]]

VoteResultGranted(r) ==
  LET i == r.to
  IN  /\ r.req > boot_term[i]
      /\ state[i] = "Candidate"
      /\ r.term = current_term[i]
      /\ r.voted
      /\ r.from \notin counted[i]
      /\ vote_count' = [vote_count EXCEPT ![i] = @ + 1]
      /\ IF vote_count'[i] >= Quorum
         THEN StartLeader(i)
         ELSE /\ counted' = [counted EXCEPT ![i] = @ \cup {r.from}]
              /\ UNCHANGED <<state, leader_id, elected, next_index>>
      /\ UNCHANGED <<current_term, voted_for, logs, diskVars, rvVars, aeVars,
                     crashVars>>

-----------------------------------------------------------------------------
(* Replication.                                                            *)

\* A command sent to a node that does not lead is dropped.
Submit(i, cmd) ==
  /\ state[i] = "Leader"
  /\ Len(logs[i]) < MaxLog
  /\ logs' = [logs EXCEPT ![i] =
                Append(@, [term |-> current_term[i], command |-> cmd])]
  /\ UNCHANGED <<electionVars, voteVars, next_index, rvVars, aeVars, crashVars>>
  /\ PersistState(i)

\* The heartbeat task, a submit or a new commit_index asks for it.  The
\* calls to the peers outside "called" fail: the peer cannot be reached or
\* the connection breaks before the request is handled.
SendAES(i, called, commit_index) ==
  LET ni(j) == Min({next_index[i][j], Len(logs[i])})
  IN  /\ state[i] = "Leader"
      /\ Cardinality({m \in ae_req : m.from = i}) +
           Cardinality({r \in ae_rep : r.to = i}) + Cardinality(called) <= MaxCalls
      /\ next_index' = [next_index EXCEPT ![i] =
                          [j \in Server |-> IF j = i THEN @[j] ELSE ni(j)]]
      /\ ae_req' = ae_req \cup
           {[from |-> i, to |-> j, term |-> current_term[i],
             prev_log_index |-> ni(j) - 1,
             prev_log_term |-> IF ni(j) = 0 THEN None ELSE logs[i][ni(j)].term,
             entries |-> SubSeq(logs[i], ni(j) + 1, Len(logs[i])),
             leader_commit |-> commit_index] : j \in called}
      /\ UNCHANGED <<electionVars, voteVars, logs, diskVars, rvVars, ae_rep,
                     crashVars>>

\* The reply is on its way to the task that made the call, unless the
\* process that made it is gone.
AppendReply(m, success, conflict_index, conflict_term) ==
  /\ ae_req' = ae_req \ {m}
  /\ ae_rep' = ae_rep \cup
       {r \in {[from |-> m.to, to |-> m.from, req |-> m.term,
                ni |-> m.prev_log_index + 1, term |-> current_term'[m.to],
                success |-> success, conflict_index |-> conflict_index,
                conflict_term |-> conflict_term]} : r.req > boot_term[r.to]}

AnyTerm(m) == TRUE
NotStale(m) == m.term >= current_term[m.to]

AppendStale(m) ==
  /\ ~NotStale(m)
  /\ UNCHANGED <<electionVars, voteVars, logs, next_index, diskVars, rvVars,
                 crashVars>>
  /\ AppendReply(m, FALSE, None, None)

\* What a request of the current or a newer term does before the log is
\* looked at: become_follower for a newer term, and LEADER_ID.  A candidate
\* of the same term stays a candidate.
HearLeader(m) ==
  LET i == m.to
  IN  /\ NotStale(m)
      /\ state' = [state EXCEPT ![i] = IF Newer(i, m.term) THEN "Follower" ELSE @]
      /\ current_term' = [current_term EXCEPT ![i] = m.term]
      /\ voted_for' = [voted_for EXCEPT ![i] = VoteAfter(i, m.term)]
      /\ leader_id' = [leader_id EXCEPT ![i] =
                         IF state'[i] = "Follower" THEN m.from ELSE @]
      /\ UNCHANGED <<voteVars, next_index, rvVars, crashVars>>

AppendConflict(m) ==
  LET i == m.to
      idx == m.prev_log_index
      short == idx >= Len(logs[i])
  IN  /\ HearLeader(m)
      /\ ~PrevOk(m, logs[i])
      /\ UNCHANGED logs
      /\ IF Newer(i, m.term) THEN PersistState(i)
         ELSE UNCHANGED diskVars
      /\ AppendReply(m, FALSE,
           IF short THEN Len(logs[i]) ELSE FirstOfTerm(logs[i], idx),
           IF short THEN None ELSE logs[i][idx + 1].term)

AppendAccept(m) ==
  LET i == m.to
  IN  /\ HearLeader(m)
      /\ PrevOk(m, logs[i])
      /\ logs' = [logs EXCEPT ![i] = Splice(@, m.prev_log_index + 1, m.entries)]
      /\ PersistState(i)
      /\ AppendReply(m, TRUE, None, None)

(* handle_ae_res: the reply of an append_entries call of this process.     *)

AppendResult(r) ==
  /\ ae_rep' = ae_rep \ {r}
  /\ UNCHANGED <<voteVars, rvVars, ae_req, crashVars>>

AppendResultNewer(r) ==
  /\ AppendResult(r)
  /\ r.term > current_term[r.to]
  /\ BecomeFollower(r.to, r.term)
  /\ UNCHANGED next_index

\* The reply is about the current term of a leader whose log reaches ni.
ForLeader(r) ==
  /\ r.term = current_term[r.to]
  /\ r.ni <= Len(logs[r.to])
  /\ state[r.to] = "Leader"

\* next_index moves to the end of the log as it is when the reply is
\* handled, not as it was when the call was made.
AppendResultSuccess(r) ==
  /\ AppendResult(r)
  /\ ForLeader(r)
  /\ r.success
  /\ next_index' = [next_index EXCEPT ![r.to][r.from] = Len(logs[r.to])]
  /\ UNCHANGED <<electionVars, logs, diskVars>>

AppendResultConflict(r) ==
  /\ AppendResult(r)
  /\ ForLeader(r)
  /\ ~r.success
  /\ next_index' = [next_index EXCEPT ![r.to][r.from] =
                      NextAfterConflict(logs[r.to], r)]
  /\ UNCHANGED <<electionVars, logs, diskVars>>

\* The reply is lost with the connection, or is ignored, or its handler
\* panics (which module Consensus tells apart).
AppendResultLost(r) ==
  /\ AppendResult(r)
  /\ UNCHANGED <<electionVars, logs, next_index, diskVars>>

-----------------------------------------------------------------------------
(* A crash, and the start of the next process of the node (Consensus::new, *)
(* restore_state).                                                         *)

\* What a crash can find in raft_meta.bin: what the last handler stored, or,
\* inside a handler that was adopting the newer term of a request, that term
\* with no vote (become_follower stores it before the handler goes on).
CrashMeta(i) ==
  {meta[i]} \cup
  {[current_term |-> m.term, voted_for |-> Nil] :
     m \in {n \in rv_req \cup ae_req : n.to = i /\ n.term > current_term[i]}}

\* The log comes back from a hash map filled with the records that reached
\* the file: some of the records handed to the writer, in any order,
\* repeated if they were written repeatedly.
Restart(i, stored) ==
  /\ restarts < MaxRestarts
  /\ restarts' = restarts + 1
  /\ meta' = [meta EXCEPT ![i] = stored]
  /\ state' = [state EXCEPT ![i] = "Follower"]
  /\ current_term' = [current_term EXCEPT ![i] = stored.current_term]
  /\ voted_for' = [voted_for EXCEPT ![i] = stored.voted_for]
  /\ \E n \in 0..MaxLog : \E restored \in [1..n -> log_disk[i]] :
       /\ logs' = [logs EXCEPT ![i] = restored]
       /\ last_persisted_log' = [last_persisted_log EXCEPT ![i] = Max({n - 1, 0})]
  /\ vote_count' = [vote_count EXCEPT ![i] = 0]
  /\ counted' = [counted EXCEPT ![i] = {}]
  /\ leader_id' = [leader_id EXCEPT ![i] = Nil]
  /\ next_index' = [next_index EXCEPT ![i] = [j \in Server |-> 0]]
  /\ boot_term' = [boot_term EXCEPT ![i] = stored.current_term]
  /\ ae_rep' = {r \in ae_rep : r.to # i}
  /\ UNCHANGED <<elected, log_disk, rvVars, ae_req>>

-----------------------------------------------------------------------------
LogNext ==
  \/ \E i \in Server : StartElection(i)
  \/ \E m \in rv_req : HandleRequestVote(m)
  \/ \E r \in rv_rep : VoteResultNewer(r)
  \/ \E r \in rv_rep : VoteResultGranted(r)
  \/ \E i \in Server, cmd \in Command : Submit(i, cmd)
  \/ \E i \in Server : \E called \in SUBSET Peers(i), c \in CommitHint :
       SendAES(i, called, c)
  \/ \E m \in ae_req : AppendStale(m)
  \/ \E m \in ae_req : AppendConflict(m)
  \/ \E m \in ae_req : AppendAccept(m)
  \/ \E r \in ae_rep : AppendResultNewer(r)
  \/ \E r \in ae_rep : AppendResultSuccess(r)
  \/ \E r \in ae_rep : AppendResultConflict(r)
  \/ \E r \in ae_rep : AppendResultLost(r)
  \/ \E i \in Server : \E stored \in CrashMeta(i) : Restart(i, stored)

LogSpec == LogInit /\ [][LogNext]_logVars

-----------------------------------------------------------------------------
(* Properties.                                                             *)

LogTypeOK ==
  /\ state \in [Server -> State]
  /\ current_term \in [Server -> Nat]
  /\ voted_for \in [Server -> Server \cup {Nil}]
  /\ leader_id \in [Server -> Server \cup {Nil}]
  /\ vote_count \in [Server -> Nat]
  /\ counted \in [Server -> SUBSET Server]
  /\ elected \in SUBSET (Server \X Nat)
  /\ logs \in [Server -> Seq(LogEntry)]
  /\ next_index \in [Server -> [Server -> Nat]]
  /\ meta \in [Server -> Metadata]
  /\ log_disk \in [Server -> SUBSET LogEntry]
  /\ last_persisted_log \in [Server -> Nat]
  /\ rv_req \in SUBSET RequestVote
  /\ rv_rep \in SUBSET RequestVoteReply
  /\ ae_req \in SUBSET AppendEntries
  /\ ae_rep \in SUBSET AppendEntriesReply
  /\ boot_term \in [Server -> Nat]
  /\ restarts \in Nat

\* Two nodes never win the election of the same term, at once or one after
\* the other, even when a node crashes after granting a vote: term and vote
\* are stored (persist_state) before request_vote is answered.
ElectionSafety ==
  \A e, f \in elected : e[2] = f[2] => e = f

\* The gate of every write command, is_leader(), is open exactly on a node
\* whose actor leads: LEADER_ID is its own id if and only if it is Leader.
IsLeaderExact ==
  \A i \in Server : leader_id[i] = i <=> state[i] = "Leader"

\* A follower redirects clients (LEADER_ID) to the leader of its own term,
\* never to the leader of a term it has left behind.
RedirectCurrent ==
  \A i \in Server :
    state[i] = "Follower" /\ leader_id[i] # Nil =>
      <<leader_id[i], current_term[i]>> \in elected

\* A vote a node has given away is on its disk: were it to restart now it
\* could not vote for another candidate of that term.
VoteDurable ==
  \A r \in rv_rep :
    r.voted => \/ meta[r.from].current_term > r.req
               \/ /\ meta[r.from].current_term = r.req
                  /\ meta[r.from].voted_for = r.to

\* Two logs that agree on the term of an index agree on everything up to it.
LogMatching ==
  \A i, j \in Server :
    \A k \in 1..Min({Len(logs[i]), Len(logs[j])}) :
      logs[i][k].term = logs[j][k].term =>
        \A h \in 1..k : logs[i][h] = logs[j][h]

\* While a node leads, append_entries from elsewhere never rewrites its log.
LeaderAppendOnly ==
  [][\A i \in Server :
       state[i] = "Leader" /\ state'[i] = "Leader" =>
         /\ Len(logs[i]) <= Len(logs'[i])
         /\ SubSeq(logs'[i], 1, Len(logs[i])) = logs[i]]_logVars

\* A probe that a follower refused is followed by one strictly earlier in the
\* log, so the search for the common prefix ends (the conflict_term jump of
\* handle_ae_res never moves forward).
BackoffProgress ==
  \A r \in ae_rep :
    ForLeader(r) /\ r.req = r.term /\ ~r.success =>
      NextAfterConflict(logs[r.to], r) < r.ni

=============================================================================
