----------------------------- MODULE Consensus -----------------------------
(***************************************************************************)
(* The whole actor of efis/src/consensus.rs: the elections and the log of  *)
(* RaftLog, and the commit pipeline on top of it, from match_index and     *)
(* commit_index to the entries sent on commit_chan.  Each handler is the   *)
(* action of RaftLog for its effect on terms, votes and logs, conjoined    *)
(* with its effect on the pipeline; a node whose actor task panicked runs  *)
(* no handler until it is started again.                                   *)
(***************************************************************************)
EXTENDS RaftLog

ASSUME CommitHintAssumption == -1..(MaxLog - 1) \subseteq CommitHint

VARIABLES
  match_index, commit_index, last_applied,
  send_commit,   \* a SendCommit message waits in the node's mailbox
  commit_chan,   \* the commit entries this process has sent, in order
  applied_disk,  \* the last_applied stored in raft_meta.bin
  panicked       \* the actor task has panicked

pipelineVars == <<match_index, commit_index, last_applied, send_commit,
                  commit_chan>>
vars == <<logVars, pipelineVars, applied_disk, panicked>>

\* The term of a CommitEntry is left out: no subscriber reads it.
CommitEntry == [index : Nat, command : Command]

Init ==
  /\ LogInit
  /\ match_index = [i \in Server |-> [j \in Server |-> 0]]
  /\ commit_index = [i \in Server |-> None]
  /\ last_applied = [i \in Server |-> None]
  /\ send_commit = [i \in Server |-> FALSE]
  /\ commit_chan = [i \in Server |-> <<>>]
  /\ applied_disk = [i \in Server |-> None]
  /\ panicked = [i \in Server |-> FALSE]

-----------------------------------------------------------------------------
\* The actor of node i runs a handler to its end.  raft_meta.bin is written
\* when the term or the vote changed, and last_applied goes with it.
Handler(i) ==
  /\ ~panicked[i]
  /\ UNCHANGED panicked
  /\ applied_disk' = [applied_disk EXCEPT ![i] =
                        IF meta'[i] # meta[i] THEN last_applied[i] ELSE @]

\* A handler that leaves the commit pipeline alone.
Quiet(i) == Handler(i) /\ UNCHANGED pipelineVars

\* start_leader forgets what the peers hold.
VoteGranted(r) ==
  /\ VoteResultGranted(r)
  /\ Handler(r.to)
  /\ match_index' = [match_index EXCEPT ![r.to] =
                       IF state'[r.to] = "Leader" THEN [j \in Server |-> 0] ELSE @]
  /\ UNCHANGED <<commit_index, last_applied, send_commit, commit_chan>>

FollowerCommitLaterOnly(old, leader_commit, len) ==
  IF leader_commit # None /\ len > 0 /\ old # None
  THEN Max({old, Min({leader_commit, len - 1})})
  ELSE old
\* A follower commits what the leader has committed, as far as its own log
\* reaches after the splice.
FollowerCommit(old, leader_commit, len) ==
  IF leader_commit # None /\ len > 0
  THEN Max({old, Min({leader_commit, len - 1})})
  ELSE old

AcceptEntries(m) ==
  LET i == m.to
  IN  /\ AppendAccept(m)
      /\ Handler(i)
      /\ commit_index' = [commit_index EXCEPT ![i] =
                            FollowerCommit(@, m.leader_commit, Len(logs'[i]))]
      /\ send_commit' = [send_commit EXCEPT ![i] =
                           @ \/ commit_index'[i] # commit_index[i]]
      /\ UNCHANGED <<match_index, last_applied, commit_chan>>

\* Index k is on more than half of the nodes, counting the leader i itself,
\* as far as match_index says.
Replicated(i, match, k) ==
  2 * (1 + Cardinality({j \in Peers(i) : match[j] >= k})) > Cardinality(Server)

\* The last entry of the leader's own term, from its commit_index on (which
\* counts as 0 when there is none), that is replicated.
LeaderCommit(i, match) ==
  Max({commit_index[i]} \cup
      {k \in Max({commit_index[i], 0})..(Len(logs[i]) - 1) :
         logs[i][k + 1].term = current_term[i] /\ Replicated(i, match, k)})

MatchAfter(l) == Max({Len(l) - 1, 0})

\* match_index follows next_index, which is now the end of the log.
EntriesAccepted(r) ==
  LET i == r.to
  IN  /\ AppendResultSuccess(r)
      /\ Handler(i)
      /\ match_index' = [match_index EXCEPT ![i][r.from] = MatchAfter(logs[i])]
      /\ commit_index' = [commit_index EXCEPT ![i] = LeaderCommit(i, match_index'[i])]
      /\ send_commit' = [send_commit EXCEPT ![i] =
                           @ \/ commit_index'[i] # commit_index[i]]
      /\ UNCHANGED <<last_applied, commit_chan>>

\* The reply never reaches the actor, or it is not about this leadership.
ResultIgnored(r) ==
  /\ AppendResultLost(r)
  /\ UNCHANGED <<pipelineVars, applied_disk, panicked>>

\* logs[ni..] is taken before anything else is looked at.
ResultPanic(r) ==
  /\ ~panicked[r.to]
  /\ r.term <= current_term[r.to]
  /\ r.ni > Len(logs[r.to])
  /\ AppendResultLost(r)
  /\ panicked' = [panicked EXCEPT ![r.to] = TRUE]
  /\ UNCHANGED <<pipelineVars, applied_disk>>

-----------------------------------------------------------------------------
(* send_commits.                                                           *)

StartIndexRepeat(i) == Max({last_applied[i], 0})
StartIndex(i) == last_applied[i] + 1

Due(i) == commit_index[i] >= StartIndex(i) /\ StartIndex(i) < Len(logs[i])

SendCommits(i) ==
  LET start == StartIndex(i)
      sent == [k \in 1..(commit_index[i] - start + 1) |->
                 [index |-> start + k - 1, command |-> logs[i][start + k].command]]
  IN  /\ send_commit[i]
      /\ send_commit' = [send_commit EXCEPT ![i] = FALSE]
      /\ Due(i) => commit_index[i] < Len(logs[i])
      /\ IF Due(i)
         THEN /\ commit_chan' = [commit_chan EXCEPT ![i] = @ \o sent]
              /\ last_applied' = [last_applied EXCEPT ![i] = commit_index[i]]
         ELSE UNCHANGED <<commit_chan, last_applied>>
      /\ UNCHANGED <<logVars, match_index, commit_index>>
      /\ Handler(i)

\* logs[start..=commit_index] reaches beyond the log.
SendCommitsPanic(i) ==
  /\ ~panicked[i]
  /\ send_commit[i]
  /\ Due(i)
  /\ commit_index[i] >= Len(logs[i])
  /\ panicked' = [panicked EXCEPT ![i] = TRUE]
  /\ UNCHANGED <<logVars, pipelineVars, applied_disk>>

-----------------------------------------------------------------------------
\* commit_index starts over; last_applied is the stored one.
RestartNode(i) ==
  /\ \E stored \in CrashMeta(i) : Restart(i, stored)
  /\ match_index' = [match_index EXCEPT ![i] = [j \in Server |-> 0]]
  /\ commit_index' = [commit_index EXCEPT ![i] = None]
  /\ applied_disk' = [applied_disk EXCEPT ![i] =
                        IF meta'[i] # meta[i] THEN last_applied[i] ELSE @]
  /\ last_applied' = [last_applied EXCEPT ![i] = applied_disk'[i]]
  /\ send_commit' = [send_commit EXCEPT ![i] = FALSE]
  /\ commit_chan' = [commit_chan EXCEPT ![i] = <<>>]
  /\ panicked' = [panicked EXCEPT ![i] = FALSE]

Next ==
  \/ \E i \in Server : StartElection(i) /\ Quiet(i)
  \/ \E m \in rv_req : HandleRequestVote(m) /\ Quiet(m.to)
  \/ \E r \in rv_rep : VoteResultNewer(r) /\ Quiet(r.to)
  \/ \E i \in Server, cmd \in Command : Submit(i, cmd) /\ Quiet(i)
  \/ \E i \in Server : \E called \in SUBSET Peers(i) :
       SendAES(i, called, commit_index[i]) /\ Quiet(i)
  \/ \E m \in ae_req : AppendStale(m) /\ Quiet(m.to)
  \/ \E m \in ae_req : AppendConflict(m) /\ Quiet(m.to)
  \/ \E r \in ae_rep : AppendResultNewer(r) /\ Quiet(r.to)
  \/ \E r \in ae_rep : AppendResultConflict(r) /\ Quiet(r.to)
  \/ \E r \in rv_rep : VoteGranted(r)
  \/ \E m \in ae_req : AcceptEntries(m)
  \/ \E r \in ae_rep : EntriesAccepted(r)
  \/ \E r \in ae_rep : ResultIgnored(r)
  \/ \E r \in ae_rep : ResultPanic(r)
  \/ \E i \in Server : SendCommits(i)
  \/ \E i \in Server : SendCommitsPanic(i)
  \/ \E i \in Server : RestartNode(i)

Spec == Init /\ [][Next]_vars

\* The heartbeat task asks for send_leader_aes for ever, and not every
\* call to a peer fails; a request that arrives is handled; the replies of a
\* peer are not all lost; a message in the mailbox is handled.
Heartbeat(i, j) ==
  \E called \in SUBSET Peers(i) :
    j \in called /\ SendAES(i, called, commit_index[i]) /\ Quiet(i)
Handled(m) ==
  \/ AppendStale(m) /\ Quiet(m.to)
  \/ AppendConflict(m) /\ Quiet(m.to)
  \/ AcceptEntries(m)
Answered(r) ==
  \/ AppendResultNewer(r) /\ Quiet(r.to)
  \/ AppendResultConflict(r) /\ Quiet(r.to)
  \/ EntriesAccepted(r)
Fairness ==
  \A i \in Server :
    /\ \A j \in Peers(i) :
         /\ SF_vars(Heartbeat(i, j))
         /\ SF_vars(\E r \in ae_rep : r.to = i /\ r.from = j /\ Answered(r))
    /\ WF_vars(\E m \in ae_req : m.to = i /\ Handled(m))
    /\ WF_vars(SendCommits(i))

-----------------------------------------------------------------------------
(* Properties.                                                             *)

TypeOK ==
  /\ match_index \in [Server -> [Server -> Nat]]
  /\ commit_index \in [Server -> OptIndex]
  /\ last_applied \in [Server -> OptIndex]
  /\ send_commit \in [Server -> BOOLEAN]
  /\ commit_chan \in [Server -> Seq(CommitEntry)]
  /\ applied_disk \in [Server -> OptIndex]
  /\ panicked \in [Server -> BOOLEAN]

\* Elections and logs are those of RaftLog: the commit pipeline and the
\* panics only read them (send_commits, handle_ae_res), and the leader_commit
\* of a request is always the index of an entry, or None.
LogStep == [][LogNext]_logVars

\* A process hands its subscribers consecutive indexes, none twice and none
\* left out, whatever happens to the log, to commit_index and to the role of
\* the node between two SendCommit messages.
StreamContiguous ==
  \A i \in Server : \A k \in 1..Len(commit_chan[i]) :
    commit_chan[i][k].index = last_applied[i] - Len(commit_chan[i]) + k

\* Two nodes never send different commands for the same index: every node
\* applies the same sequence ("every node agrees on the exact same state").
StateMachineSafety ==
  \A i, j \in Server :
    \A a \in 1..Len(commit_chan[i]), b \in 1..Len(commit_chan[j]) :
      commit_chan[i][a].index = commit_chan[j][b].index =>
        commit_chan[i][a].command = commit_chan[j][b].command

\* A process that starts has an empty store, so what it sends to its
\* subscribers starts with the first entry of the log: "Restores state on
\* startup", "every node agrees on the exact same state".
StreamFromStart ==
  \A i \in Server : commit_chan[i] # <<>> => commit_chan[i][1].index = 0

\* While one leader lasts, every command it has accepted is sent to the
\* subscribers of every node: the back-off finds each follower's log, the
\* reply commits, and the next heartbeat carries the commit.
AcceptedIsApplied ==
  \A n \in 1..MaxLog :
    (\E i \in Server : state[i] = "Leader" /\ Len(logs[i]) >= n)
      ~> (\A j \in Server : Len(commit_chan[j]) >= n)

\* No legal sequence of calls makes the actor of a node panic: "Cluster can
\* continue functioning after node failures".
ActorAlive == \A i \in Server : ~panicked[i]

=============================================================================
