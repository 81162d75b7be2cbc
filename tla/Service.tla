------------------------------- MODULE Service -------------------------------
(***************************************************************************)
(* How a write travels through one node: handle_consensus                  *)
(* (efis/src/efis.rs) hands the command to the Raft actor and waits for    *)
(* the apply loop to answer; the actor appends, commits and sends the      *)
(* committed entries (efis/src/consensus.rs) through two bounded broadcast *)
(* channels to the apply loop.  Replication to the peers is reduced to the *)
(* acknowledgements it produces, a new leader to the entries it appends.   *)
(*                                                                         *)
(* A command is <<client, call>>, so each is different.  A broadcast       *)
(* channel is the sequence of everything sent and the position of its      *)
(* receiver; a receiver more than the capacity behind has lost entries.    *)
(***************************************************************************)
EXTENDS Integers, Sequences, FiniteSets

CONSTANTS
    Client,         \* the connections that submit writes
    Other,          \* stands for clients of other nodes
    MailboxCap,     \* capacity of the actor's mailbox (1024)
    CommitCap,      \* capacity of commit_chan (1024)
    RelayCap,       \* capacity of the channel to the apply loop (16)
    MaxCalls,       \* bound: calls
    MaxTimeouts,    \* bound: calls that time out
    MaxChanges,     \* bound: times the node stops being leader
    MaxForeign      \* bound: length of the log that another leader makes

ASSUME ServiceCapAssumption ==
    MailboxCap \in Nat \ {0} /\ CommitCap \in Nat \ {0} /\ RelayCap \in Nat \ {0}

VARIABLES
    call,           \* call[c]: what the client's call is doing
    calls, timeouts, changes,   \* counters for the bounds
    mailbox,        \* the actor's mailbox
    out,            \* what the running handler still sends to its own mailbox
    leader,         \* is the node the leader?
    log, log_index, \* the actor's log, and the length others read
    base,           \* length of the log when the node became leader
    acks,           \* leaderships with an append_entries reply on its way
    commit,         \* number of committed entries
    sent,           \* what went into commit_chan, ever
    relay,          \* position of the relay task in it, -1: not subscribed
    relayed,        \* what the relay sent to the apply loop, ever
    apply,          \* position of the apply loop in that
    applied,        \* history: the entries applied
    subs,           \* the waiting calls: index |-> <<client, call>>
    indexes         \* history: the indexes calls were given

serviceVars == <<call, calls, timeouts, changes, mailbox, out, leader, log,
                 log_index, base, acks, commit, sent, relay, relayed, apply,
                 applied, subs, indexes>>
callVars == <<call, calls, timeouts, subs, indexes>>
termVars == <<leader, changes, base>>
actorVars == <<mailbox, out, termVars, log, log_index, acks, commit>>
pipeVars == <<sent, relay, relayed, apply, applied>>

NoCmd == <<Other, 0>>
Submit(cmd) == [kind |-> "Submit", cmd |-> cmd, term |-> 0]
SendAES == [kind |-> "SendAES", cmd |-> NoCmd, term |-> 0]
SendCommit == [kind |-> "SendCommit", cmd |-> NoCmd, term |-> 0]
AppendEntryResult(t) == [kind |-> "Result", cmd |-> NoCmd, term |-> t]
Idle(ans) == [at |-> "idle", n |-> 0, index |-> 0, ans |-> ans]
NoAnswer == [res |-> "none", cmd |-> NoCmd, own |-> NoCmd]

ServiceInit ==
    /\ call = [c \in Client |-> Idle(NoAnswer)]
    /\ calls = 0 /\ timeouts = 0 /\ changes = 0
    /\ mailbox = <<>> /\ out = <<>>
    /\ leader = TRUE
    /\ log = <<>> /\ log_index = 0 /\ commit = 0
    /\ base = 0 /\ acks = {}
    /\ sent = <<>>
    /\ relay = -1
    /\ relayed = <<>> /\ apply = 0 /\ applied = <<>>
    /\ subs = <<>> /\ indexes = <<>>

-----------------------------------------------------------------------------
(* handle_consensus                                                        *)

Answered(c, res, cmd) ==
    Idle([res |-> res, cmd |-> cmd, own |-> <<c, call[c].n>>])

\* Mutant: the index after the one the command will get.
LoadNext(c) ==
    /\ call[c].at = "idle" /\ calls < MaxCalls
    /\ leader
    /\ calls' = calls + 1
    /\ call' = [call EXCEPT ![c] = [at |-> "loaded", n |-> calls + 1,
                                    index |-> log_index + 1, ans |-> NoAnswer]]
    /\ indexes' = Append(indexes, log_index + 1)
    /\ UNCHANGED <<timeouts, subs, actorVars, pipeVars>>

\* The leader check lets the call in; submit reads log_index.
Load(c) ==
    /\ call[c].at = "idle" /\ calls < MaxCalls
    /\ leader
    /\ calls' = calls + 1
    /\ call' = [call EXCEPT ![c] = [at |-> "loaded", n |-> calls + 1,
                                    index |-> log_index, ans |-> NoAnswer]]
    /\ indexes' = Append(indexes, log_index)
    /\ UNCHANGED <<timeouts, subs, actorVars, pipeVars>>

\* submit sends the command, once there is room.
Send(c) ==
    /\ call[c].at = "loaded"
    /\ Len(mailbox) < MailboxCap
    /\ mailbox' = Append(mailbox, Submit(<<c, call[c].n>>))
    /\ call' = [call EXCEPT ![c].at = "sent"]
    /\ UNCHANGED <<calls, timeouts, subs, indexes, out, termVars, log,
                   log_index, acks, commit, pipeVars>>

\* The call a waiter belongs to is still waiting.
Waits(w) == w[1] \in Client /\ call[w[1]].at = "waiting" /\ call[w[1]].n = w[2]

\* The waiter goes into subs; one that had the same index is dropped, and
\* its call ends with "broadcast recv error".
Register(c) ==
    LET i == call[c].index
        waiting == [call EXCEPT ![c].at = "waiting"]
        old == IF i \in DOMAIN subs THEN subs[i] ELSE NoCmd
    IN  /\ call[c].at = "sent"
        /\ subs' = [k \in DOMAIN subs \cup {i} |->
                      IF k = i THEN <<c, call[c].n>> ELSE subs[k]]
        /\ call' = IF Waits(old)
                   THEN [waiting EXCEPT ![old[1]] = Answered(old[1], "err", NoCmd)]
                   ELSE waiting
        /\ UNCHANGED <<calls, timeouts, indexes, actorVars, pipeVars>>

\* Mutant: a call whose command is in the log waits without a limit.
TimeoutUnlogged(c) ==
    /\ call[c].at = "waiting" /\ timeouts < MaxTimeouts
    /\ \A k \in 1 .. Len(log) : log[k] # <<c, call[c].n>>
    /\ timeouts' = timeouts + 1
    /\ call' = [call EXCEPT ![c] = Answered(c, "err", NoCmd)]
    /\ UNCHANGED <<calls, subs, indexes, actorVars, pipeVars>>

\* After five seconds; the waiter stays in subs.
Timeout(c) ==
    /\ call[c].at = "waiting" /\ timeouts < MaxTimeouts
    /\ timeouts' = timeouts + 1
    /\ call' = [call EXCEPT ![c] = Answered(c, "err", NoCmd)]
    /\ UNCHANGED <<calls, subs, indexes, actorVars, pipeVars>>

-----------------------------------------------------------------------------
(* The actor takes one message at a time; what it sends to itself goes     *)
(* through the same bounded mailbox, and it waits for room there.          *)

Takes(kind) == out = <<>> /\ mailbox # <<>> /\ Head(mailbox).kind = kind

SelfSend ==
    /\ out # <<>> /\ Len(mailbox) < MailboxCap
    /\ mailbox' = Append(mailbox, Head(out))
    /\ out' = Tail(out)
    /\ UNCHANGED <<callVars, termVars, log, log_index, acks, commit, pipeVars>>

\* _submit; a node that is not leader any more drops the command.
TakeSubmit ==
    /\ Takes("Submit")
    /\ mailbox' = Tail(mailbox)
    /\ IF leader
       THEN /\ log' = Append(log, Head(mailbox).cmd)
            /\ log_index' = log_index + 1
            /\ out' = <<SendAES>>
       ELSE UNCHANGED <<log, log_index, out>>
    /\ UNCHANGED <<callVars, termVars, acks, commit, pipeVars>>

\* send_leader_aes; replies of the same leadership are not told apart.
TakeAES ==
    /\ Takes("SendAES")
    /\ mailbox' = Tail(mailbox)
    /\ acks' = IF leader THEN acks \cup {changes} ELSE acks
    /\ UNCHANGED <<callVars, out, termVars, log, log_index, commit, pipeVars>>

\* The task that made the call hands in the reply.
AckReply(t) ==
    /\ t \in acks /\ Len(mailbox) < MailboxCap
    /\ acks' = acks \ {t}
    /\ mailbox' = Append(mailbox, AppendEntryResult(t))
    /\ UNCHANGED <<callVars, out, termVars, log, log_index, commit, pipeVars>>

\* Mutant: a commit is passed on with the next heartbeat only.
TakeResultQuiet ==
    /\ Takes("Result")
    /\ mailbox' = Tail(mailbox)
    /\ IF /\ leader /\ Head(mailbox).term = changes
          /\ Len(log) > base /\ Len(log) > commit
       THEN commit' = Len(log) /\ out' = <<SendAES>>
       ELSE UNCHANGED <<commit, out>>
    /\ UNCHANGED <<callVars, termVars, log, log_index, acks, pipeVars>>

\* handle_ae_res, for the reply that completes a majority: it counts for the
\* log as it is now, and commits if the last entry is of this leadership.
TakeResult ==
    /\ Takes("Result")
    /\ mailbox' = Tail(mailbox)
    /\ IF /\ leader /\ Head(mailbox).term = changes
          /\ Len(log) > base /\ Len(log) > commit
       THEN commit' = Len(log) /\ out' = <<SendCommit, SendAES>>
       ELSE UNCHANGED <<commit, out>>
    /\ UNCHANGED <<callVars, termVars, log, log_index, acks, pipeVars>>

\* Mutant: all the entries of the log are sent, committed or not.
TakeSendCommitAll ==
    LET new == [k \in 1 .. Len(log) - Len(sent) |->
                  [index |-> Len(sent) + k - 1, cmd |-> log[Len(sent) + k]]]
    IN  /\ Takes("SendCommit")
        /\ mailbox' = Tail(mailbox)
        /\ sent' = sent \o new
        /\ UNCHANGED <<callVars, out, termVars, log, log_index, acks, commit,
                       relay, relayed, apply, applied>>

\* send_commits: last_applied is the number of entries sent so far.
TakeSendCommit ==
    LET new == [k \in 1 .. commit - Len(sent) |->
                  [index |-> Len(sent) + k - 1, cmd |-> log[Len(sent) + k]]]
    IN  /\ Takes("SendCommit")
        /\ mailbox' = Tail(mailbox)
        /\ sent' = sent \o new
        /\ UNCHANGED <<callVars, out, termVars, log, log_index, acks, commit,
                       relay, relayed, apply, applied>>

\* The node hears of a newer term.
StepDown ==
    /\ leader /\ out = <<>> /\ changes < MaxChanges
    /\ leader' = FALSE /\ changes' = changes + 1
    /\ UNCHANGED <<callVars, mailbox, out, base, log, log_index, acks, commit,
                   pipeVars>>

\* append_entries of another leader: entries that are not committed are
\* replaced by one of its own, which it may already have committed.
ForeignAppend(k, done) ==
    /\ ~leader /\ out = <<>> /\ k >= commit /\ k < MaxForeign
    /\ log' = Append(SubSeq(log, 1, k), <<Other, k + 1>>)
    /\ log_index' = k + 1
    /\ commit' = IF done THEN k + 1 ELSE commit
    /\ out' = IF done THEN <<SendCommit>> ELSE <<>>
    /\ UNCHANGED <<callVars, mailbox, termVars, acks, pipeVars>>

\* The node is elected again.
StepUp ==
    /\ ~leader /\ out = <<>>
    /\ leader' = TRUE
    /\ base' = Len(log)
    /\ out' = <<SendAES>>
    /\ UNCHANGED <<callVars, mailbox, changes, log, log_index, acks, commit, pipeVars>>

-----------------------------------------------------------------------------
(* subscribe and the apply loop (process_cmd).                             *)

SubscribeCommits ==
    /\ relay = -1
    /\ relay' = Len(sent)
    /\ UNCHANGED <<callVars, actorVars, sent, relayed, apply, applied>>

\* A receiver that lags continues with the oldest entry still there.
RelayLag ==
    /\ relay # -1 /\ Len(sent) - relay > CommitCap
    /\ relay' = Len(sent) - CommitCap
    /\ UNCHANGED <<callVars, actorVars, sent, relayed, apply, applied>>

\* Mutant: an entry may be sent twice.
RelayAgain ==
    /\ relay # -1 /\ relay < Len(sent) /\ Len(sent) - relay <= CommitCap
    /\ relayed' = Append(relayed, sent[relay + 1])
    /\ relay' \in {relay, relay + 1} /\ Len(relayed) <= MaxCalls
    /\ UNCHANGED <<callVars, actorVars, sent, apply, applied>>

RelayCommit ==
    /\ relay # -1 /\ relay < Len(sent) /\ Len(sent) - relay <= CommitCap
    /\ relayed' = Append(relayed, sent[relay + 1])
    /\ relay' = relay + 1
    /\ UNCHANGED <<callVars, actorVars, sent, apply, applied>>

ApplyLag ==
    /\ Len(relayed) - apply > RelayCap
    /\ apply' = Len(relayed) - RelayCap
    /\ UNCHANGED <<callVars, actorVars, sent, relay, relayed, applied>>

\* handle_commands!: apply the command, answer whoever waits at its index.
ApplyEntry ==
    LET e == relayed[apply + 1]
        w == IF e.index \in DOMAIN subs THEN subs[e.index] ELSE NoCmd
    IN  /\ apply < Len(relayed) /\ Len(relayed) - apply <= RelayCap
        /\ apply' = apply + 1
        /\ applied' = Append(applied, e)
        /\ subs' = [k \in DOMAIN subs \ {e.index} |-> subs[k]]
        /\ call' = IF Waits(w) THEN [call EXCEPT ![w[1]] = Answered(w[1], "ok", e.cmd)]
                   ELSE call
        /\ UNCHANGED <<calls, timeouts, indexes, actorVars, sent, relay, relayed>>

-----------------------------------------------------------------------------

Actor == SelfSend \/ TakeSubmit \/ TakeAES \/ TakeResult \/ TakeSendCommit

ServiceNext ==
    \/ \E c \in Client : Load(c) \/ Send(c) \/ Register(c) \/ Timeout(c)
    \/ Actor
    \/ \E t \in acks : AckReply(t)
    \/ StepDown \/ StepUp
    \/ \E k \in 0 .. Len(log), done \in BOOLEAN : ForeignAppend(k, done)
    \/ SubscribeCommits \/ RelayLag \/ RelayCommit \/ ApplyLag \/ ApplyEntry

ServiceSpec == ServiceInit /\ [][ServiceNext]_serviceVars

\* Every task is scheduled and the five-second timer fires.
ServiceFairness ==
    /\ WF_serviceVars(Actor)
    /\ \A t \in 0 .. MaxChanges : WF_serviceVars(AckReply(t))
    /\ WF_serviceVars(RelayCommit \/ RelayLag)
    /\ WF_serviceVars(ApplyEntry \/ ApplyLag)
    /\ \A c \in Client : /\ WF_serviceVars(Send(c))
                         /\ WF_serviceVars(Register(c))
                         /\ WF_serviceVars(Timeout(c))

-----------------------------------------------------------------------------
(* Properties.                                                             *)

\* The apply loop never applies an entry twice or out of order, however far
\* it and the relay fall behind and whenever they subscribe
\* (consensus.rs:841-858, efis.rs:203-235).
AppliedIncreasing ==
    \A i, j \in DOMAIN applied : i < j => applied[i].index < applied[j].index

\* "every node agrees on the exact same state" (README.md:29): what was
\* applied at an index is what the log has there, and stays there when
\* another leader replaces entries (consensus.rs:806-830).
AppliedAgrees ==
    \A i \in DOMAIN applied :
        /\ applied[i].index < Len(log)
        /\ applied[i].cmd = log[applied[i].index + 1]

\* The log index that submit returns is a guess (consensus.rs:836).  As long
\* as no two calls were given the same one and the leader stays, a call that
\* is answered ok gets the result of its own command.
OwnAnswerUnlessShared ==
    (changes = 0 /\ \A i, j \in DOMAIN indexes : indexes[i] = indexes[j] => i = j) =>
        \A c \in Client : call[c].ans.res = "ok" => call[c].ans.cmd = call[c].ans.own

\* Every call ends, with an answer or an error, as long as the mailbox never
\* fills up: the time limit makes up for a waiter registered too late or
\* dropped (efis.rs:238-254).
CallsReturn == []<>(\A c \in Client : call[c].at = "idle")

\* While the leader stays and someone is subscribed, every command in its log
\* gets through the channels to the apply loop (consensus.rs:806-858).
LoggedIsApplied ==
    []<>(\/ changes > 0 \/ relay = -1
         \/ Len(sent) = Len(log) /\ relay = Len(sent) /\ apply = Len(relayed))
=============================================================================
