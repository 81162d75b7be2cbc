----------------------------- MODULE StreamProofs ----------------------------
(***************************************************************************)
(* What the agreement of the logs is good for, until the first crash: a    *)
(* refused append_entries call is followed by one strictly earlier, and    *)
(* until a second leader is elected all nodes hand the same commands to    *)
(* their subscribers.                                                      *)
(***************************************************************************)
EXTENDS LogProofs

-----------------------------------------------------------------------------
(* The replies.                                                            *)

\* A refusal that still concerns its leader points before the probe, and the
\* leader has no entry of the conflicting term from there on.
Refused(r) ==
  /\ ~r.success /\ r.req = r.term
  /\ state[r.to] = "Leader" /\ current_term[r.to] = r.req
HintsBack(r) ==
  /\ r.conflict_index \in 0..(r.ni - 1)
  /\ r.conflict_term # r.req
  /\ r.conflict_term # None =>
       \A k \in 1..Len(logs[r.to]) :
         logs[r.to][k].term = r.conflict_term => k < r.ni
ReplyInv ==
  \A r \in ae_rep : /\ <<r.to, r.req>> \in elected
                    /\ Refused(r) => HintsBack(r)

\* Until the first crash.
ProbeInv == restarts = 0 => ReplyInv

\* Replies on their way stay right while the leaders stay.
LEMMA RepliesKept ==
  ASSUME LogTypeOK, ReplyInv, LeadersStay, elected' = elected,
         NEW r \in ae_rep
  PROVE  /\ <<r.to, r.req>> \in elected'
         /\ Refused(r)' => HintsBack(r)'
<1>1. r.to \in Server
  BY Zenon DEF LogTypeOK, AppendEntriesReply
<1>2. <<r.to, r.req>> \in elected /\ (Refused(r) => HintsBack(r))
  BY Zenon DEF ReplyInv
<1>3. Refused(r)' => Refused(r) /\ logs'[r.to] = logs[r.to]
  BY <1>1, Zenon DEF LeadersStay, Refused
<1> QED
  BY <1>2, <1>3, Zenon DEF HintsBack

\* The reply to a request that does not match says where to probe: the
\* leader has no entry of the conflicting term from the probe on, because
\* the entry there would be the follower's.
LEMMA ConflictHint ==
  ASSUME LogTypeOK, LeaderInv, NEW full, LogInv(full), LeadersStay,
         NEW m \in ae_req, AppendConflict(m),
         NEW r, r = [from |-> m.to, to |-> m.from, req |-> m.term,
                     ni |-> m.prev_log_index + 1, term |-> current_term'[m.to],
                     success |-> FALSE,
                     conflict_index |-> IF m.prev_log_index >= Len(logs[m.to])
                                        THEN Len(logs[m.to])
                                        ELSE FirstOfTerm(logs[m.to], m.prev_log_index),
                     conflict_term |-> IF m.prev_log_index >= Len(logs[m.to])
                                       THEN None
                                       ELSE logs[m.to][m.prev_log_index + 1].term],
         Refused(r)'
  PROVE  HintsBack(r)'
<1> DEFINE i == m.to
           idx == m.prev_log_index
           own == logs[m.to]
           lead == logs[m.from]
           t == m.term
<1>1. /\ m \in AppendEntries /\ i \in Server /\ m.from \in Server
      /\ idx \in OptIndex /\ t \in Nat /\ own \in Seq(LogEntry)
      /\ lead \in Seq(LogEntry)
  BY Zenon DEF LogTypeOK, AppendEntries
<1>2. r.to = m.from /\ r.req = t /\ r.ni = idx + 1
  BY Zenon
<1>3. /\ state[m.from] = "Leader" /\ current_term[m.from] = t
      /\ logs'[m.from] = lead
  BY <1>1, <1>2, Zenon DEF LeadersStay, Refused
<1>4. idx # None /\ (idx < Len(own) => own[idx + 1].term # m.prev_log_term)
  BY Zenon DEF AppendConflict, PrevOk
<1>5. idx \in Nat /\ Len(own) \in Nat /\ Len(lead) \in Nat
  BY <1>1, <1>4 DEF OptIndex
<1>6. Extends(lead, full[m]) /\ Carries(m, full[m])
  BY <1>3, Zenon DEF LogInv, FromLeader, Carried
<1>7. idx + 1 \in 1..Len(lead) /\ lead[idx + 1].term = m.prev_log_term
  <2>1. /\ Len(full[m]) = idx + 1 + Len(m.entries)
        /\ full[m][idx + 1].term = m.prev_log_term
    BY <1>4, <1>6, Zenon DEF Carries
  <2>2. Len(m.entries) \in Nat
    <3>1. m.entries \in Seq(LogEntry)
      BY <1>1, Zenon DEF AppendEntries
    <3> QED
      BY <3>1, EntriesLength, Zenon
  <2>3. Len(full[m]) <= Len(lead) /\ \A k \in 1..Len(full[m]) : full[m][k] = lead[k]
    BY <1>6, Zenon DEF Extends
  <2>4. idx + 1 \in 1..Len(full[m]) /\ idx + 1 \in 1..Len(lead)
    BY <1>5, <2>1, <2>2, <2>3, IndexWithin, Zenon
  <2> QED
    BY <2>1, <2>3, <2>4, Zenon
<1>8. Matching(lead, own) /\ own \in Sources(full)
  BY <1>1, Zenon DEF LogInv, Matched, Sources
<1>9. CASE idx >= Len(own)
  <2>1. r.conflict_index = Len(own) /\ r.conflict_term = None
    BY <1>9, Zenon
  <2>2. r.conflict_index \in 0..(r.ni - 1)
    BY <1>2, <1>5, <1>9, <2>1, SMTT(20)
  <2>3. None # t
    BY <1>1 DEF None
  <2> QED
    BY <1>2, <2>1, <2>2, <2>3, Zenon DEF HintsBack
<1>10. CASE ~(idx >= Len(own))
  <2> DEFINE ct == own[idx + 1].term
  <2>1. r.conflict_index = FirstOfTerm(own, idx) /\ r.conflict_term = ct
    BY <1>10, Zenon
  <2>2. r.conflict_index \in 0..(r.ni - 1)
    <3>1. FirstOfTerm(own, idx) \in 0..idx
      BY <1>5, FirstOfTermType, SMTT(20)
    <3>2. r.ni - 1 = idx
      BY <1>2, <1>5, SMTT(20)
    <3> QED
      BY <2>1, <3>1, <3>2, Zenon
  <2>3. idx + 1 \in 1..Len(own) /\ idx < Len(own)
    BY <1>5, <1>10, SMTT(20)
  <2>4. ct # lead[idx + 1].term
    BY <1>4, <1>7, <2>3, Zenon
  <2> HIDE DEF own, lead, idx, t
  <2>5. ASSUME NEW k \in 1..Len(lead), lead[k].term = ct
        PROVE  k < idx + 1
    <3> SUFFICES ASSUME idx + 1 <= k
                 PROVE  FALSE
      BY <1>5
    <3>1. \A g \in 1..(idx + 1) : lead[g] = own[g]
      BY <1>8, <2>3, <2>5, Zenon DEF Matching
    <3>2. idx + 1 \in 1..(idx + 1)
      BY <1>5
    <3> QED
      BY <2>4, <3>1, <3>2, Zenon
  <2>6. ct # t
    <3> SUFFICES ASSUME ct = t
                 PROVE  FALSE
      OBVIOUS
    <3>1. lead[idx + 1].term = t
      BY <1>1, <1>3, <1>8, <2>3, Zenon DEF LogInv, LeadersHold, lead
    <3> QED
      BY <2>4, <3>1, Zenon
  <2> QED
    BY <1>2, <1>3, <2>1, <2>2, <2>5, <2>6, Zenon DEF HintsBack
<1> QED
  BY <1>9, <1>10, Zenon

\* Every step keeps the replies right.
LEMMA ReplyStep ==
  ASSUME LogTypeOK, LogTypeOK', LeaderInv, ElectionSafety, WinInv,
         NEW full, LogInv(full), ReplyInv, [LogNext]_logVars
  PROVE  ReplyInv'
<1>0. /\ logs \in [Server -> Seq(LogEntry)] /\ current_term \in [Server -> Nat]
      /\ state \in [Server -> State]
  BY Zenon DEF LogTypeOK
<1>s. \A r \in ae_rep : r.to \in Server
  BY Zenon DEF LogTypeOK, AppendEntriesReply
<1>1. ASSUME LeadersStay, elected' = elected, ae_rep' \subseteq ae_rep
      PROVE  ReplyInv'
  BY <1>1, RepliesKept, Zenon DEF ReplyInv
<1>2. ASSUME LeadersStay, elected' = elected, NEW m \in ae_req,
             NEW success, NEW ci, NEW ct, AppendReply(m, success, ci, ct),
             success \/ current_term'[m.to] # m.term \/ AppendConflict(m),
             AppendConflict(m) =>
               /\ ~success
               /\ ci = IF m.prev_log_index >= Len(logs[m.to]) THEN Len(logs[m.to])
                       ELSE FirstOfTerm(logs[m.to], m.prev_log_index)
               /\ ct = IF m.prev_log_index >= Len(logs[m.to]) THEN None
                       ELSE logs[m.to][m.prev_log_index + 1].term,
             success \in BOOLEAN
      PROVE  ReplyInv'
  <2> DEFINE q == [from |-> m.to, to |-> m.from, req |-> m.term,
                   ni |-> m.prev_log_index + 1, term |-> current_term'[m.to],
                   success |-> success, conflict_index |-> ci,
                   conflict_term |-> ct]
  <2>1. ae_rep' \subseteq ae_rep \cup {q}
    BY <1>2, Zenon DEF AppendReply
  <2>2. PICK r : r = q
    BY Zenon
  <2>3. r.to = m.from /\ r.req = m.term /\ r.term = current_term'[m.to] /\ r.success = success
    BY <2>2, Zenon
  <2>4. <<m.from, m.term>> \in elected
    BY Zenon DEF LeaderInv
  <2>5. <<r.to, r.req>> \in elected'
    BY <1>2, <2>3, <2>4, Zenon
  <2>6. Refused(r)' => HintsBack(r)'
    <3> SUFFICES ASSUME Refused(r)'
                 PROVE  HintsBack(r)'
      OBVIOUS
    <3>1. ~success /\ current_term'[m.to] = m.term
      BY <2>3, Zenon DEF Refused
    <3>2. AppendConflict(m)
      BY <1>2, <3>1, Zenon
    <3>3. success = FALSE
      BY <1>2, <3>1, Zenon
    <3> HIDE DEF q
    <3>4. r = [from |-> m.to, to |-> m.from, req |-> m.term,
                     ni |-> m.prev_log_index + 1, term |-> current_term'[m.to],
                     success |-> FALSE,
                     conflict_index |-> IF m.prev_log_index >= Len(logs[m.to])
                                        THEN Len(logs[m.to])
                                        ELSE FirstOfTerm(logs[m.to], m.prev_log_index),
                     conflict_term |-> IF m.prev_log_index >= Len(logs[m.to])
                                       THEN None
                                       ELSE logs[m.to][m.prev_log_index + 1].term]
      <4>1. /\ ci = IF m.prev_log_index >= Len(logs[m.to]) THEN Len(logs[m.to])
                    ELSE FirstOfTerm(logs[m.to], m.prev_log_index)
            /\ ct = IF m.prev_log_index >= Len(logs[m.to]) THEN None
                    ELSE logs[m.to][m.prev_log_index + 1].term
        BY <1>2, <3>2, Zenon
      <4> QED
        BY <2>2, <3>3, <4>1, Zenon DEF q
    <3> QED
      BY <1>2, <3>2, <3>4, ConflictHint, Zenon
  <2> HIDE DEF q
  <2>7. ASSUME NEW x \in ae_rep'
        PROVE  <<x.to, x.req>> \in elected' /\ (Refused(x)' => HintsBack(x)')
    <3>1. CASE x \in ae_rep
      BY <1>2, <3>1, RepliesKept, Zenon
    <3>2. CASE x = r
      BY <2>5, <2>6, <3>2, Zenon
    <3> QED
      BY <2>1, <2>2, <3>1, <3>2, Zenon
  <2> QED
    BY <2>7, Zenon DEF ReplyInv
<1>3. ASSUME NEW i \in Server, NEW cmd \in Command, Submit(i, cmd)
      PROVE  ReplyInv'
  <2> DEFINE e == [term |-> current_term[i], command |-> cmd]
  <2>1. /\ logs' = [logs EXCEPT ![i] = Append(@, e)]
        /\ state' = state /\ current_term' = current_term /\ elected' = elected
        /\ ae_rep' = ae_rep
    BY <1>3, Zenon DEF Submit, electionVars, voteVars, aeVars
  <2>2. e \in LogEntry /\ e.term = current_term[i]
    BY <1>0 DEF LogEntry
  <2> HIDE DEF e
  <2>3. /\ Len(logs[i]) \in Nat /\ Len(logs'[i]) = Len(logs[i]) + 1
        /\ \A k \in 1..Len(logs[i]) : logs'[i][k] = logs[i][k]
        /\ logs'[i][Len(logs[i]) + 1] = e
    <3>1. logs[i] \in Seq(LogEntry) /\ logs'[i] = Append(logs[i], e)
      BY <1>0, <2>1, Zenon
    <3>2. /\ Len(logs[i]) \in Nat /\ Len(Append(logs[i], e)) = Len(logs[i]) + 1
          /\ \A k \in 1..Len(logs[i]) : Append(logs[i], e)[k] = logs[i][k]
          /\ Append(logs[i], e)[Len(logs[i]) + 1] = e
      BY <2>2, <3>1, AppendFacts, SMTT(20)
    <3> QED
      BY <3>1, <3>2, Zenon
  <2> SUFFICES ASSUME NEW r \in ae_rep, Refused(r)
               PROVE  HintsBack(r)'
    BY <2>1, Zenon DEF ReplyInv, Refused
  <2>4. HintsBack(r) /\ r.to \in Server /\ current_term[r.to] = r.req
    BY <1>s, Zenon DEF ReplyInv, Refused
  <2>5. CASE r.to # i
    <3>1. logs'[r.to] = logs[r.to]
      BY <1>0, <2>1, <2>4, <2>5, Zenon
    <3> QED
      BY <2>4, <3>1, Zenon DEF HintsBack
  <2>6. CASE r.to = i
    <3>1. ASSUME NEW k \in 1..Len(logs'[i]), r.conflict_term # None,
                 logs'[i][k].term = r.conflict_term
          PROVE  k < r.ni
      <4>1. k \in 1..Len(logs[i]) \/ k = Len(logs[i]) + 1
        BY <2>3
      <4>2. k # Len(logs[i]) + 1
        BY <2>2, <2>3, <2>4, <2>6, <3>1, Zenon DEF HintsBack
      <4> QED
        BY <2>3, <2>4, <2>6, <3>1, <4>1, <4>2, Zenon DEF HintsBack
    <3> QED
      BY <2>4, <2>6, <3>1, Zenon DEF HintsBack
  <2> QED
    BY <2>5, <2>6, Zenon
<1>4. ASSUME NEW r \in rv_rep, VoteResultGranted(r), StartLeader(r.to)
      PROVE  ReplyInv'
  <2> DEFINE i == r.to
  <2>1. /\ i \in Server /\ state[i] = "Candidate"
        /\ current_term' = current_term /\ logs' = logs /\ ae_rep' = ae_rep
        /\ state' = [state EXCEPT ![i] = "Leader"]
        /\ elected \subseteq elected'
    BY <1>4, Zenon
    DEF LogTypeOK, RequestVoteReply, VoteResultGranted, StartLeader, aeVars
  <2> HIDE DEF i
  <2>2. <<i, current_term[i]>> \notin elected
    BY <2>1, Zenon DEF WinInv
  <2>3. \A j \in Server \ {i} : state'[j] = state[j]
    BY <1>0, <2>1, Zenon
  <2> SUFFICES ASSUME NEW x \in ae_rep
               PROVE  <<x.to, x.req>> \in elected' /\ (Refused(x)' => HintsBack(x)')
    BY <2>1, Zenon DEF ReplyInv
  <2>4. <<x.to, x.req>> \in elected /\ (Refused(x) => HintsBack(x)) /\ x.to \in Server
    BY <1>s, Zenon DEF ReplyInv
  <2>5. CASE x.to = i
    <3>1. ~Refused(x)'
      BY <2>1, <2>2, <2>4, <2>5, Zenon DEF Refused
    <3> QED
      BY <2>1, <2>4, <3>1, Zenon
  <2>6. CASE x.to # i
    <3>1. Refused(x)' => Refused(x)
      BY <2>1, <2>3, <2>4, <2>6, Zenon DEF Refused
    <3> QED
      BY <2>1, <2>4, <3>1, Zenon DEF HintsBack
  <2> QED
    BY <2>5, <2>6, Zenon
<1>5. ASSUME NEW m \in ae_req, LeadersStay, AppendStale(m)
      PROVE  ReplyInv'
  <2>1. m.to \in Server /\ m.term \in Nat
    BY Zenon DEF LogTypeOK, AppendEntries
  <2>2. /\ ~(m.term >= current_term[m.to]) /\ current_term' = current_term
        /\ elected' = elected /\ AppendReply(m, FALSE, None, None)
    BY <1>5, Zenon DEF AppendStale, NotStale, electionVars, voteVars
  <2>3. current_term[m.to] \in Nat
    BY <1>0, <2>1, Zenon
  <2>4. current_term'[m.to] # m.term
    BY <2>1, <2>2, <2>3
  <2>5. ~AppendConflict(m)
    BY <2>2, Zenon DEF AppendConflict, HearLeader, NotStale
  <2> QED
    BY <1>2, <1>5, <2>2, <2>4, <2>5, Zenon
<1>6. ASSUME NEW m \in ae_req, LeadersStay, AppendConflict(m)
      PROVE  ReplyInv'
  <2>1. elected' = elected
    BY <1>6, Zenon DEF AppendConflict, HearLeader, voteVars
  <2>2. PICK ci : ci = IF m.prev_log_index >= Len(logs[m.to]) THEN Len(logs[m.to])
                       ELSE FirstOfTerm(logs[m.to], m.prev_log_index)
    BY Zenon
  <2>3. PICK ct : ct = IF m.prev_log_index >= Len(logs[m.to]) THEN None
                       ELSE logs[m.to][m.prev_log_index + 1].term
    BY Zenon
  <2>4. AppendReply(m, FALSE, ci, ct)
    BY <1>6, <2>2, <2>3, Zenon DEF AppendConflict
  <2> QED
    BY <1>2, <1>6, <2>1, <2>2, <2>3, <2>4, Zenon
<1>7. ASSUME NEW m \in ae_req, LeadersStay, AppendAccept(m)
      PROVE  ReplyInv'
  <2>1. elected' = elected /\ AppendReply(m, TRUE, None, None)
    BY <1>7, Zenon DEF AppendAccept, HearLeader, voteVars
  <2>2. ~AppendConflict(m)
    BY <1>7, Zenon DEF AppendAccept, AppendConflict
  <2> QED
    BY <1>2, <1>7, <2>1, <2>2, Zenon
<1>8. CASE LeadersStay
  <2> USE <1>8
  <2>1. ASSUME NEW i \in Server, StartElection(i)
        PROVE  ReplyInv'
    BY <1>1, <2>1, Zenon DEF StartElection, aeVars
  <2>2. ASSUME NEW m \in rv_req, HandleRequestVote(m)
        PROVE  ReplyInv'
    BY <1>1, <2>2, Zenon DEF HandleRequestVote, voteVars, aeVars
  <2>3. ASSUME NEW r \in rv_rep, VoteResultNewer(r)
        PROVE  ReplyInv'
    BY <1>1, <2>3, Zenon DEF VoteResultNewer, voteVars, aeVars
  <2>4. ASSUME NEW r \in rv_rep, VoteResultGranted(r), ~StartLeader(r.to)
        PROVE  ReplyInv'
    BY <1>1, <2>4, Zenon DEF VoteResultGranted, aeVars
  <2>5. ASSUME NEW i \in Server, NEW called \in SUBSET Peers(i),
               NEW c \in CommitHint, SendAES(i, called, c)
        PROVE  ReplyInv'
    BY <1>1, <2>5, Zenon DEF SendAES, voteVars
  <2>6. ASSUME NEW r \in ae_rep,
               \/ AppendResultNewer(r) \/ AppendResultSuccess(r)
               \/ AppendResultConflict(r) \/ AppendResultLost(r)
        PROVE  ReplyInv'
    <3>1. AppendResult(r)
      BY <2>6, Zenon DEF AppendResultNewer, AppendResultSuccess,
                         AppendResultConflict, AppendResultLost
    <3> QED
      BY <1>1, <3>1, Zenon DEF AppendResult, voteVars
  <2>7. ASSUME NEW i \in Server, NEW stored \in CrashMeta(i), Restart(i, stored)
        PROVE  ReplyInv'
    BY <1>1, <2>7, Zenon DEF Restart
  <2>8. CASE UNCHANGED logVars
    BY <1>1, <2>8, Zenon DEF logVars, voteVars, aeVars
  <2> QED
    BY <1>3, <1>4, <1>5, <1>6, <1>7, <2>1, <2>2, <2>3, <2>4, <2>5, <2>6, <2>7,
       <2>8, Zenon DEF LogNext
<1> QED
  BY <1>3, <1>4, <1>8, LeaderCases, Zenon

LEMMA ProbeStep ==
  ASSUME LogTypeOK, LogTypeOK', LeaderInv, ElectionSafety, WinInv, HistoryInv, ProbeInv,
         [LogNext]_logVars
  PROVE  ProbeInv'
<1> SUFFICES ASSUME restarts' = 0
             PROVE  ReplyInv'
  BY Zenon DEF ProbeInv
<1>1. restarts = 0
  <2>1. restarts \in Nat
    BY Zenon DEF LogTypeOK
  <2>2. restarts' = restarts \/ restarts' = restarts + 1
    BY RestartsGrow, Zenon
  <2> QED
    BY <2>1, <2>2, SMTT(20)
<1>2. PICK full : LogInv(full)
  BY <1>1, Zenon DEF HistoryInv
<1> QED
  BY <1>1, <1>2, ReplyStep, Zenon DEF ProbeInv

LEMMA ProbeInvariant == LogSpec => []ProbeInv
<1>1. LogInit => ProbeInv
  BY Zenon DEF LogInit, ProbeInv, ReplyInv
<1> QED
  BY <1>1, ProbeStep, LogTypeCorrect, LeaderInvariant, ElectionSafe, WinInvariant,
     HistoryInvariant, PTL DEF LogSpec

\* As long as no node has crashed, the probe after a refused one is strictly
\* earlier: handle_ae_res goes back to the follower's conflict_index or to
\* after the leader's last entry of conflict_term, and that entry is always
\* before the refused one.  So the search for the common prefix of two logs
\* ends after at most as many calls as the leader's log has entries.
THEOREM ProbesGoBack == LogSpec => [](restarts = 0 => BackoffProgress)
<1>1. LogTypeOK /\ ProbeInv => (restarts = 0 => BackoffProgress)
  <2> SUFFICES ASSUME LogTypeOK, ProbeInv, restarts = 0, NEW r \in ae_rep,
                      ForLeader(r), r.req = r.term, ~r.success
               PROVE  NextAfterConflict(logs[r.to], r) < r.ni
    BY Zenon DEF BackoffProgress
  <2> DEFINE l == logs[r.to]
             same == {k \in 0..(Len(l) - 1) : l[k + 1].term = r.conflict_term}
  <2>1. r \in AppendEntriesReply
    BY Zenon DEF LogTypeOK
  <2>2. /\ r.to \in Server /\ r.ni \in Nat /\ l \in Seq(LogEntry)
        /\ r.conflict_index \in OptIndex
    BY <2>1, Zenon DEF LogTypeOK, AppendEntriesReply
  <2>3. HintsBack(r)
    BY Zenon DEF ForLeader, ProbeInv, ReplyInv, Refused
  <2>4. r.conflict_index \in Nat /\ r.conflict_index < r.ni
    BY <2>2, <2>3, SMTT(20) DEF HintsBack
  <2>5. Max({r.conflict_index, 0}) < r.ni
    BY <2>2, <2>4, MaxPair, SMTT(20)
  <2>6. ASSUME r.conflict_term # None, same # {}
        PROVE  Max(same) + 1 < r.ni
    <3>1. Len(l) \in Nat
      BY <2>2
    <3>2. \A x \in same : x \in 0..(Len(l) - 1) /\ l[x + 1].term = r.conflict_term
      BY Zenon
    <3> HIDE DEF l, same
    <3>3. Max(same) \in same
      <4>1. ASSUME NEW x \in same PROVE x \in Nat /\ x <= Len(l)
        <5>1. x \in 0..(Len(l) - 1)
          BY <3>2, Zenon
        <5> QED
          BY <3>1, <5>1
      <4>2. same \in SUBSET Nat
        BY <4>1, Zenon
      <4> QED
        BY <2>6, <3>1, <4>1, <4>2, MaxNat, Zenon
    <3>4. PICK k \in 0..(Len(l) - 1) : k = Max(same) /\ l[k + 1].term = r.conflict_term
      BY <3>2, <3>3, Zenon
    <3>5. k + 1 \in 1..Len(l)
      BY <3>1
    <3>6. k + 1 < r.ni
      BY <2>3, <2>6, <3>4, <3>5, Zenon DEF HintsBack, l
    <3> QED
      BY <3>4, <3>6, Zenon
  <2> QED
    BY <2>5, <2>6, Zenon DEF NextAfterConflict
<1> QED
  BY <1>1, LogTypeCorrect, ProbeInvariant, PTL

-----------------------------------------------------------------------------
(***************************************************************************)
(* Until the second election is won all entries have the term of the one   *)
(* leader there has been.  Two logs then agree as far as both reach, a     *)
(* follower's log only grows, and what a process has sent to its           *)
(* subscribers stays in its log.                                           *)
(***************************************************************************)

OneLeader == \A e, f \in elected : e = f

StreamInLog ==
  \A i \in Server : \A k \in 1..Len(commit_chan[i]) :
    /\ commit_chan[i][k].index + 1 \in 1..Len(logs[i])
    /\ logs[i][commit_chan[i][k].index + 1].command = commit_chan[i][k].command

StableInv == restarts = 0 /\ OneLeader => StreamInLog

LEMMA OneTerm ==
  ASSUME NEW full, Won(full), OneLeader, NEW a \in Sources(full), NEW b \in Sources(full)
  PROVE  \A k \in 1..Len(a), g \in 1..Len(b) : a[k].term = b[g].term
<1> TAKE k \in 1..Len(a), g \in 1..Len(b)
<1>1. PICK x \in Server : <<x, a[k].term>> \in elected
  BY Zenon DEF Won
<1>2. PICK y \in Server : <<y, b[g].term>> \in elected
  BY Zenon DEF Won
<1>3. <<x, a[k].term>> = <<y, b[g].term>>
  BY <1>1, <1>2, Zenon DEF OneLeader
<1> QED
  BY <1>3

\* A follower whose entries and the leader's have one term replaces nothing.
LEMMA SpliceExtends ==
  ASSUME NEW l \in Seq(LogEntry), NEW f \in Seq(LogEntry), NEW m \in AppendEntries,
         Carries(m, f), Matching(l, f), PrevOk(m, l),
         \A k \in 1..Len(l), g \in 1..Len(f) : l[k].term = f[g].term
  PROVE  Extends(Splice(l, m.prev_log_index + 1, m.entries), l)
<1> DEFINE at == m.prev_log_index + 1
           es == m.entries
<1>1. Splice(l, at, es) \in {l, f}
  BY SpliceMatches, Zenon
<1>2. at \in Nat /\ Len(es) \in Nat
  BY DEF AppendEntries, OptIndex, None
<1>3. Len(l) \in Nat /\ Len(f) = at + Len(es)
  BY DEF Carries
<1>4. \A k \in 1..Len(es) : es[k] = f[at + k]
  BY Zenon DEF Carries
<1> HIDE DEF at, es
<1>5. CASE Splice(l, at, es) = l
  <2>1. Len(l) <= Len(l)
    BY <1>3
  <2> QED
    BY <1>5, <2>1, Zenon DEF Extends, at, es
<1>6. CASE Splice(l, at, es) # l
  <2>1. Splice(l, at, es) = f /\ Held(l, at, es) # 1..Len(es)
    BY <1>1, <1>6, Zenon DEF Splice
  <2>2. Len(l) <= Len(f)
    <3> SUFFICES ASSUME ~(Len(l) <= Len(f))
                 PROVE  Held(l, at, es) = 1..Len(es)
      BY <2>1, Zenon
    <3>1. \A k \in 1..Len(es) :
            at + k <= Len(l) /\ at + k \in 1..Len(l) /\ at + k \in 1..Len(f)
      BY <1>2, <1>3
    <3>2. \A k \in 1..Len(es) : l[at + k].term = es[k].term
      BY <1>4, <3>1, Zenon
    <3>3. \A k \in 1..Len(es) : \A j \in 1..k : j \in 1..Len(es)
      BY <1>2
    <3> QED
      BY <3>1, <3>2, <3>3, Zenon DEF Held
  <2>3. ASSUME NEW k \in 1..Len(l)
        PROVE  f[k] = l[k]
    <3>1. k \in 1..Len(f) /\ k \in 1..k /\ k <= k
      BY <1>2, <1>3, <2>2, SMTT(20)
    <3>2. l[k].term = f[k].term
      BY <3>1, Zenon
    <3> QED
      BY <3>1, <3>2, Zenon DEF Matching
  <2> QED
    BY <2>1, <2>2, <2>3, Zenon DEF Extends, at, es
<1> QED
  BY <1>5, <1>6, Zenon

LEMMA ElectedGrows ==
  ASSUME LogTypeOK, ElectionInv, [LogNext]_logVars
  PROVE  elected \subseteq elected'
<1>1. ASSUME NEW i \in Server, StartElection(i)
      PROVE  elected' = elected
  BY <1>1, Zenon DEF StartElection
<1>2. ASSUME NEW m \in rv_req, HandleRequestVote(m)
      PROVE  elected' = elected
  BY <1>2, Zenon DEF HandleRequestVote, voteVars
<1>3. ASSUME NEW r \in rv_rep, VoteResultGranted(r)
      PROVE  elected \subseteq elected'
  BY <1>3, Zenon DEF VoteResultGranted, StartLeader
<1> QED
  BY <1>1, <1>2, <1>3, QuietCases, Zenon DEF QuietStep

\* No log loses an entry.
LEMMA LogsGrow ==
  ASSUME LogTypeOK, NEW full, LogInv(full), OneLeader,
         [LogNext]_logVars, restarts' = restarts, NEW j \in Server
  PROVE  Extends(logs'[j], logs[j])
<1>0. /\ logs \in [Server -> Seq(LogEntry)] /\ current_term \in [Server -> Nat]
      /\ restarts \in Nat
  BY Zenon DEF LogTypeOK
<1>1. ASSUME logs'[j] = logs[j]
      PROVE  Extends(logs'[j], logs[j])
  <2>1. Len(logs[j]) <= Len(logs[j])
    <3>1. logs[j] \in Seq(LogEntry)
      BY <1>0, Zenon
    <3> QED
      BY <3>1
  <2> QED
    BY <1>1, <2>1, Zenon DEF Extends
<1>2. ASSUME NEW i \in Server, NEW cmd \in Command, Submit(i, cmd)
      PROVE  Extends(logs'[j], logs[j])
  <2> DEFINE e == [term |-> current_term[i], command |-> cmd]
  <2>1. logs' = [logs EXCEPT ![i] = Append(@, e)]
    BY <1>2, Zenon DEF Submit
  <2>2. e \in LogEntry
    BY <1>0 DEF LogEntry
  <2> HIDE DEF e
  <2>3. CASE i = j
    <3>1. logs'[j] = Append(logs[j], e) /\ logs[j] \in Seq(LogEntry)
      BY <1>0, <2>1, <2>3, Zenon
    <3>2. /\ Len(logs[j]) \in Nat /\ Len(Append(logs[j], e)) = Len(logs[j]) + 1
          /\ \A k \in 1..Len(logs[j]) : Append(logs[j], e)[k] = logs[j][k]
      BY <2>2, <3>1, AppendFacts, SMTT(20)
    <3>3. Len(logs[j]) <= Len(Append(logs[j], e))
      BY <3>2
    <3> QED
      BY <3>1, <3>2, <3>3, Zenon DEF Extends
  <2>4. CASE i # j
    BY <1>0, <1>1, <2>1, <2>4, Zenon
  <2> QED
    BY <2>3, <2>4, Zenon
<1>3. ASSUME NEW m \in ae_req, AppendAccept(m)
      PROVE  Extends(logs'[j], logs[j])
  <2>1. /\ PrevOk(m, logs[m.to])
        /\ logs' = [logs EXCEPT ![m.to] = Splice(@, m.prev_log_index + 1, m.entries)]
    BY <1>3, Zenon DEF AppendAccept
  <2>2. CASE m.to = j
    <3>1. m \in AppendEntries /\ logs[j] \in Seq(LogEntry)
      BY <1>0, Zenon DEF LogTypeOK
    <3>2. logs[j] \in Sources(full) /\ full[m] \in Sources(full)
      BY Zenon DEF Sources
    <3>3. /\ full[m] \in Seq(LogEntry) /\ Carries(m, full[m])
          /\ Matching(logs[j], full[m])
      BY <3>2, Zenon DEF LogInv, Carried, Matched
    <3>4. \A k \in 1..Len(logs[j]), g \in 1..Len(full[m]) :
            logs[j][k].term = full[m][g].term
      <4>1. Won(full)
        BY Zenon DEF LogInv
      <4> QED
        BY <3>2, <4>1, OneTerm, SMTT(20)
    <3>5. Extends(Splice(logs[j], m.prev_log_index + 1, m.entries), logs[j])
      BY <2>1, <2>2, <3>1, <3>3, <3>4, SpliceExtends, Zenon
    <3> QED
      BY <1>0, <2>1, <2>2, <3>5, Zenon
  <2>3. CASE m.to # j
    BY <1>0, <1>1, <2>1, <2>3, Zenon
  <2> QED
    BY <2>2, <2>3, Zenon
<1>4. ASSUME NEW m \in ae_req, AppendStale(m) \/ AppendConflict(m)
      PROVE  logs' = logs
  BY <1>4, Zenon DEF AppendStale, AppendConflict, voteVars
<1>5. ASSUME NEW r \in ae_rep,
             \/ AppendResultNewer(r) \/ AppendResultSuccess(r)
             \/ AppendResultConflict(r) \/ AppendResultLost(r)
      PROVE  logs' = logs
  BY <1>5, Zenon DEF AppendResultNewer, BecomeFollower, AppendResultSuccess,
                     AppendResultConflict, AppendResultLost
<1>6. ASSUME NEW i \in Server, NEW called \in SUBSET Peers(i),
             NEW c \in CommitHint, SendAES(i, called, c)
      PROVE  logs' = logs
  BY <1>6, Zenon DEF SendAES
<1>7. ASSUME NEW r \in rv_rep, VoteResultNewer(r) \/ VoteResultGranted(r)
      PROVE  logs' = logs
  BY <1>7, Zenon DEF VoteResultNewer, VoteResultGranted, BecomeFollower
<1>8. ASSUME NEW m \in rv_req, HandleRequestVote(m)
      PROVE  logs' = logs
  BY <1>8, Zenon DEF HandleRequestVote, voteVars
<1>9. ASSUME NEW i \in Server, StartElection(i)
      PROVE  logs' = logs
  BY <1>9, Zenon DEF StartElection
<1>10. ASSUME NEW i \in Server, NEW stored \in CrashMeta(i), Restart(i, stored)
       PROVE  FALSE
  <2>1. restarts' = restarts + 1
    BY <1>10, Zenon DEF Restart
  <2> QED
    BY <1>0, <2>1
<1>11. CASE UNCHANGED logVars
  BY <1>1, <1>11, Zenon DEF logVars
<1> QED
  BY <1>1, <1>2, <1>3, <1>4, <1>5, <1>6, <1>7, <1>8, <1>9, <1>10, <1>11, Zenon DEF LogNext

\* The entries of the one term are the same in every log.
LEMMA StreamsAgree ==
  ASSUME LogTypeOK, TypeOK, NEW full, LogInv(full), OneLeader, StreamInLog
  PROVE  StateMachineSafety
<1> SUFFICES ASSUME NEW i \in Server, NEW j \in Server,
                    NEW a \in 1..Len(commit_chan[i]), NEW b \in 1..Len(commit_chan[j]),
                    commit_chan[i][a].index = commit_chan[j][b].index
             PROVE  commit_chan[i][a].command = commit_chan[j][b].command
  BY Zenon DEF StateMachineSafety
<1>1. PICK x : x = commit_chan[i][a].index + 1
  BY Zenon
<1>2. /\ x \in 1..Len(logs[i]) /\ logs[i][x].command = commit_chan[i][a].command
      /\ x \in 1..Len(logs[j]) /\ logs[j][x].command = commit_chan[j][b].command
  BY <1>1, Zenon DEF StreamInLog
<1>3. /\ logs[i] \in Sources(full) /\ logs[j] \in Sources(full) /\ Won(full)
      /\ Matched(full)
  BY Zenon DEF Sources, LogInv
<1>4. logs[i][x].term = logs[j][x].term
  <2>1. \A k \in 1..Len(logs[i]), g \in 1..Len(logs[j]) : logs[i][k].term = logs[j][g].term
    BY <1>3, OneTerm
  <2> QED
    BY <1>2, <2>1, Zenon
<1>5. Matching(logs[i], logs[j])
  BY <1>3, Zenon DEF Matched
<1>6. x \in 1..x /\ x <= x
  BY <1>2
<1>7. logs[i][x] = logs[j][x]
  BY <1>2, <1>4, <1>5, <1>6, Zenon DEF Matching
<1> QED
  BY <1>2, <1>7, Zenon

\* An entry sent on the stream is the entry of the log at its index.
LEMMA SentInLog ==
  ASSUME LogTypeOK, TypeOK, NEW i \in Server, Due(i), commit_index[i] < Len(logs[i])
  PROVE  \A k \in 1..Len(Sent(i)) :
           /\ Sent(i)[k].index + 1 \in 1..Len(logs[i])
           /\ logs[i][Sent(i)[k].index + 1].command = Sent(i)[k].command
<1> DEFINE la == last_applied[i]
           ci == commit_index[i]
<1>1. la \in Int /\ la >= -1 /\ ci \in Int /\ StartIndex(i) = la + 1
  BY DEF TypeOK, OptIndex, None, StartIndex
<1>2. /\ Len(Sent(i)) = ci - la
      /\ \A k \in 1..Len(Sent(i)) : Sent(i)[k].index = la + k
  BY SentType, Zenon
<1>3. Len(logs[i]) \in Nat
  <2>1. logs[i] \in Seq(LogEntry)
    BY Zenon DEF LogTypeOK
  <2> QED
    BY <2>1
<1>4. ASSUME NEW k \in 1..Len(Sent(i))
      PROVE  Sent(i)[k].command = logs[i][la + k + 1].command
  <2>1. k \in 1..(ci - StartIndex(i) + 1) /\ StartIndex(i) + k = la + k + 1
    <3>1. k \in 1..(ci - la)
      BY <1>2, Zenon
    <3> HIDE DEF la, ci
    <3>2. ci - StartIndex(i) + 1 = ci - la
      BY <1>1
    <3>3. StartIndex(i) + k = la + k + 1
      BY <1>1, <3>1
    <3> QED
      BY <3>1, <3>2, <3>3, Zenon
  <2>2. Sent(i)[k].command = logs[i][StartIndex(i) + k].command
    BY <2>1, Zenon DEF Sent
  <2> QED
    BY <2>1, <2>2, Zenon
<1> TAKE k \in 1..Len(Sent(i))
<1>5. Sent(i)[k].index + 1 = la + k + 1 /\ la + k + 1 \in 1..Len(logs[i])
  <2>1. Sent(i)[k].index = la + k /\ ci < Len(logs[i])
    BY <1>2, Zenon
  <2> HIDE DEF la, ci
  <2> QED
    BY <1>1, <1>2, <1>3, <2>1, SMTT(20)
<1> QED
  BY <1>4, <1>5, Zenon

LEMMA StableStep ==
  ASSUME AnyHint, LogTypeOK, TypeOK, ElectionInv, HistoryInv, StableInv, [Next]_vars
  PROVE  StableInv'
<1> SUFFICES ASSUME restarts' = 0, OneLeader'
             PROVE  StreamInLog'
  BY Zenon DEF StableInv
<1>1. [LogNext]_logVars
  BY ActorStep, Zenon
<1>2. restarts' = restarts
  <2>1. restarts \in Nat
    BY Zenon DEF LogTypeOK
  <2>2. restarts' = restarts \/ restarts' = restarts + 1
    BY <1>1, RestartsGrow, Zenon
  <2> QED
    BY <2>1, <2>2, SMTT(20)
<1>3. OneLeader
  BY <1>1, ElectedGrows, Zenon DEF OneLeader
<1>4. StreamInLog
  BY <1>2, <1>3, Zenon DEF StableInv
<1>5. PICK full : LogInv(full)
  BY <1>2, Zenon DEF HistoryInv
<1>6. \A j \in Server : Extends(logs'[j], logs[j])
  BY <1>1, <1>2, <1>3, <1>5, LogsGrow, Zenon
<1>7. /\ logs \in [Server -> Seq(LogEntry)] /\ logs' \in [Server -> Seq(LogEntry)]
      /\ commit_chan \in [Server -> Seq(CommitEntry)]
  BY <1>1, LogTypeStep, Zenon DEF LogTypeOK, TypeOK
<1>8. ASSUME NEW j \in Server, NEW x \in 1..Len(logs[j])
      PROVE  x \in 1..Len(logs'[j]) /\ logs'[j][x] = logs[j][x]
  <2>1. Len(logs[j]) <= Len(logs'[j]) /\ logs[j][x] = logs'[j][x]
    BY <1>6, Zenon DEF Extends
  <2>2. logs[j] \in Seq(LogEntry) /\ logs'[j] \in Seq(LogEntry)
    BY <1>7, Zenon
  <2>3. Len(logs[j]) \in Nat /\ Len(logs'[j]) \in Nat
    BY <2>2
  <2> QED
    BY <2>1, <2>3
<1>a. ASSUME \A j \in Server : \A k \in 1..Len(commit_chan'[j]) :
               /\ commit_chan'[j][k].index + 1 \in 1..Len(logs[j])
               /\ logs[j][commit_chan'[j][k].index + 1].command = commit_chan'[j][k].command
      PROVE  StreamInLog'
  <2> SUFFICES ASSUME NEW j \in Server, NEW k \in 1..Len(commit_chan'[j])
               PROVE  /\ commit_chan'[j][k].index + 1 \in 1..Len(logs'[j])
                      /\ logs'[j][commit_chan'[j][k].index + 1].command =
                           commit_chan'[j][k].command
    BY Zenon DEF StreamInLog
  <2>1. /\ commit_chan'[j][k].index + 1 \in 1..Len(logs[j])
        /\ logs[j][commit_chan'[j][k].index + 1].command = commit_chan'[j][k].command
    BY <1>a, Zenon
  <2> QED
    BY <1>8, <2>1, Zenon
<1>9. CASE commit_chan' = commit_chan
  BY <1>4, <1>9, <1>a, Zenon DEF StreamInLog
<1>10. ASSUME NEW i \in Server, SendCommits(i)
       PROVE  StreamInLog'
  <2> SUFFICES ASSUME /\ Due(i)
                      /\ commit_index[i] < Len(logs[i])
                      /\ commit_chan' = [commit_chan EXCEPT ![i] = @ \o Sent(i)]
               PROVE  StreamInLog'
    BY <1>9, <1>10, SendCommitsSends, Zenon
  <2> DEFINE old == commit_chan[i]
             new == Sent(i)
  <2>1. new \in Seq(CommitEntry) /\ old \in Seq(CommitEntry)
    BY <1>7, SentType, Zenon
  <2>2. \A k \in 1..Len(new) : /\ new[k].index + 1 \in 1..Len(logs[i])
                               /\ logs[i][new[k].index + 1].command = new[k].command
    BY SentInLog, Zenon
  <2>3. \A k \in 1..Len(old) : /\ old[k].index + 1 \in 1..Len(logs[i])
                               /\ logs[i][old[k].index + 1].command = old[k].command
    BY <1>4, Zenon DEF StreamInLog
  <2>4. commit_chan'[i] = old \o new
    BY <1>7, Zenon
  <2> HIDE DEF old, new
  <2>5. ASSUME NEW k \in 1..Len(old \o new)
        PROVE  \/ \E g \in 1..Len(old) : (old \o new)[k] = old[g]
               \/ \E g \in 1..Len(new) : (old \o new)[k] = new[g]
    <3>1. /\ Len(old \o new) = Len(old) + Len(new)
          /\ Len(old) \in Nat /\ Len(new) \in Nat
      BY <2>1, ConcatProperties, LenProperties, SMTT(20)
    <3>2. CASE k <= Len(old)
      BY <2>1, <3>1, <3>2, SMTT(20)
    <3>3. CASE k > Len(old)
      <4>1. k - Len(old) \in 1..Len(new) /\ (old \o new)[k] = new[k - Len(old)]
        BY <2>1, <3>1, <3>3, SMTT(20)
      <4> QED
        BY <4>1, Zenon
    <3> QED
      BY <3>1, <3>2, <3>3, SMTT(20)
  <2>6. ASSUME NEW k \in 1..Len(old \o new)
        PROVE  /\ (old \o new)[k].index + 1 \in 1..Len(logs[i])
               /\ logs[i][(old \o new)[k].index + 1].command = (old \o new)[k].command
    BY <2>2, <2>3, <2>5, Zenon
  <2>7. ASSUME NEW j \in Server, NEW k \in 1..Len(commit_chan'[j])
        PROVE  /\ commit_chan'[j][k].index + 1 \in 1..Len(logs[j])
               /\ logs[j][commit_chan'[j][k].index + 1].command = commit_chan'[j][k].command
    <3>1. CASE j = i
      BY <2>4, <2>6, <3>1, Zenon
    <3>2. CASE j # i
      <4>1. commit_chan'[j] = commit_chan[j]
        BY <1>7, <3>2, Zenon
      <4> QED
        BY <1>4, <4>1, Zenon DEF StreamInLog
    <3> QED
      BY <3>1, <3>2, Zenon
  <2> QED
    BY <1>a, <2>7, Zenon
<1>11. ASSUME NEW i \in Server, RestartNode(i)
       PROVE  FALSE
  <2>1. restarts' = restarts + 1 /\ restarts \in Nat
    BY <1>11, Zenon DEF RestartNode, Restart, LogTypeOK
  <2> QED
    BY <1>2, <2>1, SMTT(20)
<1>12. CASE PipelineStep
  BY <1>9, <1>10, <1>11, <1>12, Zenon
  DEF PipelineStep, Quiet, VoteGranted, AcceptEntries, EntriesAccepted,
      ResultIgnored, ResultPanic, SendCommitsPanic, pipelineVars
<1>13. CASE UNCHANGED vars
  BY <1>9, <1>13, Zenon DEF vars, pipelineVars
<1> QED
  BY <1>12, <1>13, PipelineCases, Zenon

\* As long as no node has crashed and only one election has been won, two
\* nodes never send different commands for the same index, whatever is lost,
\* delayed or reordered, however many commands are submitted, and also after
\* the leader has stood down (send_commits).  The second leader is where the
\* code stops to guarantee it.
THEOREM StableStreamsAgree ==
  ASSUME AnyHint
  PROVE  Spec => [](restarts = 0 /\ OneLeader => StateMachineSafety)
<1>1. Init => StableInv
  BY DEF Init, StableInv, StreamInLog
<1>2. Spec => []HistoryInv /\ []ElectionInv
  BY ActorRefines, HistoryInvariant, ElectionInvariant, PTL DEF LogSpec, LogStep
<1>3. (LogTypeOK /\ TypeOK) /\ ElectionInv /\ HistoryInv /\ StableInv /\ [Next]_vars
        => StableInv'
  BY StableStep, Zenon
<1>4. (LogTypeOK /\ TypeOK) /\ HistoryInv /\ StableInv
        => (restarts = 0 /\ OneLeader => StateMachineSafety)
  BY StreamsAgree, Zenon DEF HistoryInv, StableInv
<1> QED
  BY <1>1, <1>2, <1>3, <1>4, TypesHold, PTL DEF Spec

=============================================================================
