------------------------------ MODULE LogProofs -----------------------------
(***************************************************************************)
(* Theorems about the logs of RaftLog, for every set of servers: a leader  *)
(* only appends to its log, and until the first crash any two logs agree   *)
(* up to the last index whose terms agree.                                 *)
(*                                                                         *)
(* The second is stated for runs without a crash, because a restart may    *)
(* bring a log back with its entries permuted (restore_state).             *)
(***************************************************************************)
EXTENDS ElectionProofs

-----------------------------------------------------------------------------
(* Which steps make a leader or change its log.                            *)

\* Whoever leads after the step led before it, in the same term and with the
\* same log.
LeadersStay ==
  \A i \in Server :
    state'[i] = "Leader" => /\ state[i] = "Leader"
                            /\ current_term'[i] = current_term[i]
                            /\ logs'[i] = logs[i]

\* become_follower makes no leader.
LEMMA BecomeFollowerStays ==
  ASSUME LogTypeOK, NEW i \in Server, NEW term, BecomeFollower(i, term)
  PROVE  LeadersStay
<1>1. /\ state' = [state EXCEPT ![i] = "Follower"]
      /\ current_term' = [current_term EXCEPT ![i] = term]
      /\ logs' = logs
  BY Zenon DEF BecomeFollower
<1>2. /\ state \in [Server -> State] /\ current_term \in [Server -> Nat]
  BY Zenon DEF LogTypeOK
<1>3. "Follower" # "Leader"
  OBVIOUS
<1> QED
  BY <1>1, <1>2, <1>3, Zenon DEF LeadersStay

\* A node that handles append_entries of its own term or a newer one does not
\* lead afterwards: the sender won the election of that term.
LEMMA HearLeaderStays ==
  ASSUME LogTypeOK, LeaderInv, ElectionSafety, NEW m \in ae_req, HearLeader(m),
         \A j \in Server \ {m.to} : logs'[j] = logs[j]
  PROVE  LeadersStay
<1> DEFINE i == m.to
<1>1. /\ i \in Server /\ m.from \in Server /\ m.term \in Nat
      /\ m.from # i /\ <<m.from, m.term>> \in elected
  BY Zenon DEF LogTypeOK, AppendEntries, LeaderInv
<1>2. /\ m.term >= current_term[i]
      /\ state' = [state EXCEPT ![i] = IF Newer(i, m.term) THEN "Follower" ELSE @]
      /\ current_term' = [current_term EXCEPT ![i] = m.term]
  BY Zenon DEF HearLeader, NotStale
<1>3. /\ state \in [Server -> State] /\ current_term \in [Server -> Nat]
  BY Zenon DEF LogTypeOK
<1>4. "Follower" # "Leader"
  OBVIOUS
<1>5. state'[i] # "Leader"
  <2> SUFFICES ASSUME state'[i] = "Leader"
               PROVE  FALSE
    OBVIOUS
  <2>1. ~Newer(i, m.term) /\ state[i] = "Leader"
    BY <1>1, <1>2, <1>3, <1>4, Zenon
  <2>2. current_term[i] \in Nat
    BY <1>1, <1>3, Zenon
  <2>3. current_term[i] = m.term
    BY <1>1, <1>2, <2>1, <2>2, SMTT(20) DEF Newer
  <2>4. <<i, current_term[i]>> \in elected
    BY <1>1, <2>1, Zenon DEF LeaderInv
  <2>5. <<i, current_term[i]>> = <<m.from, m.term>>
    BY <1>1, <2>3, <2>4, SMTT(20) DEF ElectionSafety
  <2> QED
    BY <1>1, <2>5
<1> HIDE DEF i
<1>6. \A j \in Server \ {i} : state'[j] = state[j] /\ current_term'[j] = current_term[j]
  BY <1>1, <1>2, <1>3, Zenon
<1>7. \A j \in Server \ {i} : logs'[j] = logs[j]
  BY Zenon DEF i
<1> QED
  BY <1>5, <1>6, <1>7, Zenon DEF LeadersStay

\* A leader appears, or its log grows, only by winning an election or by a
\* submitted command.
LEMMA LeaderCases ==
  ASSUME LogTypeOK, LeaderInv, ElectionSafety, [LogNext]_logVars
  PROVE  \/ LeadersStay
         \/ \E i \in Server, cmd \in Command : Submit(i, cmd)
         \/ \E r \in rv_rep : VoteResultGranted(r) /\ StartLeader(r.to)
<1>0. /\ state \in [Server -> State] /\ current_term \in [Server -> Nat]
      /\ logs \in [Server -> Seq(LogEntry)]
  BY Zenon DEF LogTypeOK
<1>n. "Follower" # "Leader" /\ "Candidate" # "Leader"
  OBVIOUS
<1>1. ASSUME NEW i \in Server, StartElection(i)
      PROVE  LeadersStay
  <2>1. /\ state' = [state EXCEPT ![i] = "Candidate"]
        /\ current_term' = [current_term EXCEPT ![i] = @ + 1]
        /\ logs' = logs
    BY <1>1, Zenon DEF StartElection
  <2> QED
    BY <1>0, <1>n, <2>1, Zenon DEF LeadersStay
<1>2. ASSUME NEW m \in rv_req, HandleRequestVote(m)
      PROVE  LeadersStay
  <2>1. m.to \in Server /\ m.term \in Nat
    BY Zenon DEF LogTypeOK, RequestVote
  <2>2. /\ state' = [state EXCEPT ![m.to] =
                       IF Newer(m.to, m.term) THEN "Follower" ELSE @]
        /\ current_term' = [current_term EXCEPT ![m.to] = Max({@, m.term})]
        /\ logs' = logs
    BY <1>2, Zenon DEF HandleRequestVote
  <2>3. ~Newer(m.to, m.term) => Max({current_term[m.to], m.term}) = current_term[m.to]
    <3>1. current_term[m.to] \in Nat
      BY <1>0, <2>1, Zenon
    <3> QED
      BY <2>1, <3>1, MaxPair DEF Newer
  <2>4. state'[m.to] = "Leader" => /\ state[m.to] = "Leader"
                                   /\ current_term'[m.to] = current_term[m.to]
    BY <1>0, <1>n, <2>1, <2>2, <2>3, Zenon
  <2>5. \A j \in Server \ {m.to} : /\ state'[j] = state[j]
                                   /\ current_term'[j] = current_term[j]
    BY <1>0, <2>1, <2>2, Zenon
  <2> QED
    BY <2>2, <2>4, <2>5, Zenon DEF LeadersStay
<1>3. ASSUME NEW r \in rv_rep, VoteResultNewer(r)
      PROVE  LeadersStay
  BY <1>3, BecomeFollowerStays, Zenon DEF VoteResultNewer, LogTypeOK, RequestVoteReply
<1>4. ASSUME NEW r \in rv_rep, VoteResultGranted(r), ~StartLeader(r.to)
      PROVE  LeadersStay
  BY <1>4, Zenon DEF VoteResultGranted, LeadersStay
<1>6. ASSUME NEW i \in Server, NEW called \in SUBSET Peers(i),
             NEW c \in CommitHint, SendAES(i, called, c)
      PROVE  LeadersStay
  BY <1>6, Zenon DEF SendAES, electionVars, LeadersStay
<1>7. ASSUME NEW m \in ae_req, AppendStale(m)
      PROVE  LeadersStay
  BY <1>7, Zenon DEF AppendStale, electionVars, LeadersStay
<1>8. ASSUME NEW m \in ae_req, AppendConflict(m)
      PROVE  LeadersStay
  BY <1>8, HearLeaderStays, Zenon DEF AppendConflict
<1>9. ASSUME NEW m \in ae_req, AppendAccept(m)
      PROVE  LeadersStay
  <2>1. HearLeader(m) /\ logs' = [logs EXCEPT ![m.to] =
                                    Splice(@, m.prev_log_index + 1, m.entries)]
    BY <1>9, Zenon DEF AppendAccept
  <2>2. \A j \in Server \ {m.to} : logs'[j] = logs[j]
    BY <1>0, <2>1, Zenon
  <2> QED
    BY <2>1, <2>2, HearLeaderStays, Zenon
<1>10. ASSUME NEW r \in ae_rep, AppendResultNewer(r)
       PROVE  LeadersStay
  BY <1>10, BecomeFollowerStays, Zenon DEF AppendResultNewer, LogTypeOK, AppendEntriesReply
<1>11. ASSUME NEW r \in ae_rep,
              AppendResultSuccess(r) \/ AppendResultConflict(r) \/ AppendResultLost(r)
       PROVE  LeadersStay
  BY <1>11, Zenon DEF AppendResultSuccess, AppendResultConflict, AppendResultLost,
                      electionVars, LeadersStay
<1>12. ASSUME NEW i \in Server, NEW stored \in CrashMeta(i), Restart(i, stored)
       PROVE  LeadersStay
  <2>1. /\ state' = [state EXCEPT ![i] = "Follower"]
        /\ current_term' = [current_term EXCEPT ![i] = stored.current_term]
        /\ \E new : logs' = [logs EXCEPT ![i] = new]
    BY <1>12, Zenon DEF Restart
  <2> QED
    BY <1>0, <1>n, <2>1, Zenon DEF LeadersStay
<1>13. CASE UNCHANGED logVars
  BY <1>13, Zenon DEF logVars, electionVars, LeadersStay
<1> QED
  BY <1>1, <1>2, <1>3, <1>4, <1>6, <1>7, <1>8, <1>9, <1>10, <1>11, <1>12,
     <1>13, Zenon DEF LogNext

\* While a node leads, its log only grows at the end: no append_entries of
\* another node is accepted by a leader of the same term, because there is no
\* other leader of that term to send it, and a newer term ends its leadership.
\* This holds across crashes.
THEOREM LeadersAppendOnly == LogSpec => LeaderAppendOnly
<1> DEFINE Grows == \A i \in Server :
             state[i] = "Leader" /\ state'[i] = "Leader" =>
               /\ Len(logs[i]) <= Len(logs'[i])
               /\ SubSeq(logs'[i], 1, Len(logs[i])) = logs[i]
<1>1. ASSUME LogTypeOK, LeaderInv, ElectionSafety, [LogNext]_logVars
      PROVE  Grows
  <2> SUFFICES ASSUME NEW i \in Server, state[i] = "Leader", state'[i] = "Leader"
               PROVE  /\ Len(logs[i]) <= Len(logs'[i])
                      /\ SubSeq(logs'[i], 1, Len(logs[i])) = logs[i]
    OBVIOUS
  <2>0. logs \in [Server -> Seq(LogEntry)] /\ current_term \in [Server -> Nat]
    BY <1>1, Zenon DEF LogTypeOK
  <2>1. logs[i] \in Seq(LogEntry) /\ Len(logs[i]) \in Nat
    BY <2>0
  <2>2. CASE logs'[i] = logs[i]
    BY <2>1, <2>2, SubSeqFull, SMTT(20)
  <2>3. ASSUME NEW cmd \in Command, Submit(i, cmd)
        PROVE  /\ Len(logs[i]) <= Len(logs'[i])
               /\ SubSeq(logs'[i], 1, Len(logs[i])) = logs[i]
    <3> DEFINE e == [term |-> current_term[i], command |-> cmd]
               n == Len(logs[i])
    <3>1. logs'[i] = Append(logs[i], e)
      BY <2>0, <2>3, Zenon DEF Submit
    <3>2. e \in LogEntry
      BY <2>0 DEF LogEntry
    <3> HIDE DEF e
    <3>3. /\ Append(logs[i], e) \in Seq(LogEntry)
          /\ Len(Append(logs[i], e)) = n + 1
          /\ \A k \in 1..n : Append(logs[i], e)[k] = logs[i][k]
      BY <2>1, <3>2, AppendProperties, SMTT(20)
    <3>4. \A k \in 1..n : Append(logs[i], e)[k] \in LogEntry
      BY <2>1, <3>3, ElementOfSeq, SMTT(20)
    <3>5. /\ SubSeq(Append(logs[i], e), 1, n) \in Seq(LogEntry)
          /\ Len(SubSeq(Append(logs[i], e), 1, n)) = n
          /\ \A k \in 1..n : SubSeq(Append(logs[i], e), 1, n)[k] = Append(logs[i], e)[k]
      <4>1. /\ SubSeq(Append(logs[i], e), 1, n) \in Seq(LogEntry)
            /\ Len(SubSeq(Append(logs[i], e), 1, n)) = IF 1 <= n THEN n - 1 + 1 ELSE 0
            /\ \A k \in 1..(n - 1 + 1) :
                 SubSeq(Append(logs[i], e), 1, n)[k] = Append(logs[i], e)[1 + k - 1]
        BY <2>1, <3>4, SubSeqProperties, SMTT(20)
      <4>2. n - 1 + 1 = n /\ \A k \in 1..n : 1 + k - 1 = k
        BY <2>1
      <4> QED
        BY <2>1, <4>1, <4>2, SMTT(20)
    <3>6. SubSeq(Append(logs[i], e), 1, n) = logs[i]
      BY <2>1, <3>3, <3>5, SeqEqual, SMTT(20)
    <3> QED
      BY <2>1, <3>1, <3>3, <3>6, SMTT(20)
  <2>4. ASSUME NEW j \in Server, NEW cmd \in Command, Submit(j, cmd), j # i
        PROVE  logs'[i] = logs[i]
    BY <2>0, <2>4, Zenon DEF Submit
  <2>5. ASSUME NEW r \in rv_rep, VoteResultGranted(r)
        PROVE  logs'[i] = logs[i]
    BY <2>5, Zenon DEF VoteResultGranted
  <2>6. CASE LeadersStay
    BY <2>2, <2>6, Zenon DEF LeadersStay
  <2> QED
    BY <1>1, <2>2, <2>3, <2>4, <2>5, <2>6, LeaderCases, Zenon
<1>2. LogTypeOK /\ LeaderInv /\ ElectionSafety /\ [LogNext]_logVars => [Grows]_logVars
  BY <1>1, Zenon
<1> QED
  BY <1>2, LogTypeCorrect, LeaderInvariant, ElectionSafe, PTL DEF LogSpec, LeaderAppendOnly

-----------------------------------------------------------------------------
(***************************************************************************)
(* The inductive invariant of the logs.  A request carries a tail of the   *)
(* log its sender had; "full" gives the whole of that log for each request *)
(* on its way.  Any two of these logs and the logs of the nodes that hold  *)
(* an entry of the same term agree up to the earlier of the two, because   *)
(* the entries of a term all come from the log of the one leader of that   *)
(* term, which holds every one of them while it leads.                     *)
(***************************************************************************)

Matching(a, b) ==
  \A k \in 1..Len(a), h \in 1..Len(b) :
    h <= k /\ a[k].term = b[h].term => \A g \in 1..h : a[g] = b[g]

Carries(m, l) ==
  /\ Len(l) = m.prev_log_index + 1 + Len(m.entries)
  /\ m.prev_log_index # None => l[m.prev_log_index + 1].term = m.prev_log_term
  /\ \A k \in 1..Len(m.entries) : m.entries[k] = l[m.prev_log_index + 1 + k]

Extends(l, short) ==
  Len(short) <= Len(l) /\ \A k \in 1..Len(short) : short[k] = l[k]

Sources(full) == {logs[i] : i \in Server} \cup {full[m] : m \in ae_req}

Carried(full) == \A m \in ae_req : full[m] \in Seq(LogEntry) /\ Carries(m, full[m])

Matched(full) == \A a, b \in Sources(full) : Matching(a, b)

Won(full) ==
  \A a \in Sources(full) : \A k \in 1..Len(a) :
    \E l \in Server : <<l, a[k].term>> \in elected

LeadersHold(full) ==
  \A i \in Server : state[i] = "Leader" =>
    \A a \in Sources(full) : \A k \in 1..Len(a) :
      a[k].term = current_term[i] =>
        k <= Len(logs[i]) /\ logs[i][k].term = current_term[i]

FromLeader(full) ==
  \A m \in ae_req :
    state[m.from] = "Leader" /\ current_term[m.from] = m.term =>
      Extends(logs[m.from], full[m])

LogInv(full) ==
  Carried(full) /\ Matched(full) /\ Won(full) /\ LeadersHold(full) /\ FromLeader(full)

\* A node has won no term it has not reached, nor the one it stands in.
WinInv ==
  /\ \A e \in elected : e[2] <= current_term[e[1]]
  /\ \A i \in Server : state[i] = "Candidate" => <<i, current_term[i]>> \notin elected

\* Until the first crash.
HistoryInv == restarts = 0 => \E full : LogInv(full)

-----------------------------------------------------------------------------
(* The operators.                                                          *)

LEMMA AppendFacts ==
  ASSUME NEW l \in Seq(LogEntry), NEW e \in LogEntry
  PROVE  /\ Append(l, e) \in Seq(LogEntry)
         /\ Len(l) \in Nat
         /\ Len(Append(l, e)) = Len(l) + 1
         /\ \A k \in 1..Len(l) : Append(l, e)[k] = l[k]
         /\ Append(l, e)[Len(l) + 1] = e
BY AppendProperties

LEMMA EntriesLength == \A s \in Seq(LogEntry) : Len(s) \in Nat
  OBVIOUS

\* The entry before the ones a request carries is within the sender's log.
LEMMA IndexWithin ==
  ASSUME NEW idx \in Nat, NEW n \in Nat, NEW len, NEW longer \in Nat,
         len = idx + 1 + n, len <= longer
  PROVE  idx + 1 \in 1..len /\ idx + 1 \in 1..longer
OBVIOUS

\* A follower that accepts a request holds the sender's log afterwards, or
\* keeps its own, which then holds all that was sent.
LEMMA SpliceMatches ==
  ASSUME NEW l \in Seq(LogEntry), NEW f \in Seq(LogEntry), NEW m \in AppendEntries,
         Carries(m, f), Matching(l, f), PrevOk(m, l)
  PROVE  Splice(l, m.prev_log_index + 1, m.entries) \in {l, f}
<1> DEFINE at == m.prev_log_index + 1
           es == m.entries
           spliced == [k \in 1..(at + Len(es)) |->
             IF k <= at \/ k - at \in Held(l, at, es) THEN l[k] ELSE es[k - at]]
<1>1. at \in Nat /\ es \in Seq(LogEntry) /\ Len(es) \in Nat
  BY DEF AppendEntries, OptIndex, None
<1>2. Len(l) \in Nat /\ Len(f) = at + Len(es)
  BY DEF Carries
<1>3. \A k \in 1..Len(es) : es[k] = f[at + k]
  BY Zenon DEF Carries
<1>4. \A k \in 1..Len(l) : k <= Len(f) /\ l[k].term = f[k].term =>
        \A g \in 1..k : l[g] = f[g]
  <2> TAKE k \in 1..Len(l)
  <2> SUFFICES ASSUME k <= Len(f), l[k].term = f[k].term
               PROVE  \A g \in 1..k : l[g] = f[g]
    OBVIOUS
  <2>1. k \in 1..Len(f) /\ k <= k
    BY <1>1, <1>2, SMTT(20)
  <2> QED
    BY <2>1, Zenon DEF Matching
<1>5. \A k \in 1..at : l[k] = f[k]
  <2> SUFFICES ASSUME at > 0
               PROVE  \A k \in 1..at : l[k] = f[k]
    BY <1>1, SMTT(20)
  <2>1. m.prev_log_index # None
    BY <1>1, SMTT(20) DEF None
  <2>2. m.prev_log_index < Len(l) /\ l[at].term = m.prev_log_term
    BY <2>1, Zenon DEF PrevOk
  <2>3. f[at].term = m.prev_log_term
    BY <2>1, Zenon DEF Carries
  <2>4. at \in 1..Len(l) /\ at <= Len(f)
    <3>1. m.prev_log_index \in Int
      BY DEF AppendEntries, OptIndex, None
    <3> QED
      BY <1>1, <1>2, <2>2, <3>1, SMTT(20)
  <2> QED
    BY <1>4, <2>2, <2>3, <2>4, Zenon
<1> HIDE DEF at, es
<1>6. \A k \in 1..(at + Len(es)) :
        (IF k <= at \/ k - at \in Held(l, at, es) THEN l[k] ELSE es[k - at]) = f[k]
  <2> TAKE k \in 1..(at + Len(es))
  <2>1. CASE k <= at
    <3>1. k \in 1..at
      BY <1>1, <2>1, SMTT(20)
    <3> QED
      BY <1>5, <2>1, <3>1, Zenon
  <2>2. CASE k - at \in Held(l, at, es)
    <3> DEFINE j == k - at
    <3>1. j \in 1..Len(es) /\ at + j = k /\ k <= Len(f)
      BY <1>1, <1>2, <2>2, SMTT(20) DEF Held
    <3>2. at + j <= Len(l) /\ l[at + j].term = es[j].term
      <4>1. \A x \in 1..j : l[at + x].term = es[x].term
        BY <2>2, Zenon DEF Held
      <4>2. j \in 1..j
        BY <3>1
      <4>3. at + j <= Len(l)
        BY <2>2, Zenon DEF Held
      <4> QED
        BY <4>1, <4>2, <4>3, Zenon
    <3> HIDE DEF j
    <3>3. es[j] = f[k]
      BY <1>3, <3>1, Zenon
    <3>4. k \in 1..Len(l) /\ k \in 1..k
      BY <1>1, <1>2, <3>1, <3>2, SMTT(20)
    <3>5. l[k] = f[k]
      BY <1>4, <3>1, <3>2, <3>3, <3>4, Zenon
    <3> QED
      BY <2>2, <3>5, Zenon
  <2>3. CASE ~(k <= at) /\ k - at \notin Held(l, at, es)
    <3>1. k - at \in 1..Len(es) /\ at + (k - at) = k
      BY <1>1, <2>3, SMTT(20)
    <3>2. es[k - at] = f[k]
      BY <1>3, <3>1, Zenon
    <3> QED
      BY <2>3, <3>2, Zenon
  <2> QED
    BY <2>1, <2>2, <2>3, Zenon
<1>7. spliced = f
  <2>1. f = [k \in 1..(at + Len(es)) |-> f[k]]
    <3>1. f \in [1..Len(f) -> LogEntry]
      BY LenProperties, Zenon
    <3> QED
      BY <1>2, <3>1, Zenon
  <2> QED
    BY <1>6, <2>1, Zenon
<1> QED
  BY <1>7, Zenon DEF Splice, at, es

-----------------------------------------------------------------------------
(* How steps keep the invariant.                                           *)

\* A step that changes no leader and gives each node a log that was there.
LEMMA LogKept ==
  ASSUME LogTypeOK, NEW full, LogInv(full), LeadersStay,
         ae_req' \subseteq ae_req, elected' = elected,
         \A i \in Server : logs'[i] \in Sources(full)
  PROVE  LogInv(full)'
<1>1. Sources(full)' \subseteq Sources(full)
  BY Zenon DEF Sources
<1>2. \A i \in Server : state'[i] = "Leader" =>
        /\ state[i] = "Leader" /\ current_term'[i] = current_term[i]
        /\ logs'[i] = logs[i]
  BY Zenon DEF LeadersStay
<1>3. Carried(full)'
  BY Zenon DEF LogInv, Carried, Carries
<1>4. Matched(full)'
  BY <1>1, Zenon DEF LogInv, Matched, Matching
<1>5. Won(full)'
  BY <1>1, Zenon DEF LogInv, Won
<1>6. LeadersHold(full)'
  <2> SUFFICES ASSUME NEW i \in Server, state'[i] = "Leader",
                      NEW a \in Sources(full)', NEW k \in 1..Len(a),
                      a[k].term = current_term'[i]
               PROVE  k <= Len(logs'[i]) /\ logs'[i][k].term = current_term'[i]
    BY Zenon DEF LeadersHold
  <2>1. a \in Sources(full) /\ a[k].term = current_term[i] /\ state[i] = "Leader"
    BY <1>1, <1>2, Zenon
  <2>2. k <= Len(logs[i]) /\ logs[i][k].term = current_term[i]
    BY <2>1, Zenon DEF LogInv, LeadersHold
  <2> QED
    BY <1>2, <2>2, Zenon
<1>7. FromLeader(full)'
  <2> SUFFICES ASSUME NEW m \in ae_req', state'[m.from] = "Leader",
                      current_term'[m.from] = m.term
               PROVE  Extends(logs[m.from], full[m])'
    BY Zenon DEF FromLeader
  <2>1. m \in ae_req /\ m.from \in Server
    BY Zenon DEF LogTypeOK, AppendEntries
  <2>2. Extends(logs[m.from], full[m]) /\ logs'[m.from] = logs[m.from]
    BY <1>2, <2>1, Zenon DEF LogInv, FromLeader
  <2> QED
    BY <2>2, Zenon DEF Extends
<1> QED
  BY <1>3, <1>4, <1>5, <1>6, <1>7, Zenon DEF LogInv

\* A submitted command: the new entry is the only one of its term at its
\* index, because the leader held all the entries of its term.
LEMMA SubmitKeeps ==
  ASSUME LogTypeOK, LeaderInv, ElectionSafety, NEW full, LogInv(full),
         NEW i \in Server, NEW cmd \in Command, Submit(i, cmd)
  PROVE  LogInv(full)'
<1> DEFINE t == current_term[i]
           e == [term |-> t, command |-> cmd]
           old == logs[i]
           n == Len(old)
           new == logs'[i]
<1>1. /\ logs \in [Server -> Seq(LogEntry)] /\ current_term \in [Server -> Nat]
  BY Zenon DEF LogTypeOK
<1>2. /\ logs' = [logs EXCEPT ![i] = Append(@, e)]
      /\ state[i] = "Leader"
      /\ state' = state /\ current_term' = current_term /\ elected' = elected
      /\ ae_req' = ae_req
  BY Zenon DEF Submit, electionVars, voteVars, aeVars
<1>3. e \in LogEntry /\ old \in Seq(LogEntry) /\ e.term = t
  BY <1>1, Zenon DEF LogEntry
<1>4. new = Append(old, e) /\ \A j \in Server \ {i} : logs'[j] = logs[j]
  BY <1>1, <1>2, Zenon
<1> HIDE DEF e
<1>5. /\ n \in Nat /\ Len(new) = n + 1
      /\ \A k \in 1..n : new[k] = old[k]
      /\ new[n + 1].term = t
  BY <1>3, <1>4, AppendFacts, SMTT(20)
<1> HIDE DEF new, n, t, old
<1>6. \A k \in 1..(n + 1) : k \in 1..n \/ k = n + 1
  BY <1>5
<1>7. old \in Sources(full)
  BY Zenon DEF Sources, old
<1>8. Sources(full)' \subseteq Sources(full) \cup {new}
  BY <1>2, <1>4, Zenon DEF Sources, new
\* What the leader holds of its own term.
<1>9. \A a \in Sources(full) : \A k \in 1..Len(a) :
        a[k].term = t => k <= n /\ k \in 1..n /\ old[k].term = t
  <2> TAKE a \in Sources(full)
  <2> TAKE k \in 1..Len(a)
  <2> SUFFICES ASSUME a[k].term = t
               PROVE  k <= n /\ k \in 1..n /\ old[k].term = t
    OBVIOUS
  <2>1. k <= n /\ old[k].term = t
    BY <1>2, Zenon DEF LogInv, LeadersHold, t, n, old
  <2> QED
    BY <1>5, <2>1, SMTT(20)
<1>10. \A a, b \in Sources(full) : Matching(a, b)
  BY Zenon DEF LogInv, Matched
<1>11. ASSUME NEW b \in Sources(full)
       PROVE  Matching(new, b)
  <2> SUFFICES ASSUME NEW k \in 1..(n + 1), NEW h \in 1..Len(b), h <= k,
                      new[k].term = b[h].term
               PROVE  \A g \in 1..h : new[g] = b[g]
    BY <1>5, Zenon DEF Matching
  <2>1. h \in Nat /\ h <= h
    OBVIOUS
  <2>2. h \in 1..n /\ \A g \in 1..h : old[g] = b[g]
    <3>1. CASE k \in 1..n
      <4>1. h \in 1..n
        BY <1>5, <3>1, SMTT(20)
      <4>2. old[k].term = b[h].term
        BY <1>5, <3>1, Zenon
      <4> QED
        BY <1>7, <1>10, <3>1, <4>1, <4>2, Zenon DEF Matching, n
    <3>2. CASE k = n + 1
      <4>1. b[h].term = t
        BY <1>5, <3>2, Zenon
      <4>2. h \in 1..n /\ old[h].term = b[h].term
        BY <1>9, <4>1, Zenon
      <4> QED
        BY <1>7, <1>10, <2>1, <4>2, Zenon DEF Matching, n
    <3> QED
      BY <1>6, <3>1, <3>2, Zenon
  <2>3. \A g \in 1..h : g \in 1..n
    BY <1>5, <2>2, SMTT(20)
  <2> QED
    BY <1>5, <2>2, <2>3, Zenon
<1>12. ASSUME NEW a \in Sources(full)
       PROVE  Matching(a, new)
  <2> SUFFICES ASSUME NEW k \in 1..Len(a), NEW h \in 1..(n + 1), h <= k,
                      a[k].term = new[h].term
               PROVE  \A g \in 1..h : a[g] = new[g]
    BY <1>5, Zenon DEF Matching
  <2>1. CASE h \in 1..n
    <3>1. a[k].term = old[h].term
      BY <1>5, <2>1, Zenon
    <3>2. \A g \in 1..h : a[g] = old[g]
      BY <1>7, <1>10, <2>1, <3>1, Zenon DEF Matching, n
    <3>3. \A g \in 1..h : g \in 1..n
      BY <1>5, <2>1
    <3> QED
      BY <1>5, <3>2, <3>3, Zenon
  <2>2. CASE h = n + 1
    <3>1. a[k].term = t
      BY <1>5, <2>2, Zenon
    <3>2. k <= n
      BY <1>9, <3>1, Zenon
    <3> QED
      BY <1>5, <2>2, <3>2
  <2> QED
    BY <1>6, <2>1, <2>2, Zenon
<1>13. Matched(full)'
  <2>1. Matching(new, new)
    BY Zenon DEF Matching
  <2>2. \A a, b \in Sources(full)' : Matching(a, b)
    BY <1>8, <1>10, <1>11, <1>12, <2>1, Zenon
  <2> QED
    BY <2>2, Zenon DEF Matched, Matching
<1>14. Won(full)'
  <2> SUFFICES ASSUME NEW a \in Sources(full)', NEW k \in 1..Len(a)
               PROVE  \E l \in Server : <<l, a[k].term>> \in elected
    BY <1>2, Zenon DEF Won
  <2>1. CASE a \in Sources(full)
    BY <2>1, Zenon DEF LogInv, Won
  <2>2. CASE a = new /\ k \in 1..n
    <3>1. a[k] = old[k]
      BY <1>5, <2>2, Zenon
    <3> QED
      BY <1>7, <2>2, <3>1, Zenon DEF LogInv, Won, n
  <2>3. CASE a = new /\ k = n + 1
    <3>1. a[k].term = t
      BY <1>5, <2>3, Zenon
    <3>2. <<i, t>> \in elected
      BY <1>2, Zenon DEF LeaderInv, t
    <3> QED
      BY <3>1, <3>2, Zenon
  <2>4. a = new => k \in 1..(n + 1)
    BY <1>5, Zenon
  <2> QED
    BY <1>6, <1>8, <2>1, <2>2, <2>3, <2>4, Zenon
<1>15. LeadersHold(full)'
  <2> SUFFICES ASSUME NEW j \in Server, state[j] = "Leader",
                      NEW a \in Sources(full)', NEW k \in 1..Len(a),
                      a[k].term = current_term[j]
               PROVE  k <= Len(logs'[j]) /\ logs'[j][k].term = current_term[j]
    BY <1>2, Zenon DEF LeadersHold
  <2>0. k \in Nat
    OBVIOUS
  <2>1. CASE a \in Sources(full)
    <3>1. k <= Len(logs[j]) /\ logs[j][k].term = current_term[j]
      BY <2>1, Zenon DEF LogInv, LeadersHold
    <3>2. CASE j # i
      BY <1>4, <3>1, <3>2, Zenon
    <3>3. CASE j = i
      <4>1. k <= n /\ old[k].term = t /\ t = current_term[j]
        BY <3>1, <3>3, Zenon DEF n, old, t
      <4>2. k \in 1..n /\ k <= n + 1
        BY <1>5, <2>0, <4>1
      <4> QED
        BY <1>5, <3>3, <4>1, <4>2, Zenon DEF new
    <3> QED
      BY <3>2, <3>3, Zenon
  <2>2. CASE a = new /\ j = i
    <3>1. k <= n + 1
      BY <1>5, <2>2
    <3> QED
      BY <1>5, <2>2, <3>1, Zenon DEF new
  <2>3. CASE a = new /\ j # i
    <3>1. current_term[j] # t
      <4>1. <<i, t>> \in elected /\ <<j, current_term[j]>> \in elected
        BY <1>2, Zenon DEF LeaderInv, t
      <4> QED
        BY <2>3, <4>1 DEF ElectionSafety
    <3>2. k \in 1..n
      BY <1>5, <1>6, <2>3, <3>1, Zenon
    <3>3. old[k].term = current_term[j]
      BY <1>5, <2>3, <3>2, Zenon
    <3>4. k <= Len(logs[j]) /\ logs[j][k].term = current_term[j]
      BY <1>7, <3>2, <3>3, Zenon DEF LogInv, LeadersHold, n
    <3> QED
      BY <1>4, <2>3, <3>4, Zenon
  <2> QED
    BY <1>8, <2>1, <2>2, <2>3, Zenon
<1>16. FromLeader(full)'
  <2> SUFFICES ASSUME NEW m \in ae_req, state[m.from] = "Leader",
                      current_term[m.from] = m.term
               PROVE  Extends(logs'[m.from], full[m])
    BY <1>2, Zenon DEF FromLeader, Extends
  <2>1. m.from \in Server /\ full[m] \in Seq(LogEntry)
    BY Zenon DEF LogTypeOK, AppendEntries, LogInv, Carried
  <2>2. Extends(logs[m.from], full[m])
    BY Zenon DEF LogInv, FromLeader
  <2>3. CASE m.from # i
    BY <1>4, <2>1, <2>2, <2>3, Zenon
  <2>4. CASE m.from = i
    <3>1. Len(full[m]) \in Nat /\ Len(full[m]) <= n
      BY <2>1, <2>2, <2>4 DEF Extends, n, old
    <3>2. Len(full[m]) <= n + 1 /\ \A k \in 1..Len(full[m]) : k \in 1..n
      BY <1>5, <3>1
    <3>3. \A k \in 1..Len(full[m]) : full[m][k] = old[k]
      BY <2>2, <2>4, Zenon DEF Extends, old
    <3> QED
      BY <1>5, <2>4, <3>2, <3>3, Zenon DEF Extends, new
  <2> QED
    BY <2>3, <2>4, Zenon
<1>17. Carried(full)'
  BY <1>2, Zenon DEF LogInv, Carried, Carries
<1> QED
  BY <1>13, <1>14, <1>15, <1>16, <1>17, Zenon DEF LogInv

\* The winner of a new term holds every entry of it: there is none yet.
LEMMA WinnerKeeps ==
  ASSUME LogTypeOK, LeaderInv, ElectionSafety', WinInv, NEW full, LogInv(full),
         NEW r \in rv_rep, VoteResultGranted(r), StartLeader(r.to)
  PROVE  LogInv(full)'
<1> DEFINE i == r.to
           t == current_term[i]
<1>1. i \in Server
  BY Zenon DEF LogTypeOK, RequestVoteReply
<1>2. /\ state[i] = "Candidate" /\ current_term' = current_term
      /\ logs' = logs /\ ae_req' = ae_req
      /\ state' = [state EXCEPT ![i] = "Leader"]
      /\ elected' = elected \cup {<<i, t>>}
  BY Zenon DEF VoteResultGranted, StartLeader, aeVars
<1>3. <<i, t>> \notin elected
  BY <1>1, <1>2, Zenon DEF WinInv
<1>4. \A l : <<l, t>> \notin elected
  <2> SUFFICES ASSUME NEW l, <<l, t>> \in elected
               PROVE  FALSE
    OBVIOUS
  <2>1. <<l, t>> \in elected' /\ <<i, t>> \in elected'
    BY <1>2, Zenon
  <2>2. <<l, t>> = <<i, t>>
    BY <2>1 DEF ElectionSafety
  <2> QED
    BY <1>3, <2>2, Zenon
<1> HIDE DEF i, t
<1>5. \A j \in Server : state'[j] = "Leader" => j = i \/ state[j] = "Leader"
  <2>1. state \in [Server -> State]
    BY Zenon DEF LogTypeOK
  <2> QED
    BY <1>1, <1>2, <2>1, Zenon
<1>6. Sources(full)' \subseteq Sources(full)
  BY <1>2, Zenon DEF Sources
<1>7. Carried(full)' /\ Matched(full)' /\ Won(full)'
  <2>1. Carried(full)'
    BY <1>2, Zenon DEF LogInv, Carried, Carries
  <2>2. Matched(full)'
    BY <1>6, Zenon DEF LogInv, Matched, Matching
  <2>3. elected \subseteq elected'
    BY <1>2, Zenon
  <2>4. Won(full)'
    BY <1>6, <2>3, Zenon DEF LogInv, Won
  <2> QED
    BY <2>1, <2>2, <2>4, Zenon
<1>8. LeadersHold(full)'
  <2> SUFFICES ASSUME NEW j \in Server, state'[j] = "Leader",
                      NEW a \in Sources(full), NEW k \in 1..Len(a),
                      a[k].term = current_term[j]
               PROVE  k <= Len(logs[j]) /\ logs[j][k].term = current_term[j]
    BY <1>2, <1>6, Zenon DEF LeadersHold
  <2>1. CASE j = i
    <3>1. a[k].term = t
      BY <2>1, Zenon DEF t
    <3>2. PICK l \in Server : <<l, a[k].term>> \in elected
      BY Zenon DEF LogInv, Won
    <3> QED
      BY <1>4, <3>1, <3>2, Zenon
  <2>2. CASE state[j] = "Leader"
    BY <2>2, Zenon DEF LogInv, LeadersHold
  <2> QED
    BY <1>5, <2>1, <2>2, Zenon
<1>9. FromLeader(full)'
  <2> SUFFICES ASSUME NEW m \in ae_req, state'[m.from] = "Leader",
                      current_term[m.from] = m.term
               PROVE  Extends(logs[m.from], full[m])
    BY <1>2, Zenon DEF FromLeader, Extends
  <2>1. m.from \in Server /\ <<m.from, m.term>> \in elected
    BY Zenon DEF LogTypeOK, AppendEntries, LeaderInv
  <2>2. m.from # i
    BY <1>4, <2>1, Zenon DEF t
  <2> QED
    BY <1>5, <2>1, <2>2, Zenon DEF LogInv, FromLeader
<1> QED
  BY <1>7, <1>8, <1>9, Zenon DEF LogInv

\* A request carries a tail of the leader's log.
LEMMA SendKeeps ==
  ASSUME LogTypeOK, NEW full, LogInv(full), NEW i \in Server,
         NEW called \in SUBSET Peers(i), NEW c, SendAES(i, called, c)
  PROVE  \E f : LogInv(f)'
<1> DEFINE ni(j) == Min({next_index[i][j], Len(logs[i])})
           new(j) == [from |-> i, to |-> j, term |-> current_term[i],
                      prev_log_index |-> ni(j) - 1,
                      prev_log_term |-> IF ni(j) = 0 THEN None
                                        ELSE logs[i][ni(j)].term,
                      entries |-> SubSeq(logs[i], ni(j) + 1, Len(logs[i])),
                      leader_commit |-> c]
<1>1. /\ logs' = logs /\ state' = state /\ current_term' = current_term
      /\ elected' = elected
      /\ ae_req' = ae_req \cup {new(j) : j \in called}
  BY Zenon DEF SendAES, electionVars, voteVars
<1>2. PICK f : f = [m \in ae_req' |-> IF m \in ae_req THEN full[m] ELSE logs[i]]
  BY Zenon
<1>3. logs[i] \in Seq(LogEntry) /\ Len(logs[i]) \in Nat
  BY DEF LogTypeOK
<1>4. ASSUME NEW j \in called
      PROVE  new(j).from = i /\ Carries(new(j), logs[i])
  <2> DEFINE n == Len(logs[i])
             p == ni(j)
  <2>1. j \in Server /\ next_index[i][j] \in Nat
    BY DEF Peers, LogTypeOK
  <2>2. p \in Nat /\ p <= n
    BY <1>3, <2>1, MinPair, SMTT(20)
  <2>3. /\ new(j).from = i
        /\ new(j).prev_log_index = p - 1
        /\ new(j).prev_log_term = IF p = 0 THEN None ELSE logs[i][p].term
        /\ new(j).entries = SubSeq(logs[i], p + 1, n)
    BY Zenon
  <2> HIDE DEF new, p, n
  <2>4. p - 1 + 1 = p /\ (p - 1 # None => p # 0)
    BY <2>2 DEF None
  <2>5. /\ Len(SubSeq(logs[i], p + 1, n)) = n - p
        /\ \A k \in 1..(n - p) : SubSeq(logs[i], p + 1, n)[k] = logs[i][p + k]
    <3>1. \A k \in (p + 1)..n : logs[i][k] \in LogEntry
      <4> TAKE k \in (p + 1)..n
      <4>1. k \in 1..Len(logs[i])
        BY <1>3, <2>2 DEF n
      <4> QED
        BY <1>3, <4>1, ElementOfSeq, SMTT(20)
    <3>2. p + 1 \in Int /\ n \in Int
      BY <1>3, <2>2, SMTT(20) DEF n
    <3>3. /\ Len(SubSeq(logs[i], p + 1, n)) =
               IF p + 1 <= n THEN n - (p + 1) + 1 ELSE 0
          /\ \A k \in 1..(n - (p + 1) + 1) :
               SubSeq(logs[i], p + 1, n)[k] = logs[i][p + 1 + k - 1]
      BY <3>1, <3>2, SubSeqProperties, SMTT(20)
    <3>4. /\ n - (p + 1) + 1 = n - p
          /\ \A k \in 1..(n - p) : p + 1 + k - 1 = p + k
          /\ ~(p + 1 <= n) => n - p = 0
      BY <1>3, <2>2, SMTT(20) DEF n
    <3> QED
      BY <3>3, <3>4, Zenon
  <2>6. Len(logs[i]) = p + (n - p)
    BY <1>3, <2>2 DEF n
  <2> QED
    BY <2>3, <2>4, <2>5, <2>6, Zenon DEF Carries
<1>5. /\ \A m \in ae_req : m \in ae_req' /\ f[m] = full[m]
      /\ \A m \in ae_req' :
           \/ m \in ae_req
           \/ f[m] = logs[i] /\ m.from = i /\ Carries(m, logs[i])
  <2>1. \A m \in ae_req' : f[m] = IF m \in ae_req THEN full[m] ELSE logs[i]
    BY <1>2, Zenon
  <2>2. \A m \in ae_req : m \in ae_req'
    BY <1>1, Zenon
  <2>3. ASSUME NEW m \in ae_req', m \notin ae_req
        PROVE  m.from = i /\ Carries(m, logs[i])
    <3>1. PICK j \in called : m = new(j)
      BY <1>1, <2>3, Zenon
    <3> HIDE DEF new
    <3> QED
      BY <1>4, <3>1, Zenon
  <2> QED
    BY <2>1, <2>2, <2>3, Zenon
<1> HIDE DEF new
<1>6. Sources(f)' \subseteq Sources(full)
  <2>1. ASSUME NEW s \in Sources(f)'
        PROVE  (\E j \in Server : s = logs[j]) \/ (\E m \in ae_req' : s = f[m])
    BY <1>1, Zenon DEF Sources
  <2>2. /\ \A j \in Server : logs[j] \in Sources(full)
        /\ \A m \in ae_req : full[m] \in Sources(full)
    BY Zenon DEF Sources
  <2>3. \A m \in ae_req' : f[m] \in Sources(full)
    BY <1>5, <2>2, Zenon
  <2> QED
    BY <2>1, <2>2, <2>3, Zenon
<1>7. Carried(f)'
  <2>1. \A m \in ae_req' : f[m] \in Seq(LogEntry) /\ Carries(m, f[m])
    BY <1>3, <1>5, Zenon DEF LogInv, Carried
  <2> QED
    BY <2>1, Zenon DEF Carried, Carries
<1>8. Matched(f)'
  BY <1>6, Zenon DEF LogInv, Matched, Matching
<1>9. Won(f)'
  BY <1>1, <1>6, Zenon DEF LogInv, Won
<1>10. LeadersHold(f)'
  BY <1>1, <1>6, Zenon DEF LogInv, LeadersHold
<1>11. FromLeader(f)'
  <2> SUFFICES ASSUME NEW m \in ae_req', state[m.from] = "Leader",
                      current_term[m.from] = m.term
               PROVE  Extends(logs[m.from], f[m])
    BY <1>1, Zenon DEF FromLeader, Extends
  <2>1. CASE m \in ae_req
    BY <1>5, <2>1, Zenon DEF LogInv, FromLeader
  <2>2. CASE f[m] = logs[i] /\ m.from = i
    <3>1. Len(logs[i]) <= Len(logs[i])
      BY <1>3
    <3> QED
      BY <2>2, <3>1, Zenon DEF Extends
  <2> QED
    BY <1>5, <2>1, <2>2, Zenon
<1> QED
  BY <1>7, <1>8, <1>9, <1>10, <1>11, Zenon DEF LogInv

\* An accepted request gives the follower the sender's log, or leaves its own.
LEMMA AcceptKeeps ==
  ASSUME LogTypeOK, LeadersStay, NEW full, LogInv(full),
         NEW m \in ae_req, AppendAccept(m)
  PROVE  LogInv(full)'
<1> DEFINE i == m.to
<1>1. /\ logs \in [Server -> Seq(LogEntry)] /\ i \in Server /\ m \in AppendEntries
  BY Zenon DEF LogTypeOK, AppendEntries
<1>2. /\ PrevOk(m, logs[i])
      /\ logs' = [logs EXCEPT ![i] = Splice(@, m.prev_log_index + 1, m.entries)]
      /\ ae_req' \subseteq ae_req /\ elected' = elected
  BY Zenon DEF AppendAccept, HearLeader, AppendReply, voteVars
<1>3. full[m] \in Seq(LogEntry) /\ Carries(m, full[m])
  BY Zenon DEF LogInv, Carried
<1>4. logs[i] \in Sources(full) /\ full[m] \in Sources(full)
  BY <1>1, Zenon DEF Sources
<1>5. Matching(logs[i], full[m])
  BY <1>4, Zenon DEF LogInv, Matched
<1>6. Splice(logs[i], m.prev_log_index + 1, m.entries) \in {logs[i], full[m]}
  <2>1. logs[i] \in Seq(LogEntry)
    BY <1>1, Zenon
  <2> QED
    BY <1>1, <1>2, <1>3, <1>5, <2>1, SpliceMatches, Zenon
<1>7. logs'[i] \in Sources(full)
  BY <1>1, <1>2, <1>4, <1>6, Zenon
<1> HIDE DEF i
<1>8. \A j \in Server \ {i} : logs'[j] \in Sources(full)
  BY <1>1, <1>2, Zenon DEF Sources
<1> QED
  BY <1>2, <1>7, <1>8, LogKept, Zenon

\* A node stands in a new term each time, so it has not won the term it
\* stands in.
LEMMA WinStep ==
  ASSUME LogTypeOK, LogTypeOK', ElectionInv, WinInv, [LogNext]_logVars
  PROVE  WinInv'
<1>1. /\ current_term \in [Server -> Nat] /\ state \in [Server -> State]
      /\ current_term' \in [Server -> Nat]
  BY Zenon DEF LogTypeOK
<1>2. \A e \in elected : e[1] \in Server /\ e[2] \in Nat
  BY SMTT(20) DEF LogTypeOK
<1>3. ASSUME elected' = elected,
             \A i \in Server :
               /\ current_term'[i] >= current_term[i]
               /\ state'[i] = "Candidate" =>
                    \/ state[i] = "Candidate" /\ current_term'[i] = current_term[i]
                    \/ current_term'[i] > current_term[i]
      PROVE  WinInv'
  <2>1. \A e \in elected' : e[2] <= current_term'[e[1]]
    BY <1>1, <1>2, <1>3, SMTT(20) DEF WinInv
  <2>2. ASSUME NEW i \in Server, state'[i] = "Candidate",
               <<i, current_term'[i]>> \in elected
        PROVE  FALSE
    <3>1. current_term'[i] <= current_term[i]
      BY <2>2 DEF WinInv
    <3>2. state[i] = "Candidate" /\ current_term'[i] = current_term[i]
      BY <1>1, <1>3, <2>2, <3>1, SMTT(20)
    <3> QED
      BY <2>2, <3>2, Zenon DEF WinInv
  <2> QED
    BY <1>3, <2>1, <2>2, Zenon DEF WinInv
<1>4. CASE QuietStep
  <2>1. elected' = elected /\ \A i \in Server : QuietAt(i)
    BY <1>4, Zenon DEF QuietStep
  <2>2. \A i \in Server : current_term[i] \in Nat /\ current_term'[i] \in Nat
    BY <1>1, Zenon
  <2>3. \A i \in Server :
          /\ current_term'[i] >= current_term[i]
          /\ state'[i] = "Candidate" =>
               state[i] = "Candidate" /\ current_term'[i] = current_term[i]
    BY <2>1, <2>2 DEF QuietAt
  <2> QED
    BY <1>3, <2>1, <2>3, Zenon
<1>5. ASSUME NEW i \in Server, StartElection(i)
      PROVE  WinInv'
  <2>1. /\ elected' = elected
        /\ state' = [state EXCEPT ![i] = "Candidate"]
        /\ current_term' = [current_term EXCEPT ![i] = @ + 1]
    BY <1>5, Zenon DEF StartElection
  <2>2. current_term'[i] > current_term[i]
    BY <1>1, <2>1, SMTT(20)
  <2>3. \A j \in Server \ {i} : state'[j] = state[j] /\ current_term'[j] = current_term[j]
    BY <1>1, <2>1, Zenon
  <2>4. \A j \in Server : current_term[j] \in Nat /\ current_term'[j] \in Nat
    BY <1>1, Zenon
  <2>5. \A j \in Server : current_term'[j] >= current_term[j]
    BY <2>2, <2>3, <2>4, SMTT(20)
  <2> QED
    BY <1>3, <2>1, <2>2, <2>3, <2>5, Zenon
<1>6. ASSUME NEW m \in rv_req, HandleRequestVote(m)
      PROVE  WinInv'
  <2>1. m.to \in Server /\ m.term \in Nat
    BY Zenon DEF LogTypeOK, RequestVote
  <2>2. /\ state' = [state EXCEPT ![m.to] =
                       IF Newer(m.to, m.term) THEN "Follower" ELSE @]
        /\ current_term' = [current_term EXCEPT ![m.to] = Max({@, m.term})]
        /\ elected' = elected
    BY <1>6, Zenon DEF HandleRequestVote, voteVars
  <2>3. current_term[m.to] \in Nat
    BY <1>1, <2>1, Zenon
  <2>4. /\ Max({current_term[m.to], m.term}) >= current_term[m.to]
        /\ \/ Newer(m.to, m.term)
           \/ Max({current_term[m.to], m.term}) = current_term[m.to]
    BY <2>1, <2>3, MaxPair, SMTT(20) DEF Newer
  <2>5. /\ current_term'[m.to] = Max({current_term[m.to], m.term})
        /\ state'[m.to] = IF Newer(m.to, m.term) THEN "Follower" ELSE state[m.to]
    BY <1>1, <2>1, <2>2, Zenon
  <2>6. "Follower" # "Candidate"
    OBVIOUS
  <2>7. \A j \in Server \ {m.to} : state'[j] = state[j] /\ current_term'[j] = current_term[j]
    BY <1>1, <2>1, <2>2, Zenon
  <2>8. \A j \in Server : current_term[j] \in Nat /\ current_term[j] >= current_term[j]
    BY <1>1
  <2>9. \A j \in Server : current_term'[j] >= current_term[j]
    BY <2>4, <2>5, <2>7, <2>8, Zenon
  <2>10. \A j \in Server : state'[j] = "Candidate" =>
           state[j] = "Candidate" /\ current_term'[j] = current_term[j]
    BY <2>4, <2>5, <2>6, <2>7, Zenon
  <2> QED
    BY <1>3, <2>2, <2>9, <2>10, Zenon
<1>7. ASSUME NEW r \in rv_rep, VoteResultGranted(r)
      PROVE  WinInv'
  <2> DEFINE i == r.to
  <2>1. i \in Server /\ current_term' = current_term
    BY <1>7, Zenon DEF LogTypeOK, RequestVoteReply, VoteResultGranted
  <2>2. \/ elected' = elected /\ state' = state
        \/ /\ elected' = elected \cup {<<i, current_term[i]>>}
           /\ state' = [state EXCEPT ![i] = "Leader"]
    BY <1>7, Zenon DEF VoteResultGranted, StartLeader
  <2> HIDE DEF i
  <2>3. \A e \in elected' : e[2] <= current_term[e[1]]
    <3>1. <<i, current_term[i]>>[2] <= current_term[<<i, current_term[i]>>[1]]
      BY <1>1, <2>1
    <3> QED
      BY <2>2, <3>1, Zenon DEF WinInv
  <2>4. ASSUME NEW j \in Server, state'[j] = "Candidate"
        PROVE  <<j, current_term[j]>> \notin elected'
    <3>1. state[j] = "Candidate" /\ (j = i => elected' = elected)
      <4>1. "Leader" # "Candidate"
        OBVIOUS
      <4> QED
        BY <1>1, <2>1, <2>2, <2>4, <4>1, Zenon
    <3>2. <<j, current_term[j]>> \notin elected
      BY <3>1, Zenon DEF WinInv
    <3>3. j # i => <<j, current_term[j]>> # <<i, current_term[i]>>
      OBVIOUS
    <3> QED
      BY <2>2, <3>1, <3>2, <3>3, Zenon
  <2> QED
    BY <2>1, <2>3, <2>4, Zenon DEF WinInv
<1> QED
  BY <1>4, <1>5, <1>6, <1>7, QuietCases, Zenon

LEMMA WinInvariant == LogSpec => []WinInv
<1>1. LogInit => WinInv
  <2> SUFFICES ASSUME LogInit
               PROVE  WinInv
    OBVIOUS
  <2>1. elected = {}
    BY Zenon DEF LogInit
  <2> QED
    BY <2>1, Zenon DEF WinInv
<1> QED
  BY <1>1, WinStep, LogTypeCorrect, ElectionInvariant, PTL DEF LogSpec

-----------------------------------------------------------------------------
(* The theorems.                                                           *)

\* No step without a crash takes the agreement of the logs away.
LEMMA LogInvStep ==
  ASSUME LogTypeOK, LogTypeOK', LeaderInv, ElectionSafety, ElectionSafety', WinInv,
         NEW full, LogInv(full), [LogNext]_logVars, restarts' = restarts
  PROVE  \E f : LogInv(f)'
<1>1. ASSUME LeadersStay, logs' = logs, ae_req' \subseteq ae_req, elected' = elected
      PROVE  \E f : LogInv(f)'
  <2>1. \A i \in Server : logs'[i] \in Sources(full)
    BY <1>1, Zenon DEF Sources
  <2> QED
    BY <1>1, <2>1, LogKept, Zenon
<1>2. ASSUME NEW i \in Server, NEW cmd \in Command, Submit(i, cmd)
      PROVE  \E f : LogInv(f)'
  BY <1>2, SubmitKeeps, Zenon
<1>3. ASSUME NEW r \in rv_rep, VoteResultGranted(r), StartLeader(r.to)
      PROVE  \E f : LogInv(f)'
  BY <1>3, WinnerKeeps, Zenon
<1>4. ASSUME NEW i \in Server, NEW called \in SUBSET Peers(i),
             NEW c \in CommitHint, SendAES(i, called, c)
      PROVE  \E f : LogInv(f)'
  BY <1>4, SendKeeps, Zenon
<1>5. CASE LeadersStay
  <2> USE <1>5
  <2>1. ASSUME NEW i \in Server, StartElection(i)
        PROVE  \E f : LogInv(f)'
    BY <1>1, <2>1, Zenon DEF StartElection, aeVars
  <2>2. ASSUME NEW m \in rv_req, HandleRequestVote(m)
        PROVE  \E f : LogInv(f)'
    BY <1>1, <2>2, Zenon DEF HandleRequestVote, voteVars, aeVars
  <2>3. ASSUME NEW r \in rv_rep, VoteResultNewer(r)
        PROVE  \E f : LogInv(f)'
    BY <1>1, <2>3, Zenon DEF VoteResultNewer, BecomeFollower, voteVars, aeVars
  <2>4. ASSUME NEW r \in rv_rep, VoteResultGranted(r), ~StartLeader(r.to)
        PROVE  \E f : LogInv(f)'
    BY <1>1, <2>4, Zenon DEF VoteResultGranted, aeVars
  <2>5. ASSUME NEW m \in ae_req, AppendStale(m)
        PROVE  \E f : LogInv(f)'
    BY <1>1, <2>5, Zenon DEF AppendStale, AppendReply, voteVars
  <2>6. ASSUME NEW m \in ae_req, AppendConflict(m)
        PROVE  \E f : LogInv(f)'
    BY <1>1, <2>6, Zenon DEF AppendConflict, HearLeader, AppendReply, voteVars
  <2>7. ASSUME NEW m \in ae_req, AppendAccept(m)
        PROVE  \E f : LogInv(f)'
    BY <2>7, AcceptKeeps, Zenon
  <2>8. ASSUME NEW r \in ae_rep,
               \/ AppendResultNewer(r) \/ AppendResultSuccess(r)
               \/ AppendResultConflict(r) \/ AppendResultLost(r)
        PROVE  \E f : LogInv(f)'
    <3>1. AppendResult(r) /\ logs' = logs
      BY <2>8, Zenon DEF AppendResultNewer, BecomeFollower, AppendResultSuccess,
                         AppendResultConflict, AppendResultLost
    <3> QED
      BY <1>1, <3>1, Zenon DEF AppendResult, voteVars
  <2>9. ASSUME NEW i \in Server, NEW stored \in CrashMeta(i), Restart(i, stored)
        PROVE  FALSE
    <3>1. restarts' = restarts + 1 /\ restarts \in Nat
      BY <2>9, Zenon DEF Restart, LogTypeOK
    <3> QED
      BY <3>1, SMTT(20)
  <2>10. CASE UNCHANGED logVars
    BY <1>1, <2>10, Zenon DEF logVars, voteVars, aeVars
  <2> QED
    BY <1>2, <1>3, <1>4, <2>1, <2>2, <2>3, <2>4, <2>5, <2>6, <2>7, <2>8, <2>9,
       <2>10, Zenon DEF LogNext
<1> QED
  BY <1>2, <1>3, <1>5, LeaderCases, Zenon

\* Crashes are counted.
LEMMA RestartsGrow ==
  ASSUME LogTypeOK, [LogNext]_logVars
  PROVE  restarts' = restarts \/ restarts' = restarts + 1
<1>1. ASSUME NEW i \in Server, NEW stored \in CrashMeta(i), Restart(i, stored)
      PROVE  restarts' = restarts + 1
  BY <1>1, Zenon DEF Restart
<1>2. ASSUME NEW r \in ae_rep,
             \/ AppendResultNewer(r) \/ AppendResultSuccess(r)
             \/ AppendResultConflict(r) \/ AppendResultLost(r)
      PROVE  restarts' = restarts
  BY <1>2, Zenon DEF AppendResultNewer, AppendResultSuccess, AppendResultConflict,
                     AppendResultLost, AppendResult, crashVars
<1>3. ASSUME NEW m \in ae_req, AppendStale(m) \/ AppendConflict(m) \/ AppendAccept(m)
      PROVE  restarts' = restarts
  BY <1>3, Zenon DEF AppendStale, AppendConflict, AppendAccept, HearLeader, crashVars
<1>4. ASSUME NEW i \in Server, NEW called \in SUBSET Peers(i),
             NEW c \in CommitHint, SendAES(i, called, c)
      PROVE  restarts' = restarts
  BY <1>4, Zenon DEF SendAES, crashVars
<1>5. ASSUME NEW i \in Server, NEW cmd \in Command, Submit(i, cmd)
      PROVE  restarts' = restarts
  BY <1>5, Zenon DEF Submit, crashVars
<1>6. ASSUME NEW r \in rv_rep, VoteResultNewer(r) \/ VoteResultGranted(r)
      PROVE  restarts' = restarts
  BY <1>6, Zenon DEF VoteResultNewer, VoteResultGranted, crashVars
<1>7. ASSUME NEW m \in rv_req, HandleRequestVote(m)
      PROVE  restarts' = restarts
  BY <1>7, Zenon DEF HandleRequestVote, crashVars
<1>8. ASSUME NEW i \in Server, StartElection(i)
      PROVE  restarts' = restarts
  BY <1>8, Zenon DEF StartElection, crashVars
<1>9. CASE UNCHANGED logVars
  BY <1>9, Zenon DEF logVars, crashVars
<1> QED
  BY <1>1, <1>2, <1>3, <1>4, <1>5, <1>6, <1>7, <1>8, <1>9, Zenon DEF LogNext

LEMMA HistoryStep ==
  ASSUME LogTypeOK, LogTypeOK', LeaderInv, ElectionSafety, ElectionSafety', WinInv,
         HistoryInv, [LogNext]_logVars
  PROVE  HistoryInv'
<1> SUFFICES ASSUME restarts' = 0
             PROVE  \E f : LogInv(f)'
  BY Zenon DEF HistoryInv
<1>1. restarts' = restarts
  <2>1. restarts \in Nat
    BY Zenon DEF LogTypeOK
  <2>2. restarts' = restarts \/ restarts' = restarts + 1
    BY RestartsGrow, Zenon
  <2> QED
    BY <2>1, <2>2, SMTT(20)
<1>2. PICK full : LogInv(full)
  BY <1>1, Zenon DEF HistoryInv
<1> QED
  BY <1>1, <1>2, LogInvStep, Zenon

LEMMA HistoryInit == LogInit => HistoryInv
<1> SUFFICES ASSUME LogInit
             PROVE  \E full : LogInv(full)
  BY Zenon DEF HistoryInv
<1>1. /\ ae_req = {} /\ ae_rep = {}
      /\ \A i \in Server : logs[i] = <<>> /\ state[i] = "Follower"
  BY Zenon DEF LogInit
<1>3. "Follower" # "Leader"
  OBVIOUS
<1>4. PICK full : full = <<>>
  BY Zenon
<1>5. \A a \in Sources(full) : Len(a) = 0 /\ \A k : k \notin 1..Len(a)
  <2>1. \A a \in Sources(full) : a = <<>>
    BY <1>1, Zenon DEF Sources
  <2>2. Len(<<>>) = 0 /\ \A k : k \notin 1..Len(<<>>)
    OBVIOUS
  <2> QED
    BY <2>1, <2>2, Zenon
<1>6. Matched(full) /\ Won(full)
  BY <1>5, Zenon DEF Matched, Matching, Won
<1>7. LeadersHold(full)
  BY <1>1, <1>3, Zenon DEF LeadersHold
<1>8. Carried(full) /\ FromLeader(full)
  BY <1>1, Zenon DEF Carried, FromLeader
<1> QED
  BY <1>6, <1>7, <1>8, Zenon DEF LogInv

LEMMA HistoryInvariant == LogSpec => []HistoryInv
BY HistoryInit, HistoryStep, LogTypeCorrect, LeaderInvariant, ElectionSafe,
   WinInvariant, PTL DEF LogSpec

\* As long as no node has crashed, two logs that agree on the term of an
\* index agree on everything up to it, whatever is lost, delayed or reordered
\* and however often the leader changes: a follower checks the entry before
\* the new ones (prev_log_index, prev_log_term), replaces its log from the
\* first entry that differs, and the entries of a term come from one leader.
THEOREM LogsMatch == LogSpec => [](restarts = 0 => LogMatching)
<1>1. LogTypeOK /\ HistoryInv => (restarts = 0 => LogMatching)
  <2> SUFFICES ASSUME LogTypeOK, HistoryInv, restarts = 0,
                      NEW i \in Server, NEW j \in Server,
                      NEW k \in 1..Min({Len(logs[i]), Len(logs[j])}),
                      logs[i][k].term = logs[j][k].term
               PROVE  \A h \in 1..k : logs[i][h] = logs[j][h]
    BY Zenon DEF LogMatching
  <2>1. PICK full : LogInv(full)
    BY Zenon DEF HistoryInv
  <2>2. logs[i] \in Sources(full) /\ logs[j] \in Sources(full)
    BY Zenon DEF Sources
  <2>3. Matching(logs[i], logs[j])
    BY <2>1, <2>2, Zenon DEF LogInv, Matched
  <2>4. Len(logs[i]) \in Nat /\ Len(logs[j]) \in Nat
    <3>1. logs[i] \in Seq(LogEntry) /\ logs[j] \in Seq(LogEntry)
      BY Zenon DEF LogTypeOK
    <3> QED
      BY <3>1
  <2>5. k \in 1..Len(logs[i]) /\ k \in 1..Len(logs[j]) /\ k <= k
    <3>1. Min({Len(logs[i]), Len(logs[j])}) =
            IF Len(logs[i]) <= Len(logs[j]) THEN Len(logs[i]) ELSE Len(logs[j])
      BY <2>4, MinPair, SMTT(20)
    <3> QED
      BY <2>4, <3>1, SMTT(20)
  <2> QED
    BY <2>3, <2>5, Zenon DEF Matching
<1> QED
  BY <1>1, LogTypeCorrect, HistoryInvariant, PTL

=============================================================================
