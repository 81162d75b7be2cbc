-------------------------- MODULE ConsensusProofs ---------------------------
(***************************************************************************)
(* Theorems about the whole actor, for every set of servers and every      *)
(* bound: the state of RaftLog and of the commit pipeline keeps its type,  *)
(* the actor takes only steps of RaftLog on terms, votes, logs and calls   *)
(* (so that the election theorems hold of it), and what it sends to its    *)
(* subscribers has no gap and no repetition.                               *)
(*                                                                         *)
(* Neither Consensus nor the properties mention CommitHint, the values of  *)
(* leader_commit that RaftLog allows; the theorems about the actor take it *)
(* to be every index (AnyHint).                                            *)
(***************************************************************************)
EXTENDS Consensus, TLAPS, WellFoundedInduction, SequenceTheorems

AnyHint == CommitHint = Nat \cup {None}

-----------------------------------------------------------------------------
(* Minimum and maximum.                                                    *)

\* The larger of two integers: Max of a pair.
LEMMA MaxPair ==
  ASSUME NEW a \in Int, NEW b \in Int
  PROVE  Max({a, b}) = IF a >= b THEN a ELSE b
<1>1. \E x \in {a, b} : \A y \in {a, b} : x >= y
  OBVIOUS
<1>2. /\ Max({a, b}) \in {a, b}
      /\ \A y \in {a, b} : Max({a, b}) >= y
  BY <1>1 DEF Max
<1> QED
  BY <1>2

\* The smaller of two integers: Min of a pair.
LEMMA MinPair ==
  ASSUME NEW a \in Int, NEW b \in Int
  PROVE  Min({a, b}) = IF a <= b THEN a ELSE b
<1>1. \E x \in {a, b} : \A y \in {a, b} : x <= y
  OBVIOUS
<1>2. /\ Min({a, b}) \in {a, b}
      /\ \A y \in {a, b} : Min({a, b}) <= y
  BY <1>1 DEF Min
<1> QED
  BY <1>2

\* A set of naturals with an element has a least one: Min picks it.
LEMMA MinNat ==
  ASSUME NEW S \in SUBSET Nat, S # {}
  PROVE  /\ Min(S) \in S
         /\ \A y \in S : Min(S) <= y
<1> DEFINE R == OpToRel(<, Nat)
<1>1. R = {ss \in Nat \X Nat : ss[1] < ss[2]}
  BY DEF OpToRel
<1>2. IsWellFoundedOn(R, Nat)
  BY NatLessThanWellFounded, Zenon
<1> HIDE DEF R
<1>3. PICK x \in S : \A y \in S : ~(<<y, x>> \in R)
  BY <1>2, WFMin, Zenon
<1>4. \A y \in S : x <= y
  <2> TAKE y \in S
  <2>1. x \in Nat /\ y \in Nat
    OBVIOUS
  <2>2. y < x => <<y, x>> \in R
    BY <1>1, <2>1
  <2> QED
    BY <1>3, <2>1, <2>2
<1> QED
  BY <1>4, Zenon DEF Min

\* A bounded set of naturals with an element has a greatest one: Max picks it.
LEMMA MaxNat ==
  ASSUME NEW S \in SUBSET Nat, S # {}, NEW n \in Nat, \A x \in S : x <= n
  PROVE  /\ Max(S) \in S
         /\ \A y \in S : Max(S) >= y
<1> DEFINE T == {k \in 0..n : n - k \in S}
<1>1. T \in SUBSET Nat /\ T # {}
  <2>1. PICK x \in S : TRUE
    BY Zenon
  <2>2. n - x \in 0..n /\ n - (n - x) = x
    BY <2>1
  <2> QED
    BY <2>1, <2>2
<1>2. /\ Min(T) \in T
      /\ \A y \in T : Min(T) <= y
  BY <1>1, MinNat
<1>3. \A y \in S : n - Min(T) >= y
  <2> TAKE y \in S
  <2>1. n - y \in 0..n /\ n - (n - y) = y
    OBVIOUS
  <2>2. n - y \in T
    BY <2>1
  <2> QED
    BY <1>2, <2>2
<1>4. \E x \in S : \A y \in S : x >= y
  BY <1>2, <1>3
<1> QED
  BY <1>4, Zenon DEF Max

-----------------------------------------------------------------------------
(* The operators on logs.                                                  *)

\* last_log: the index and the term of the last entry are naturals.
LEMMA LastType ==
  ASSUME NEW l \in Seq(LogEntry)
  PROVE  LastIndex(l) \in Nat /\ LastTerm(l) \in Nat
<1>1. CASE l = <<>>
  BY <1>1 DEF LastIndex, LastTerm
<1>2. CASE l # <<>>
  <2>1. Len(l) \in Nat /\ Len(l) > 0
    BY <1>2, EmptySeq
  <2>2. l[Len(l)] \in LogEntry
    BY <2>1, ElementOfSeq
  <2> QED
    BY <1>2, <2>1, <2>2 DEF LastIndex, LastTerm, LogEntry
<1> QED
  BY <1>1, <1>2

\* The conflict_index of a follower is an index of its log up to idx.
LEMMA FirstOfTermType ==
  ASSUME NEW l, NEW idx \in Nat
  PROVE  FirstOfTerm(l, idx) \in 0..idx
<1> DEFINE S == {f \in 0..idx : \A k \in f..idx : l[k + 1].term = l[idx + 1].term}
<1>1. idx \in S
  <2>1. \A k \in idx..idx : k = idx
    OBVIOUS
  <2> QED
    BY <2>1
<1>2. S \in SUBSET Nat /\ S # {}
  BY <1>1
<1> HIDE DEF S
<1>3. Min(S) \in S
  BY <1>2, MinNat
<1> QED
  BY <1>3 DEF FirstOfTerm, S

\* The next_index of a leader after a conflict is a natural.
LEMMA NextAfterConflictType ==
  ASSUME NEW l \in Seq(LogEntry), NEW r \in AppendEntriesReply
  PROVE  NextAfterConflict(l, r) \in Nat
<1> DEFINE same == {k \in 0..(Len(l) - 1) : l[k + 1].term = r.conflict_term}
<1>1. Len(l) \in Nat
  OBVIOUS
<1>2. ASSUME same # {}
      PROVE  Max(same) + 1 \in Nat
  <2>1. same \in SUBSET Nat /\ \A x \in same : x <= Len(l)
    BY <1>1
  <2> HIDE DEF same
  <2>2. Max(same) \in same
    BY <1>1, <1>2, <2>1, MaxNat, Zenon
  <2>3. Max(same) \in Nat
    BY <2>1, <2>2, Zenon
  <2> QED
    BY <2>3
<1>3. r.conflict_index \in Int
  BY DEF AppendEntriesReply, OptIndex, None
<1>4. Max({r.conflict_index, 0}) \in Nat
  BY <1>3, MaxPair
<1> QED
  BY <1>2, <1>4 DEF NextAfterConflict

\* A splice that starts within the log gives a log.
LEMMA SpliceType ==
  ASSUME NEW l \in Seq(LogEntry), NEW es \in Seq(LogEntry),
         NEW at \in Nat, at <= Len(l)
  PROVE  Splice(l, at, es) \in Seq(LogEntry)
<1> DEFINE spliced == [k \in 1..(at + Len(es)) |->
             IF k <= at \/ k - at \in Held(l, at, es) THEN l[k] ELSE es[k - at]]
<1>1. Len(l) \in Nat /\ Len(es) \in Nat
  OBVIOUS
<1>2. \A k \in 1..(at + Len(es)) :
        (IF k <= at \/ k - at \in Held(l, at, es) THEN l[k] ELSE es[k - at]) \in LogEntry
  <2> TAKE k \in 1..(at + Len(es))
  <2>1. CASE k <= at
    <3>1. k \in 1..Len(l)
      BY <1>1, <2>1
    <3> QED
      BY <2>1, <3>1, ElementOfSeq
  <2>2. CASE k > at /\ k - at \in Held(l, at, es)
    <3>1. at + (k - at) <= Len(l)
      BY <2>2 DEF Held
    <3>2. k \in 1..Len(l)
      BY <1>1, <3>1
    <3> QED
      BY <2>2, <3>2, ElementOfSeq
  <2>3. CASE k > at /\ k - at \notin Held(l, at, es)
    <3>1. k - at \in 1..Len(es)
      BY <1>1, <2>3
    <3>2. es[k - at] \in LogEntry
      BY <3>1, ElementOfSeq
    <3> QED
      BY <2>3, <3>2
  <2> QED
    BY <1>1, <2>1, <2>2, <2>3
<1>3. spliced \in Seq(LogEntry)
  <2>1. at + Len(es) \in Nat
    BY <1>1
  <2>2. spliced \in [1..(at + Len(es)) -> LogEntry]
    BY <1>2, Zenon
  <2> HIDE DEF spliced
  <2> QED
    BY <2>1, <2>2, SeqDef, Zenon
<1> QED
  BY <1>3, Zenon DEF Splice

-----------------------------------------------------------------------------
(* The type invariant.                                                     *)

\* persist_state leaves well-typed files and a well-typed last_persisted_log.
LEMMA PersistType ==
  ASSUME LogTypeOK, NEW i \in Server, PersistState(i),
         current_term' \in [Server -> Nat],
         voted_for' \in [Server -> Server \cup {Nil}],
         logs' \in [Server -> Seq(LogEntry)]
  PROVE  /\ meta' \in [Server -> Metadata]
         /\ log_disk' \in [Server -> SUBSET LogEntry]
         /\ last_persisted_log' \in [Server -> Nat]
<1> DEFINE last == Len(logs'[i]) - 1
           start == IF last_persisted_log[i] = 0 THEN 0
                    ELSE last_persisted_log[i] + 1
<1>1. start \in Nat /\ last \in Int /\ last + 1 = Len(logs'[i])
  BY DEF LogTypeOK
<1>2. meta' \in [Server -> Metadata]
  BY Zenon DEF PersistState, StoreMeta, LogTypeOK, Metadata
<1>3. \A k \in start..last : logs'[i][k + 1] \in LogEntry
  <2> TAKE k \in start..last
  <2>1. k + 1 \in 1..Len(logs'[i])
    BY <1>1
  <2> QED
    BY <2>1, ElementOfSeq
<1>4. /\ log_disk' = [log_disk EXCEPT ![i] =
                        @ \cup {logs'[i][k + 1] : k \in start..last}]
      /\ last_persisted_log' = [last_persisted_log EXCEPT ![i] =
                                  IF start <= last THEN last ELSE @]
  BY DEF PersistState
<1> HIDE DEF last, start
<1>5. log_disk' \in [Server -> SUBSET LogEntry]
  <2>1. {logs'[i][k + 1] : k \in start..last} \subseteq LogEntry
    BY <1>3
  <2>2. log_disk \in [Server -> SUBSET LogEntry]
    BY DEF LogTypeOK
  <2> QED
    BY <1>4, <2>1, <2>2, Zenon
<1>6. last_persisted_log' \in [Server -> Nat]
  BY <1>1, <1>4, SMTT(20) DEF LogTypeOK
<1> QED
  BY <1>2, <1>5, <1>6

\* become_follower keeps the types.
LEMMA BecomeFollowerType ==
  ASSUME LogTypeOK, NEW i \in Server, NEW term \in Nat, BecomeFollower(i, term)
  PROVE  /\ state' \in [Server -> State]
         /\ current_term' \in [Server -> Nat]
         /\ voted_for' \in [Server -> Server \cup {Nil}]
         /\ leader_id' \in [Server -> Server \cup {Nil}]
         /\ logs' \in [Server -> Seq(LogEntry)]
         /\ meta' \in [Server -> Metadata]
         /\ log_disk' \in [Server -> SUBSET LogEntry]
         /\ last_persisted_log' \in [Server -> Nat]
<1>1. /\ state' \in [Server -> State]
      /\ current_term' \in [Server -> Nat]
      /\ voted_for' \in [Server -> Server \cup {Nil}]
      /\ leader_id' \in [Server -> Server \cup {Nil}]
      /\ logs' \in [Server -> Seq(LogEntry)]
  BY DEF BecomeFollower, LogTypeOK, State
<1>2. PersistState(i)
  BY DEF BecomeFollower
<1> QED
  BY <1>1, <1>2, PersistType, Zenon

\* A reply to append_entries is well typed, and the request is taken away.
LEMMA AppendReplyType ==
  ASSUME LogTypeOK, NEW m \in ae_req, NEW success \in BOOLEAN,
         NEW ci \in OptIndex, NEW ct \in OptIndex,
         current_term' \in [Server -> Nat],
         AppendReply(m, success, ci, ct)
  PROVE  /\ ae_req' \in SUBSET AppendEntries
         /\ ae_rep' \in SUBSET AppendEntriesReply
<1>1. m \in AppendEntries
  BY DEF LogTypeOK
<1>2. m.prev_log_index + 1 \in Nat
  BY <1>1 DEF AppendEntries, OptIndex, None
<1>3. [from |-> m.to, to |-> m.from, req |-> m.term,
       ni |-> m.prev_log_index + 1, term |-> current_term'[m.to],
       success |-> success, conflict_index |-> ci,
       conflict_term |-> ct] \in AppendEntriesReply
  BY <1>1, <1>2 DEF AppendEntries, AppendEntriesReply
<1> QED
  BY <1>3, Zenon DEF AppendReply, LogTypeOK

\* What append_entries does before it looks at the log keeps the types.
LEMMA HearLeaderType ==
  ASSUME LogTypeOK, NEW m \in ae_req, HearLeader(m)
  PROVE  /\ state' \in [Server -> State]
         /\ current_term' \in [Server -> Nat]
         /\ voted_for' \in [Server -> Server \cup {Nil}]
         /\ leader_id' \in [Server -> Server \cup {Nil}]
<1>1. m \in AppendEntries
  BY DEF LogTypeOK
<1>2. m.to \in Server /\ m.from \in Server /\ m.term \in Nat
  BY <1>1 DEF AppendEntries
<1> QED
  BY <1>2, Zenon DEF HearLeader, LogTypeOK, State, VoteAfter

\* Every handler and every restart keeps the types.
LEMMA LogTypeStep == LogTypeOK /\ [LogNext]_logVars => LogTypeOK'
<1> SUFFICES ASSUME LogTypeOK, [LogNext]_logVars
             PROVE  LogTypeOK'
  OBVIOUS
<1>1. ASSUME NEW i \in Server, StartElection(i)
      PROVE  LogTypeOK'
  <2>1. LastIndex(logs[i]) \in Nat /\ LastTerm(logs[i]) \in Nat
    BY LastType DEF LogTypeOK
  <2>2. rv_req' \in SUBSET RequestVote
    <3>1. rv_req \in SUBSET RequestVote /\ current_term[i] + 1 \in Nat
      BY SMTT(20) DEF LogTypeOK
    <3> QED
      BY <1>1, <2>1, <3>1, SMTT(20) DEF StartElection, RequestVote, Peers
  <2>3. /\ current_term' \in [Server -> Nat]
        /\ voted_for' \in [Server -> Server \cup {Nil}]
        /\ logs' \in [Server -> Seq(LogEntry)]
        /\ state' \in [Server -> State]
    <3>1. /\ current_term \in [Server -> Nat]
          /\ voted_for \in [Server -> Server \cup {Nil}]
          /\ logs \in [Server -> Seq(LogEntry)]
          /\ state \in [Server -> State]
      BY Zenon DEF LogTypeOK
    <3>2. /\ state' = [state EXCEPT ![i] = "Candidate"]
          /\ current_term' = [current_term EXCEPT ![i] = @ + 1]
          /\ voted_for' = [voted_for EXCEPT ![i] = i]
          /\ logs' = logs
      BY <1>1, Zenon DEF StartElection
    <3>3. current_term' \in [Server -> Nat]
      BY <3>1, <3>2
    <3>4. "Candidate" \in State
      BY DEF State
    <3> QED
      BY <3>1, <3>2, <3>3, <3>4, Zenon
  <2>4. /\ meta' \in [Server -> Metadata]
        /\ log_disk' \in [Server -> SUBSET LogEntry]
        /\ last_persisted_log' \in [Server -> Nat]
    BY <1>1, <2>3, PersistType, Zenon DEF StartElection
  <2> QED
    BY <1>1, <2>2, <2>3, <2>4, Zenon DEF StartElection, LogTypeOK, aeVars, crashVars
<1>2. ASSUME NEW m \in rv_req, HandleRequestVote(m)
      PROVE  LogTypeOK'
  <2>1. m \in RequestVote
    BY DEF LogTypeOK
  <2>2. m.to \in Server /\ m.from \in Server /\ m.term \in Nat
    BY <2>1 DEF RequestVote
  <2>3. Max({current_term[m.to], m.term}) \in Nat
    <3>1. current_term[m.to] \in Nat
      BY <2>2 DEF LogTypeOK
    <3> QED
      BY <2>2, <3>1, MaxPair
  <2>4. /\ state' \in [Server -> State]
        /\ current_term' \in [Server -> Nat]
        /\ voted_for' \in [Server -> Server \cup {Nil}]
        /\ leader_id' \in [Server -> Server \cup {Nil}]
        /\ logs' \in [Server -> Seq(LogEntry)]
    BY <1>2, <2>2, <2>3, Zenon
    DEF HandleRequestVote, LogTypeOK, State, VoteAfter, LeaderAfter
  <2>5. Grant(m.to, m) \in BOOLEAN
    BY DEF Grant
  <2>6. rv_rep' \in SUBSET RequestVoteReply
    <3>1. current_term'[m.to] \in Nat
      BY <2>2, <2>4
    <3>2. [from |-> m.to, to |-> m.from, req |-> m.term,
           term |-> current_term'[m.to], voted |-> Grant(m.to, m)] \in RequestVoteReply
      BY <2>2, <2>5, <3>1, SMTT(20) DEF RequestVoteReply
    <3> QED
      BY <1>2, <3>2, Zenon DEF HandleRequestVote, LogTypeOK
  <2>7. /\ meta' \in [Server -> Metadata]
        /\ log_disk' \in [Server -> SUBSET LogEntry]
        /\ last_persisted_log' \in [Server -> Nat]
    <3>1. CASE PersistState(m.to)
      BY <2>2, <2>4, <3>1, PersistType, Zenon
    <3>2. CASE UNCHANGED diskVars
      BY <3>2 DEF diskVars, LogTypeOK
    <3> QED
      BY <1>2, <3>1, <3>2 DEF HandleRequestVote
  <2> QED
    BY <1>2, <2>4, <2>6, <2>7, Zenon
    DEF HandleRequestVote, LogTypeOK, voteVars, aeVars, crashVars
<1>3. ASSUME NEW r \in rv_rep, VoteResultNewer(r)
      PROVE  LogTypeOK'
  <2>1. r.to \in Server /\ r.term \in Nat
    BY Zenon DEF LogTypeOK, RequestVoteReply
  <2>2. BecomeFollower(r.to, r.term)
    BY <1>3 DEF VoteResultNewer
  <2> QED
    BY <1>3, <2>1, <2>2, BecomeFollowerType, Zenon
    DEF VoteResultNewer, LogTypeOK, voteVars, rvVars, aeVars, crashVars
<1>4. ASSUME NEW r \in rv_rep, VoteResultGranted(r)
      PROVE  LogTypeOK'
  <2>1. r.to \in Server /\ r.from \in Server
    BY Zenon DEF LogTypeOK, RequestVoteReply
  <2>2. Len(logs[r.to]) \in Nat
    BY <2>1 DEF LogTypeOK
  <2>3. vote_count' \in [Server -> Nat]
    <3>1. vote_count \in [Server -> Nat]
      BY Zenon DEF LogTypeOK
    <3>2. vote_count' = [vote_count EXCEPT ![r.to] = @ + 1]
      BY <1>4, Zenon DEF VoteResultGranted
    <3> QED
      BY <2>1, <3>1, <3>2
  <2>4. /\ state' \in [Server -> State]
        /\ leader_id' \in [Server -> Server \cup {Nil}]
        /\ elected' \in SUBSET (Server \X Nat)
        /\ counted' \in [Server -> SUBSET Server]
        /\ next_index' \in [Server -> [Server -> Nat]]
    <3>1. CASE StartLeader(r.to)
      <4>1. state' \in [Server -> State]
        BY <3>1, Zenon DEF StartLeader, LogTypeOK, State
      <4>2. leader_id' \in [Server -> Server \cup {Nil}]
        BY <2>1, <3>1, SMTT(20) DEF StartLeader, LogTypeOK
      <4>3. elected' \in SUBSET (Server \X Nat)
        <5>1. elected \in SUBSET (Server \X Nat) /\ current_term[r.to] \in Nat
          BY <2>1, Zenon DEF LogTypeOK
        <5> QED
          BY <2>1, <3>1, <5>1, SMTT(20) DEF StartLeader
      <4>4. counted' \in [Server -> SUBSET Server]
        BY <3>1, Zenon DEF StartLeader, LogTypeOK
      <4>5. next_index' \in [Server -> [Server -> Nat]]
        BY <2>2, <3>1, Zenon DEF StartLeader, LogTypeOK
      <4> QED
        BY <4>1, <4>2, <4>3, <4>4, <4>5
    <3>2. CASE /\ counted' = [counted EXCEPT ![r.to] = @ \cup {r.from}]
               /\ UNCHANGED <<state, leader_id, elected, next_index>>
      <4>1. counted' \in [Server -> SUBSET Server]
        BY <2>1, <3>2, Zenon DEF LogTypeOK
      <4> QED
        BY <3>2, <4>1, Zenon DEF LogTypeOK
    <3> QED
      BY <1>4, <3>1, <3>2, SMTT(20) DEF VoteResultGranted
  <2> QED
    BY <1>4, <2>3, <2>4, Zenon
    DEF VoteResultGranted, LogTypeOK, diskVars, rvVars, aeVars, crashVars
<1>5. ASSUME NEW i \in Server, NEW cmd \in Command, Submit(i, cmd)
      PROVE  LogTypeOK'
  <2>1. [term |-> current_term[i], command |-> cmd] \in LogEntry
    BY DEF LogTypeOK, LogEntry
  <2>2. logs' \in [Server -> Seq(LogEntry)]
    BY <1>5, <2>1, AppendProperties, Zenon DEF Submit, LogTypeOK
  <2>3. /\ current_term' \in [Server -> Nat]
        /\ voted_for' \in [Server -> Server \cup {Nil}]
    BY <1>5 DEF Submit, LogTypeOK, electionVars
  <2>4. PersistState(i)
    BY <1>5 DEF Submit
  <2> QED
    BY <1>5, <2>2, <2>3, <2>4, PersistType, Zenon
    DEF Submit, LogTypeOK, electionVars, voteVars, rvVars, aeVars, crashVars
<1>6. ASSUME NEW i \in Server, NEW called \in SUBSET Peers(i), NEW c \in CommitHint,
             SendAES(i, called, c)
      PROVE  LogTypeOK'
  <2> DEFINE ni(j) == Min({next_index[i][j], Len(logs[i])})
  <2>1. \A j \in Server : ni(j) \in 0..Len(logs[i])
    <3> TAKE j \in Server
    <3>1. next_index[i][j] \in Nat
      BY Zenon DEF LogTypeOK
    <3>2. logs[i] \in Seq(LogEntry)
      BY DEF LogTypeOK
    <3>3. Len(logs[i]) \in Nat
      BY <3>2, SMTT(20)
    <3> QED
      BY <3>1, <3>3, MinPair
  <2>2. next_index' = [next_index EXCEPT ![i] =
                         [j \in Server |-> IF j = i THEN @[j] ELSE ni(j)]]
    BY <1>6, SMTT(20) DEF SendAES
  <2>3. ae_req' = ae_req \cup
           {[from |-> i, to |-> j, term |-> current_term[i],
             prev_log_index |-> ni(j) - 1,
             prev_log_term |-> IF ni(j) = 0 THEN None ELSE logs[i][ni(j)].term,
             entries |-> SubSeq(logs[i], ni(j) + 1, Len(logs[i])),
             leader_commit |-> c] : j \in called}
    BY <1>6 DEF SendAES
  <2>4. logs[i] \in Seq(LogEntry) /\ Len(logs[i]) \in Nat
    BY DEF LogTypeOK
  <2> HIDE DEF ni
  <2>5. next_index' \in [Server -> [Server -> Nat]]
    BY <2>1, <2>2, <2>4, SMTT(20) DEF LogTypeOK
  <2>6. ASSUME NEW j \in called
        PROVE  [from |-> i, to |-> j, term |-> current_term[i],
                prev_log_index |-> ni(j) - 1,
                prev_log_term |-> IF ni(j) = 0 THEN None ELSE logs[i][ni(j)].term,
                entries |-> SubSeq(logs[i], ni(j) + 1, Len(logs[i])),
                leader_commit |-> c] \in AppendEntries
    <3>1. j \in Server /\ ni(j) \in 0..Len(logs[i])
      BY <2>1, <2>6 DEF Peers
    <3>2. ni(j) - 1 \in OptIndex
      BY <2>4, <3>1 DEF OptIndex, None
    <3>3. (IF ni(j) = 0 THEN None ELSE logs[i][ni(j)].term) \in OptIndex
      <4>1. CASE ni(j) = 0
        BY <4>1 DEF OptIndex
      <4>2. CASE ni(j) # 0
        <5>1. ni(j) \in 1..Len(logs[i])
          BY <2>4, <3>1, <4>2
        <5>2. logs[i][ni(j)] \in LogEntry
          BY <2>4, <5>1, ElementOfSeq
        <5> QED
          BY <4>2, <5>2 DEF LogEntry, OptIndex
      <4> QED
        BY <4>1, <4>2
    <3>4. SubSeq(logs[i], ni(j) + 1, Len(logs[i])) \in Seq(LogEntry)
      <4>1. \A k \in (ni(j) + 1)..Len(logs[i]) : logs[i][k] \in LogEntry
        BY <2>4, <3>1, ElementOfSeq
      <4> QED
        BY <2>4, <3>1, <4>1, SubSeqProperties
    <3>5. c \in OptIndex
      BY HintAssumption, SMTT(20) DEF OptIndex, None
    <3> QED
      BY <3>1, <3>2, <3>3, <3>4, <3>5, SMTT(20) DEF AppendEntries, LogTypeOK
  <2>7. ae_req' \in SUBSET AppendEntries
    BY <2>3, <2>6, Zenon DEF LogTypeOK
  <2> QED
    BY <1>6, <2>5, <2>7, Zenon
    DEF SendAES, LogTypeOK, electionVars, voteVars, diskVars, rvVars, crashVars
<1>7. ASSUME NEW m \in ae_req, AppendStale(m)
      PROVE  LogTypeOK'
  <2>1. current_term' \in [Server -> Nat]
    BY <1>7 DEF AppendStale, LogTypeOK, electionVars
  <2>2. None \in OptIndex /\ FALSE \in BOOLEAN
    BY DEF OptIndex
  <2>3. AppendReply(m, FALSE, None, None)
    BY <1>7, Zenon DEF AppendStale
  <2>4. /\ ae_req' \in SUBSET AppendEntries
        /\ ae_rep' \in SUBSET AppendEntriesReply
    BY <2>1, <2>2, <2>3, AppendReplyType, Zenon
  <2> QED
    BY <1>7, <2>4
    DEF AppendStale, LogTypeOK, electionVars, voteVars, diskVars, rvVars, crashVars
<1>8. ASSUME NEW m \in ae_req, AppendConflict(m)
      PROVE  LogTypeOK'
  <2> DEFINE i == m.to
             idx == m.prev_log_index
             short == idx >= Len(logs[i])
             ci == IF short THEN Len(logs[i]) ELSE FirstOfTerm(logs[i], idx)
             ct == IF short THEN None ELSE logs[i][idx + 1].term
  <2>1. m \in AppendEntries /\ i \in Server
    BY Zenon DEF LogTypeOK, AppendEntries
  <2>2. HearLeader(m) /\ ~PrevOk(m, logs[i])
    BY <1>8, Zenon DEF AppendConflict
  <2>3. /\ state' \in [Server -> State]
        /\ current_term' \in [Server -> Nat]
        /\ voted_for' \in [Server -> Server \cup {Nil}]
        /\ leader_id' \in [Server -> Server \cup {Nil}]
    BY <2>2, HearLeaderType
  <2>4. logs' \in [Server -> Seq(LogEntry)]
    BY <1>8 DEF AppendConflict, LogTypeOK
  <2>5. idx \in Nat
    BY <2>1, <2>2 DEF PrevOk, AppendEntries, OptIndex
  <2>6. logs[i] \in Seq(LogEntry) /\ Len(logs[i]) \in Nat
    BY <2>1 DEF LogTypeOK
  <2>7. ci \in OptIndex
    BY <2>5, <2>6, FirstOfTermType, SMTT(20) DEF OptIndex
  <2>8. ct \in OptIndex
    <3>1. CASE short
      BY <3>1 DEF OptIndex
    <3>2. CASE ~short
      <4>1. idx + 1 \in 1..Len(logs[i])
        BY <2>5, <2>6, <3>2
      <4>2. logs[i][idx + 1] \in LogEntry
        BY <2>6, <4>1, ElementOfSeq
      <4> QED
        BY <3>2, <4>2 DEF LogEntry, OptIndex
    <3> QED
      BY <3>1, <3>2
  <2>9. AppendReply(m, FALSE, ci, ct)
    BY <1>8, Zenon DEF AppendConflict
  <2>10. /\ ae_req' \in SUBSET AppendEntries
         /\ ae_rep' \in SUBSET AppendEntriesReply
    <3> HIDE DEF ci, ct
    <3> QED
      BY <2>3, <2>7, <2>8, <2>9, AppendReplyType, Zenon
  <2>11. /\ meta' \in [Server -> Metadata]
         /\ log_disk' \in [Server -> SUBSET LogEntry]
         /\ last_persisted_log' \in [Server -> Nat]
    <3>1. CASE PersistState(i)
      BY <2>1, <2>3, <2>4, <3>1, PersistType, Zenon
    <3>2. CASE UNCHANGED diskVars
      BY <3>2 DEF diskVars, LogTypeOK
    <3> QED
      BY <1>8, <3>1, <3>2 DEF AppendConflict
  <2> QED
    BY <2>2, <2>3, <2>4, <2>10, <2>11, Zenon
    DEF HearLeader, LogTypeOK, voteVars, rvVars, crashVars
<1>9. ASSUME NEW m \in ae_req, AppendAccept(m)
      PROVE  LogTypeOK'
  <2> DEFINE i == m.to
             at == m.prev_log_index + 1
  <2>1. m \in AppendEntries /\ i \in Server /\ m.entries \in Seq(LogEntry)
    BY SMTT(20) DEF LogTypeOK, AppendEntries
  <2>2. HearLeader(m) /\ PrevOk(m, logs[i])
    BY <1>9, SMTT(20) DEF AppendAccept
  <2>3. /\ state' \in [Server -> State]
        /\ current_term' \in [Server -> Nat]
        /\ voted_for' \in [Server -> Server \cup {Nil}]
        /\ leader_id' \in [Server -> Server \cup {Nil}]
    BY <2>2, HearLeaderType
  <2>4. logs[i] \in Seq(LogEntry) /\ Len(logs[i]) \in Nat
    BY <2>1 DEF LogTypeOK
  <2>5. at \in Nat /\ at <= Len(logs[i])
    BY <2>1, <2>2, <2>4 DEF PrevOk, AppendEntries, OptIndex, None
  <2>6. Splice(logs[i], at, m.entries) \in Seq(LogEntry)
    <3> HIDE DEF at
    <3> QED
      BY <2>1, <2>4, <2>5, SpliceType, Zenon
  <2>7. logs' \in [Server -> Seq(LogEntry)]
    BY <1>9, <2>1, <2>6 DEF AppendAccept, LogTypeOK
  <2>8. PersistState(i) /\ AppendReply(m, TRUE, None, None)
    BY <1>9, Zenon DEF AppendAccept
  <2>9. /\ meta' \in [Server -> Metadata]
        /\ log_disk' \in [Server -> SUBSET LogEntry]
        /\ last_persisted_log' \in [Server -> Nat]
    BY <2>1, <2>3, <2>7, <2>8, PersistType, Zenon
  <2>10. None \in OptIndex /\ TRUE \in BOOLEAN
    BY DEF OptIndex
  <2>11. /\ ae_req' \in SUBSET AppendEntries
         /\ ae_rep' \in SUBSET AppendEntriesReply
    BY <2>3, <2>8, <2>10, AppendReplyType, Zenon
  <2> QED
    BY <2>2, <2>3, <2>7, <2>9, <2>11, Zenon
    DEF HearLeader, LogTypeOK, voteVars, rvVars, crashVars
<1>10. ASSUME NEW r \in ae_rep, AppendResultNewer(r)
       PROVE  LogTypeOK'
  <2>1. r.to \in Server /\ r.term \in Nat
    BY Zenon DEF LogTypeOK, AppendEntriesReply
  <2>2. BecomeFollower(r.to, r.term) /\ AppendResult(r)
    BY <1>10 DEF AppendResultNewer
  <2> QED
    BY <1>10, <2>1, <2>2, BecomeFollowerType, Zenon
    DEF AppendResultNewer, AppendResult, LogTypeOK, voteVars, rvVars, crashVars
<1>11. ASSUME NEW r \in ae_rep, AppendResultSuccess(r)
       PROVE  LogTypeOK'
  <2>1. r.to \in Server /\ r.from \in Server
    BY SMTT(20) DEF LogTypeOK, AppendEntriesReply
  <2>2. Len(logs[r.to]) \in Nat
    BY <2>1 DEF LogTypeOK
  <2>3. next_index' \in [Server -> [Server -> Nat]]
    BY <1>11, <2>1, <2>2, Zenon DEF AppendResultSuccess, LogTypeOK
  <2> QED
    BY <1>11, <2>3, Zenon
    DEF AppendResultSuccess, AppendResult, LogTypeOK, electionVars, voteVars,
        diskVars, rvVars, crashVars
<1>12. ASSUME NEW r \in ae_rep, AppendResultConflict(r)
       PROVE  LogTypeOK'
  <2>1. r \in AppendEntriesReply /\ r.to \in Server /\ r.from \in Server
    BY SMTT(20) DEF LogTypeOK, AppendEntriesReply
  <2>2. NextAfterConflict(logs[r.to], r) \in Nat
    BY <2>1, NextAfterConflictType, Zenon DEF LogTypeOK
  <2>3. next_index' \in [Server -> [Server -> Nat]]
    BY <1>12, <2>1, <2>2, SMTT(20) DEF AppendResultConflict, LogTypeOK
  <2> QED
    BY <1>12, <2>3, Zenon
    DEF AppendResultConflict, AppendResult, LogTypeOK, electionVars, voteVars,
        diskVars, rvVars, crashVars
<1>13. ASSUME NEW r \in ae_rep, AppendResultLost(r)
       PROVE  LogTypeOK'
  BY <1>13, SMTT(20)
  DEF AppendResultLost, AppendResult, LogTypeOK, electionVars, voteVars,
      diskVars, rvVars, crashVars
<1>14. ASSUME NEW i \in Server, NEW stored \in CrashMeta(i), Restart(i, stored)
       PROVE  LogTypeOK'
  <2>1. stored \in Metadata
    <3>1. meta[i] \in Metadata
      BY SMTT(20) DEF LogTypeOK
    <3>2. \A m \in rv_req \cup ae_req : m.term \in Nat
      BY DEF LogTypeOK, RequestVote, AppendEntries
    <3>3. \A m \in rv_req \cup ae_req :
            [current_term |-> m.term, voted_for |-> Nil] \in Metadata
      BY <3>2, Zenon DEF Metadata
    <3> QED
      BY <3>1, <3>3 DEF CrashMeta
  <2>2. stored.current_term \in Nat /\ stored.voted_for \in Server \cup {Nil}
    BY <2>1 DEF Metadata
  <2>3. PICK n \in 0..MaxLog : \E restored \in [1..n -> log_disk[i]] :
          /\ logs' = [logs EXCEPT ![i] = restored]
          /\ last_persisted_log' = [last_persisted_log EXCEPT ![i] = Max({n - 1, 0})]
    BY <1>14, Zenon DEF Restart
  <2>4. PICK restored \in [1..n -> log_disk[i]] :
          /\ logs' = [logs EXCEPT ![i] = restored]
          /\ last_persisted_log' = [last_persisted_log EXCEPT ![i] = Max({n - 1, 0})]
    BY <2>3, Zenon
  <2>5. n \in Nat
    BY BoundsAssumption
  <2>6. restored \in Seq(LogEntry)
    <3>1. restored \in [1..n -> LogEntry]
      BY DEF LogTypeOK
    <3> QED
      BY <2>5, <3>1, SeqDef
  <2>7. Max({n - 1, 0}) \in Nat
    BY <2>5, MaxPair
  <2>8. /\ logs' \in [Server -> Seq(LogEntry)]
        /\ last_persisted_log' \in [Server -> Nat]
    BY <2>4, <2>6, <2>7, SMTT(20) DEF LogTypeOK
  <2>9. /\ state' \in [Server -> State]
        /\ current_term' \in [Server -> Nat]
        /\ voted_for' \in [Server -> Server \cup {Nil}]
        /\ leader_id' \in [Server -> Server \cup {Nil}]
        /\ vote_count' \in [Server -> Nat]
        /\ counted' \in [Server -> SUBSET Server]
        /\ next_index' \in [Server -> [Server -> Nat]]
        /\ meta' \in [Server -> Metadata]
        /\ boot_term' \in [Server -> Nat]
        /\ restarts' \in Nat
        /\ ae_rep' \in SUBSET AppendEntriesReply
    <3>1. "Follower" \in State /\ 0 \in Nat
      BY DEF State
    <3>2. /\ state' \in [Server -> State]
          /\ current_term' \in [Server -> Nat]
          /\ voted_for' \in [Server -> Server \cup {Nil}]
          /\ leader_id' \in [Server -> Server \cup {Nil}]
      BY <1>14, <2>2, <3>1, Zenon DEF Restart, LogTypeOK
    <3>3. /\ vote_count' \in [Server -> Nat]
          /\ counted' \in [Server -> SUBSET Server]
          /\ next_index' \in [Server -> [Server -> Nat]]
      BY <1>14, <3>1, Zenon DEF Restart, LogTypeOK
    <3>4. /\ meta' \in [Server -> Metadata]
          /\ boot_term' \in [Server -> Nat]
      BY <1>14, <2>1, <2>2, Zenon DEF Restart, LogTypeOK
    <3>5. restarts' \in Nat
      <4>1. restarts \in Nat /\ restarts' = restarts + 1
        BY <1>14, Zenon DEF Restart, LogTypeOK
      <4> QED
        BY <4>1
    <3>6. ae_rep' \in SUBSET AppendEntriesReply
      BY <1>14, Zenon DEF Restart, LogTypeOK
    <3> QED
      BY <3>2, <3>3, <3>4, <3>5, <3>6, Zenon
  <2> QED
    BY <1>14, <2>8, <2>9, Zenon DEF Restart, LogTypeOK, rvVars
<1>15. CASE UNCHANGED logVars
  BY <1>15, SMTT(20)
  DEF LogTypeOK, logVars, electionVars, voteVars, diskVars, rvVars, aeVars, crashVars
<1> QED
  BY <1>1, <1>2, <1>3, <1>4, <1>5, <1>6, <1>7, <1>8, <1>9, <1>10, <1>11, <1>12,
     <1>13, <1>14, <1>15 DEF LogNext

LEMMA LogTypeInit == LogInit => LogTypeOK
<1>1. <<>> \in Seq(LogEntry)
  BY EmptySeq
<1> QED
  BY <1>1 DEF LogInit, LogTypeOK, State, Metadata

\* The state of elections, logs, files and calls is well typed in every
\* reachable state: every handler of consensus.rs leaves indexes that are
\* naturals (next_index never underflows) and logs without gaps.
THEOREM LogTypeCorrect == LogSpec => []LogTypeOK
BY LogTypeInit, LogTypeStep, PTL DEF LogSpec

-----------------------------------------------------------------------------
(* The operators of the pipeline.                                          *)

\* A follower's commit index is an index or None after append_entries.
LEMMA FollowerCommitType ==
  ASSUME NEW old \in OptIndex, NEW lc \in OptIndex, NEW len \in Nat
  PROVE  FollowerCommit(old, lc, len) \in OptIndex
<1>1. CASE lc # None /\ len > 0
  <2>1. lc \in Nat /\ len - 1 \in Nat
    BY <1>1 DEF OptIndex, None
  <2>2. Min({lc, len - 1}) \in Nat
    BY <2>1, MinPair
  <2>3. old \in Int
    BY DEF OptIndex, None
  <2>4. Max({old, Min({lc, len - 1})}) \in OptIndex
    BY <2>2, <2>3, MaxPair DEF OptIndex
  <2> QED
    BY <1>1, <2>4 DEF FollowerCommit
<1>2. CASE ~(lc # None /\ len > 0)
  BY <1>2, Zenon DEF FollowerCommit
<1> QED
  BY <1>1, <1>2

\* A leader's commit index is an index or None after a reply.
LEMMA LeaderCommitType ==
  ASSUME LogTypeOK, commit_index \in [Server -> OptIndex],
         NEW i \in Server, NEW match
  PROVE  LeaderCommit(i, match) \in OptIndex
<1> DEFINE c == commit_index[i]
           n == Len(logs[i])
           K == {k \in Max({c, 0})..(n - 1) :
                   logs[i][k + 1].term = current_term[i] /\ Replicated(i, match, k)}
<1>1. c \in OptIndex /\ c \in Int /\ n \in Nat
  BY DEF LogTypeOK, OptIndex, None
<1>2. Max({c, 0}) = IF c >= 0 THEN c ELSE 0
  BY <1>1, MaxPair
<1>3. K \in SUBSET Nat /\ \A k \in K : k <= n /\ k >= c
  <2>1. Max({c, 0}) \in Nat /\ Max({c, 0}) >= c
    BY <1>1, <1>2
  <2>2. K \subseteq Max({c, 0})..(n - 1)
    BY Zenon
  <2> HIDE DEF c, n, K
  <2>3. \A k \in Max({c, 0})..(n - 1) : k \in Nat /\ k <= n /\ k >= c
    BY <1>1, <2>1
  <2> QED
    BY <2>2, <2>3, Zenon
<1>4. LeaderCommit(i, match) = Max({c} \cup K)
  BY Zenon DEF LeaderCommit
<1> HIDE DEF c, n, K
<1>5. \E x \in {c} \cup K : \A y \in {c} \cup K : x >= y
  <2>1. CASE K = {}
    BY <1>1, <2>1
  <2>2. CASE K # {}
    <3>1. Max(K) \in K /\ \A y \in K : Max(K) >= y
      BY <1>1, <1>3, <2>2, MaxNat
    <3> QED
      BY <1>3, <3>1, Zenon
  <2> QED
    BY <2>1, <2>2
<1>6. Max({c} \cup K) \in {c} \cup K
  BY <1>5, Zenon DEF Max
<1> QED
  BY <1>1, <1>3, <1>4, <1>6, Zenon DEF OptIndex

-----------------------------------------------------------------------------
(* Refinement, one step.                                                   *)

\* Every step of the actor is a step of RaftLog on its variables.
LEMMA ActorStep ==
  ASSUME AnyHint, TypeOK, [Next]_vars
  PROVE  [LogNext]_logVars
<1>1. ASSUME NEW i \in Server, NEW called \in SUBSET Peers(i),
             SendAES(i, called, commit_index[i])
      PROVE  LogNext
  <2>1. commit_index[i] \in CommitHint
    BY DEF AnyHint, TypeOK, OptIndex
  <2> QED
    BY <1>1, <2>1, Zenon DEF LogNext
<1>2. ASSUME NEW i \in Server, SendCommits(i) \/ SendCommitsPanic(i)
      PROVE  UNCHANGED logVars
  BY <1>2, Zenon DEF SendCommits, SendCommitsPanic
<1>3. CASE UNCHANGED vars
  BY <1>3, Zenon DEF vars
<1>4. ASSUME Next
      PROVE  LogNext \/ UNCHANGED logVars
  BY <1>1, <1>2, <1>4, ZenonT(60)
  DEF Next, LogNext, VoteGranted, AcceptEntries, EntriesAccepted, ResultIgnored,
      ResultPanic, RestartNode
<1> QED
  BY <1>3, <1>4, Zenon

-----------------------------------------------------------------------------
(* The pipeline keeps its type.                                            *)

\* A handler writes an index, or None, to the metadata file.
LEMMA HandlerType ==
  ASSUME TypeOK, NEW i \in Server, Handler(i)
  PROVE  /\ applied_disk' \in [Server -> OptIndex]
         /\ panicked' \in [Server -> BOOLEAN]
  BY Zenon DEF TypeOK, Handler

\* A handler that leaves the pipeline alone.
LEMMA QuietType ==
  ASSUME TypeOK, NEW i \in Server, Quiet(i)
  PROVE  TypeOK'
<1>1. /\ applied_disk' \in [Server -> OptIndex]
      /\ panicked' \in [Server -> BOOLEAN]
  BY HandlerType, Zenon DEF Quiet
<1> QED
  BY <1>1, Zenon DEF TypeOK, Quiet, pipelineVars

\* start_leader resets match_index.
LEMMA VoteGrantedType ==
  ASSUME LogTypeOK, TypeOK, NEW r \in rv_rep, VoteGranted(r)
  PROVE  TypeOK'
<1>1. r.to \in Server
  BY DEF LogTypeOK, RequestVoteReply
<1>2. /\ applied_disk' \in [Server -> OptIndex]
      /\ panicked' \in [Server -> BOOLEAN]
  BY <1>1, HandlerType, Zenon DEF VoteGranted
<1>3. [j \in Server |-> 0] \in [Server -> Nat]
  OBVIOUS
<1>4. match_index' \in [Server -> [Server -> Nat]]
  BY <1>1, <1>3, Zenon DEF VoteGranted, TypeOK
<1> QED
  BY <1>2, <1>4, Zenon DEF TypeOK, VoteGranted

\* _append_entries moves the commit index of a follower.
LEMMA AcceptEntriesType ==
  ASSUME LogTypeOK, LogTypeOK', TypeOK, NEW m \in ae_req, AcceptEntries(m)
  PROVE  TypeOK'
<1>1. m.to \in Server /\ m.leader_commit \in OptIndex
  BY Zenon DEF LogTypeOK, AppendEntries
<1>2. /\ applied_disk' \in [Server -> OptIndex]
      /\ panicked' \in [Server -> BOOLEAN]
  BY <1>1, HandlerType, Zenon DEF AcceptEntries
<1>3. Len(logs'[m.to]) \in Nat
  BY <1>1 DEF LogTypeOK
<1>4. FollowerCommit(commit_index[m.to], m.leader_commit, Len(logs'[m.to])) \in OptIndex
  BY <1>1, <1>3, FollowerCommitType, Zenon DEF TypeOK
<1>5. commit_index' \in [Server -> OptIndex]
  BY <1>1, <1>4, Zenon DEF AcceptEntries, TypeOK
<1>6. send_commit' \in [Server -> BOOLEAN]
  BY <1>1, Zenon DEF AcceptEntries, TypeOK
<1> QED
  BY <1>2, <1>5, <1>6, Zenon DEF TypeOK, AcceptEntries

\* handle_ae_res moves match_index and the commit index of a leader.
LEMMA EntriesAcceptedType ==
  ASSUME LogTypeOK, TypeOK, NEW r \in ae_rep, EntriesAccepted(r)
  PROVE  TypeOK'
<1>1. r.to \in Server /\ r.from \in Server
  BY Zenon DEF LogTypeOK, AppendEntriesReply
<1>2. /\ applied_disk' \in [Server -> OptIndex]
      /\ panicked' \in [Server -> BOOLEAN]
  BY <1>1, HandlerType, Zenon DEF EntriesAccepted
<1>3. MatchAfter(logs[r.to]) \in Nat
  <2>1. Len(logs[r.to]) \in Nat
    BY <1>1 DEF LogTypeOK
  <2> QED
    BY <2>1, MaxPair DEF MatchAfter
<1>4. match_index' \in [Server -> [Server -> Nat]]
  <2>1. match_index' =
          [match_index EXCEPT ![r.to][r.from] = MatchAfter(logs[r.to])]
    BY Zenon DEF EntriesAccepted
  <2> QED
    BY <1>1, <1>3, <2>1, SMTT(20) DEF TypeOK
<1>5. LeaderCommit(r.to, match_index'[r.to]) \in OptIndex
  BY <1>1, LeaderCommitType DEF TypeOK
<1>6. commit_index' \in [Server -> OptIndex]
  BY <1>1, <1>5, Zenon DEF EntriesAccepted, TypeOK
<1>7. send_commit' \in [Server -> BOOLEAN]
  BY <1>1, Zenon DEF EntriesAccepted, TypeOK
<1> QED
  BY <1>2, <1>4, <1>6, <1>7, Zenon DEF TypeOK, EntriesAccepted

\* What SendCommits sends, as a sequence of commit entries.
Sent(i) ==
  [k \in 1..(commit_index[i] - StartIndex(i) + 1) |->
     [index |-> StartIndex(i) + k - 1, command |-> logs[i][StartIndex(i) + k].command]]

LEMMA SentType ==
  ASSUME LogTypeOK, TypeOK, NEW i \in Server, Due(i), commit_index[i] < Len(logs[i])
  PROVE  /\ Sent(i) \in Seq(CommitEntry)
         /\ Len(Sent(i)) = commit_index[i] - last_applied[i]
         /\ \A k \in 1..Len(Sent(i)) : Sent(i)[k].index = last_applied[i] + k
<1> DEFINE la == last_applied[i]
           n == commit_index[i] - StartIndex(i) + 1
<1>1. la \in Int /\ la >= -1 /\ StartIndex(i) = la + 1
  BY DEF TypeOK, OptIndex, None, StartIndex
<1>2. n \in Nat /\ n = commit_index[i] - la /\ commit_index[i] \in Int
  BY <1>1 DEF TypeOK, OptIndex, None, Due
<1>3. logs[i] \in Seq(LogEntry)
  BY SMTT(20) DEF LogTypeOK
<1>4. ASSUME NEW k \in 1..n
      PROVE  [index |-> StartIndex(i) + k - 1,
              command |-> logs[i][StartIndex(i) + k].command] \in CommitEntry
  <2>1. StartIndex(i) + k - 1 \in Nat /\ StartIndex(i) + k \in 1..Len(logs[i])
    <3>1. Len(logs[i]) \in Nat
      BY <1>3, LenProperties, Zenon
    <3>2. k \in Nat /\ k >= 1 /\ k <= n
      BY <1>2
    <3> HIDE DEF la, n
    <3>3. StartIndex(i) + k - 1 = la + k
      BY <1>1, <3>2
    <3> QED
      BY <1>1, <1>2, <3>1, <3>2, <3>3
  <2>2. logs[i][StartIndex(i) + k] \in LogEntry
    BY <1>3, <2>1, ElementOfSeq
  <2>3. logs[i][StartIndex(i) + k].command \in Command
    BY <2>2 DEF LogEntry
  <2> QED
    BY <2>1, <2>3 DEF CommitEntry
<1>5. Sent(i) \in [1..n -> CommitEntry]
  BY <1>4, Zenon DEF Sent
<1>6. Sent(i) \in Seq(CommitEntry) /\ Len(Sent(i)) = n
  BY <1>2, <1>5
<1>7. ASSUME NEW k \in 1..n
      PROVE  Sent(i)[k].index = la + k
  <2>1. Sent(i)[k].index = StartIndex(i) + k - 1
    BY Zenon DEF Sent
  <2> QED
    BY <1>1, <2>1
<1> QED
  BY <1>2, <1>6, <1>7

\* send_commits appends to the stream what last_applied leaves due.
LEMMA SendCommitsSends ==
  ASSUME TypeOK, NEW i \in Server, SendCommits(i)
  PROVE  \/ UNCHANGED <<commit_chan, last_applied>>
         \/ /\ Due(i)
            /\ commit_index[i] < Len(logs[i])
            /\ commit_chan' = [commit_chan EXCEPT ![i] = @ \o Sent(i)]
            /\ last_applied' = [last_applied EXCEPT ![i] = commit_index[i]]
  BY Zenon DEF SendCommits, Sent

LEMMA SendCommitsType ==
  ASSUME LogTypeOK, TypeOK, NEW i \in Server, SendCommits(i)
  PROVE  TypeOK'
<1>1. /\ applied_disk' \in [Server -> OptIndex]
      /\ panicked' \in [Server -> BOOLEAN]
  BY HandlerType, Zenon DEF SendCommits
<1>2. send_commit' \in [Server -> BOOLEAN]
  BY Zenon DEF SendCommits, TypeOK
<1>3. /\ commit_chan' \in [Server -> Seq(CommitEntry)]
      /\ last_applied' \in [Server -> OptIndex]
  <2>1. CASE UNCHANGED <<commit_chan, last_applied>>
    BY <2>1, Zenon DEF TypeOK
  <2>2. CASE /\ Due(i)
             /\ commit_index[i] < Len(logs[i])
             /\ commit_chan' = [commit_chan EXCEPT ![i] = @ \o Sent(i)]
             /\ last_applied' = [last_applied EXCEPT ![i] = commit_index[i]]
    <3>1. Sent(i) \in Seq(CommitEntry) /\ commit_chan[i] \in Seq(CommitEntry)
      BY <2>2, SentType DEF TypeOK
    <3>2. commit_chan[i] \o Sent(i) \in Seq(CommitEntry)
      BY <3>1
    <3> QED
      BY <2>2, <3>2, Zenon DEF TypeOK
  <2> QED
    BY <2>1, <2>2, SendCommitsSends, Zenon
<1> QED
  BY <1>1, <1>2, <1>3, Zenon DEF TypeOK, SendCommits

\* A restart takes last_applied from the file.
LEMMA RestartNodeType ==
  ASSUME TypeOK, NEW i \in Server, RestartNode(i)
  PROVE  TypeOK'
<1>1. applied_disk' \in [Server -> OptIndex]
  BY Zenon DEF RestartNode, TypeOK
<1>2. last_applied' \in [Server -> OptIndex]
  BY <1>1, Zenon DEF RestartNode, TypeOK
<1>3. [j \in Server |-> 0] \in [Server -> Nat] /\ None \in OptIndex
  BY DEF OptIndex
<1>4. match_index' \in [Server -> [Server -> Nat]]
  BY <1>3, Zenon DEF RestartNode, TypeOK
<1>5. commit_index' \in [Server -> OptIndex]
  BY <1>3, Zenon DEF RestartNode, TypeOK
<1>6. <<>> \in Seq(CommitEntry)
  OBVIOUS
<1>7. commit_chan' \in [Server -> Seq(CommitEntry)]
  BY <1>6, Zenon DEF RestartNode, TypeOK
<1>8. send_commit' \in [Server -> BOOLEAN] /\ panicked' \in [Server -> BOOLEAN]
  BY Zenon DEF RestartNode, TypeOK
<1> QED
  BY <1>1, <1>2, <1>4, <1>5, <1>7, <1>8, Zenon DEF TypeOK

\* The recipients of requests and replies are servers.
LEMMA Recipients ==
  ASSUME LogTypeOK
  PROVE  /\ \A m \in rv_req : m.to \in Server
         /\ \A r \in rv_rep : r.to \in Server
         /\ \A m \in ae_req : m.to \in Server
         /\ \A r \in ae_rep : r.to \in Server
<1>1. \A m \in rv_req : m.to \in Server
  BY DEF LogTypeOK, RequestVote
<1>2. \A r \in rv_rep : r.to \in Server
  BY DEF LogTypeOK, RequestVoteReply
<1>3. \A m \in ae_req : m.to \in Server
  BY DEF LogTypeOK, AppendEntries
<1>4. \A r \in ae_rep : r.to \in Server
  BY DEF LogTypeOK, AppendEntriesReply
<1> QED
  BY <1>1, <1>2, <1>3, <1>4, SMTT(20)

\* What a step of the actor does to the pipeline, by cases.
PipelineStep ==
  \/ \E i \in Server : Quiet(i)
  \/ \E r \in rv_rep : VoteGranted(r)
  \/ \E m \in ae_req : AcceptEntries(m)
  \/ \E r \in ae_rep : EntriesAccepted(r)
  \/ \E r \in ae_rep : ResultIgnored(r)
  \/ \E r \in ae_rep : ResultPanic(r)
  \/ \E i \in Server : SendCommits(i)
  \/ \E i \in Server : SendCommitsPanic(i)
  \/ \E i \in Server : RestartNode(i)

LEMMA PipelineCases ==
  ASSUME LogTypeOK, Next
  PROVE  PipelineStep
  BY Recipients, ZenonT(60) DEF Next, PipelineStep

LEMMA TypeStep ==
  ASSUME LogTypeOK, LogTypeOK', TypeOK, [Next]_vars
  PROVE  TypeOK'
<1>1. CASE UNCHANGED vars
  BY <1>1, Zenon DEF vars, pipelineVars, TypeOK
<1>2. CASE PipelineStep
  <2>1. ASSUME NEW i \in Server, Quiet(i) PROVE TypeOK'
    BY <2>1, QuietType, Zenon
  <2>2. ASSUME NEW r \in rv_rep, VoteGranted(r) PROVE TypeOK'
    BY <2>2, VoteGrantedType, Zenon
  <2>3. ASSUME NEW m \in ae_req, AcceptEntries(m) PROVE TypeOK'
    BY <2>3, AcceptEntriesType, Zenon
  <2>4. ASSUME NEW r \in ae_rep, EntriesAccepted(r) PROVE TypeOK'
    BY <2>4, EntriesAcceptedType, Zenon
  <2>5. ASSUME NEW r \in ae_rep, ResultIgnored(r) PROVE TypeOK'
    BY <2>5, Zenon DEF ResultIgnored, pipelineVars, TypeOK
  <2>6. ASSUME NEW r \in ae_rep, ResultPanic(r) PROVE TypeOK'
    BY <2>6, Zenon DEF ResultPanic, pipelineVars, TypeOK
  <2>7. ASSUME NEW i \in Server, SendCommits(i) PROVE TypeOK'
    BY <2>7, SendCommitsType, Zenon
  <2>8. ASSUME NEW i \in Server, SendCommitsPanic(i) PROVE TypeOK'
    BY <2>8, Zenon DEF SendCommitsPanic, pipelineVars, TypeOK
  <2>9. ASSUME NEW i \in Server, RestartNode(i) PROVE TypeOK'
    BY <2>9, RestartNodeType, Zenon
  <2> QED
    BY <1>2, <2>1, <2>2, <2>3, <2>4, <2>5, <2>6, <2>7, <2>8, <2>9, Zenon
    DEF PipelineStep
<1> QED
  BY <1>1, <1>2, PipelineCases, Zenon

-----------------------------------------------------------------------------
(* The stream of commits.                                                  *)

\* send_commits continues the stream where last_applied says it ended.
LEMMA SendCommitsContinues ==
  ASSUME LogTypeOK, TypeOK, StreamContiguous, NEW i \in Server, SendCommits(i)
  PROVE  StreamContiguous'
<1>1. CASE UNCHANGED <<commit_chan, last_applied>>
  BY <1>1, Zenon DEF StreamContiguous
<1>2. CASE /\ Due(i)
           /\ commit_index[i] < Len(logs[i])
           /\ commit_chan' = [commit_chan EXCEPT ![i] = @ \o Sent(i)]
           /\ last_applied' = [last_applied EXCEPT ![i] = commit_index[i]]
  <2> DEFINE old == commit_chan[i]
             new == Sent(i)
             la == last_applied[i]
             ci == commit_index[i]
  <2>1. /\ new \in Seq(CommitEntry)
        /\ Len(new) = ci - la
        /\ \A k \in 1..Len(new) : new[k].index = la + k
    BY <1>2, SentType, Zenon
  <2>2. old \in Seq(CommitEntry) /\ la \in Int /\ ci \in Int
    BY DEF TypeOK, OptIndex, None
  <2>3. \A k \in 1..Len(old) : old[k].index = la - Len(old) + k
    BY Zenon DEF StreamContiguous
  <2>4. commit_chan'[i] = old \o new /\ last_applied'[i] = ci
    BY <1>2, Zenon DEF TypeOK
  <2> HIDE DEF old, new, la, ci
  <2>5. ASSUME NEW k \in 1..Len(old \o new)
        PROVE  (old \o new)[k].index = ci - Len(old \o new) + k
    <3>1. Len(old \o new) = Len(old) + Len(new) /\ Len(old) \in Nat /\ Len(new) \in Nat
      <4>1. old \in Seq(CommitEntry) /\ new \in Seq(CommitEntry)
        BY <2>1, <2>2
      <4>2. Len(old) \in Nat /\ Len(new) \in Nat
        BY <4>1, LenProperties
      <4>3. Len(old \o new) = Len(old) + Len(new)
        BY <4>1, ConcatProperties
      <4> QED
        BY <4>2, <4>3
    <3>2. CASE k <= Len(old)
      <4>1. k \in 1..Len(old) /\ (old \o new)[k] = old[k]
        BY <2>1, <2>2, <3>1, <3>2
      <4>2. old[k].index = la - Len(old) + k
        BY <2>3, <4>1
      <4>3. la - Len(old) + k = ci - Len(old \o new) + k
        <5>1. Len(new) = ci - la
          BY <2>1, Zenon
        <5> QED
          BY <2>2, <3>1, <5>1
      <4> QED
        BY <4>1, <4>2, <4>3, Zenon
    <3>3. CASE k > Len(old)
      <4>1. k - Len(old) \in 1..Len(new) /\ (old \o new)[k] = new[k - Len(old)]
        BY <2>1, <2>2, <3>1, <3>3
      <4>2. new[k - Len(old)].index = la + (k - Len(old))
        BY <2>1, <4>1
      <4>3. la + (k - Len(old)) = ci - Len(old \o new) + k
        <5>1. Len(new) = ci - la
          BY <2>1, Zenon
        <5> QED
          BY <2>2, <3>1, <5>1
      <4> QED
        BY <4>1, <4>2, <4>3, Zenon
    <3> QED
      BY <3>1, <3>2, <3>3
  <2>6. ASSUME NEW j \in Server, j # i
        PROVE  commit_chan'[j] = commit_chan[j] /\ last_applied'[j] = last_applied[j]
    BY <1>2, <2>6, Zenon DEF TypeOK
  <2>7. ASSUME NEW j \in Server, NEW k \in 1..Len(commit_chan'[j])
        PROVE  commit_chan'[j][k].index = last_applied'[j] - Len(commit_chan'[j]) + k
    <3>1. CASE j = i
      BY <2>4, <2>5, <3>1, Zenon
    <3>2. CASE j # i
      BY <2>6, <3>2, Zenon DEF StreamContiguous
    <3> QED
      BY <3>1, <3>2
  <2> QED
    BY <2>7, Zenon DEF StreamContiguous
<1> QED
  BY <1>1, <1>2, SendCommitsSends, Zenon

\* A restarted process has sent nothing yet.
LEMMA RestartContinues ==
  ASSUME TypeOK, StreamContiguous, NEW i \in Server, RestartNode(i)
  PROVE  StreamContiguous'
<1>1. ASSUME NEW j \in Server, j # i
      PROVE  commit_chan'[j] = commit_chan[j] /\ last_applied'[j] = last_applied[j]
  BY <1>1, Zenon DEF RestartNode, TypeOK
<1>2. commit_chan'[i] = <<>>
  BY Zenon DEF RestartNode, TypeOK
<1>3. ASSUME NEW j \in Server, NEW k \in 1..Len(commit_chan'[j])
      PROVE  commit_chan'[j][k].index = last_applied'[j] - Len(commit_chan'[j]) + k
  <2>1. CASE j = i
    BY <1>2, <1>3, <2>1
  <2>2. CASE j # i
    BY <1>1, <2>2, Zenon DEF StreamContiguous
  <2> QED
    BY <2>1, <2>2
<1> QED
  BY <1>3, Zenon DEF StreamContiguous

LEMMA ContiguousStep ==
  ASSUME LogTypeOK, TypeOK, StreamContiguous, [Next]_vars
  PROVE  StreamContiguous'
<1>1. CASE UNCHANGED <<commit_chan, last_applied>>
  BY <1>1, Zenon DEF StreamContiguous
<1>2. CASE PipelineStep
  <2>1. ASSUME NEW i \in Server, SendCommits(i) PROVE StreamContiguous'
    BY <2>1, SendCommitsContinues, Zenon
  <2>2. ASSUME NEW i \in Server, RestartNode(i) PROVE StreamContiguous'
    BY <2>2, RestartContinues, Zenon
  <2> QED
    BY <1>1, <1>2, <2>1, <2>2, Zenon
    DEF PipelineStep, Quiet, VoteGranted, AcceptEntries, EntriesAccepted,
        ResultIgnored, ResultPanic, SendCommitsPanic, pipelineVars
<1>3. CASE UNCHANGED vars
  BY <1>1, <1>3, Zenon DEF vars, pipelineVars
<1> QED
  BY <1>2, <1>3, PipelineCases, Zenon

-----------------------------------------------------------------------------
(* The theorems.                                                           *)

LEMMA TypesHold ==
  ASSUME AnyHint
  PROVE  Spec => [](LogTypeOK /\ TypeOK)
<1>1. Init => LogTypeOK /\ TypeOK
  <2> SUFFICES ASSUME Init PROVE LogTypeOK /\ TypeOK
    OBVIOUS
  <2>1. LogTypeOK
    BY LogTypeInit, Zenon DEF Init
  <2>2. [j \in Server |-> 0] \in [Server -> Nat] /\ None \in OptIndex
    BY DEF OptIndex
  <2>3. <<>> \in Seq(CommitEntry)
    OBVIOUS
  <2>4. TypeOK
    BY <2>2, <2>3, Zenon DEF Init, TypeOK
  <2> QED
    BY <2>1, <2>4
<1>2. (LogTypeOK /\ TypeOK) /\ [Next]_vars => (LogTypeOK /\ TypeOK)'
  BY ActorStep, LogTypeStep, TypeStep, Zenon
<1> QED
  BY <1>1, <1>2, PTL DEF Spec

\* The pipeline keeps its type, for every cluster and every bound: match_index
\* never underflows on an empty log and an index is never taken for None.
THEOREM PipelineTypeCorrect ==
  ASSUME AnyHint
  PROVE  Spec => []TypeOK
BY TypesHold, PTL

\* The actor refines elections and logs of RaftLog: the commit pipeline, the
\* panics and the leader_commit of its requests change nothing there.
THEOREM ActorRefines ==
  ASSUME AnyHint
  PROVE  Spec => LogInit /\ LogStep
<1>1. Init => LogInit
  BY Zenon DEF Init
<1>2. TypeOK /\ [Next]_vars => [LogNext]_logVars
  BY ActorStep, Zenon
<1>3. Spec => []TypeOK
  BY PipelineTypeCorrect
<1> QED
  BY <1>1, <1>2, <1>3, PTL DEF Spec, LogStep

\* Whatever happens to logs, roles and commit_index, a process hands its
\* subscribers consecutive indexes (send_commits).
THEOREM CommitsContiguous ==
  ASSUME AnyHint
  PROVE  Spec => []StreamContiguous
<1>1. Init => StreamContiguous
  BY DEF Init, StreamContiguous
<1>2. (LogTypeOK /\ TypeOK) /\ StreamContiguous /\ [Next]_vars => StreamContiguous'
  BY ContiguousStep, Zenon
<1> QED
  BY <1>1, <1>2, TypesHold, PTL DEF Spec

=============================================================================
