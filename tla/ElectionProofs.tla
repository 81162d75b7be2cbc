--------------------------- MODULE ElectionProofs --------------------------
(***************************************************************************)
(* Theorems about the elections of RaftLog, for every set of servers:      *)
(* at most one node wins the election of a term, a vote given away is on   *)
(* disk, LEADER_ID names the node itself exactly while it leads, and a     *)
(* follower redirects to the leader of its own term.  They hold across     *)
(* crashes and restarts.                                                   *)
(***************************************************************************)
EXTENDS ConsensusProofs, FiniteSetTheorems

(***************************************************************************)
(* The inductive invariant.  A node votes by asking for votes (for itself) *)
(* or by granting one; both leave a message behind, and the term and the   *)
(* vote of the node cannot fall behind its messages because they are       *)
(* stored before a message is sent.                                        *)
(***************************************************************************)

Asked(c, t) == \E m \in rv_req : m.from = c /\ m.term = t
Granted(q, c, t) ==
  \E r \in rv_rep : r.voted /\ r.from = q /\ r.to = c /\ r.req = t

\* The nodes that voted for c in term t.
Ballots(c, t) == {q \in Server : Granted(q, c, t) \/ (q = c /\ Asked(c, t))}

MetaStored(i) ==
  meta[i].current_term = current_term[i] /\ meta[i].voted_for = voted_for[i]

StoredInv == \A i \in Server : MetaStored(i)

AskInv ==
  \A m \in rv_req :
    /\ m.from # m.to
    /\ m.term <= current_term[m.from]
    /\ m.term = current_term[m.from] => voted_for[m.from] = m.from

GrantInv ==
  \A r \in rv_rep :
    r.voted => /\ r.from # r.to
               /\ r.term = r.req
               /\ r.req <= current_term[r.from]
               /\ r.req = current_term[r.from] => voted_for[r.from] = r.to

OneVote ==
  \A r, s \in rv_rep :
    r.voted /\ s.voted /\ r.from = s.from /\ r.req = s.req => r.to = s.to

OwnVote ==
  \A r \in rv_rep, m \in rv_req : r.voted /\ r.from = m.from => r.req # m.term

VoteInv == StoredInv /\ AskInv /\ GrantInv /\ OneVote /\ OwnVote

CandidateInv ==
  \A i \in Server :
    state[i] = "Candidate" =>
      /\ counted[i] \subseteq Ballots(i, current_term[i]) \ {i}
      /\ vote_count[i] = Cardinality(counted[i]) + 1
      /\ Peers(i) # {} => i \in Ballots(i, current_term[i])

ElectedInv ==
  \A e \in elected : 2 * Cardinality(Ballots(e[1], e[2])) > Cardinality(Server)

ElectionInv == VoteInv /\ CandidateInv /\ ElectedInv

\* What the invariant of LEADER_ID needs besides: requests come from winners.
LeaderInv ==
  /\ IsLeaderExact
  /\ RedirectCurrent
  /\ \A i \in Server : state[i] = "Leader" => <<i, current_term[i]>> \in elected
  /\ \A m \in ae_req : m.from # m.to /\ <<m.from, m.term>> \in elected

-----------------------------------------------------------------------------
(* Steps that neither ask for a vote, nor give one, nor count one.         *)

\* Node i keeps its term and vote or moves to a newer term, and has stored
\* both; it is a candidate afterwards only if it was, in the same election.
QuietAt(i) ==
  /\ \/ current_term'[i] > current_term[i]
     \/ current_term'[i] = current_term[i] /\ voted_for'[i] = voted_for[i]
  /\ meta'[i].current_term = current_term'[i]
  /\ meta'[i].voted_for = voted_for'[i]
  /\ state'[i] = "Candidate" =>
       /\ state[i] = "Candidate"
       /\ current_term'[i] = current_term[i]
       /\ vote_count'[i] = vote_count[i]
       /\ counted'[i] = counted[i]

QuietStep == UNCHANGED <<rvVars, elected>> /\ \A i \in Server : QuietAt(i)

\* Such a step keeps the invariant.
LEMMA QuietKeeps ==
  ASSUME LogTypeOK, LogTypeOK', ElectionInv, QuietStep
  PROVE  ElectionInv'
<1>1. /\ rv_req' = rv_req /\ rv_rep' = rv_rep /\ elected' = elected
      /\ \A i \in Server : QuietAt(i)
  BY DEF QuietStep, rvVars
<1>2. \A m \in rv_req : m.from \in Server /\ m.term \in Nat
  BY Zenon DEF LogTypeOK, RequestVote
<1>3. \A r \in rv_rep : r.from \in Server /\ r.req \in Nat
  BY Zenon DEF LogTypeOK, RequestVoteReply
<1>4. \A i \in Server : current_term[i] \in Nat /\ current_term'[i] \in Nat
  BY DEF LogTypeOK
<1>5. StoredInv'
  BY <1>1 DEF StoredInv, MetaStored, QuietAt
<1>6. AskInv'
  BY <1>1, <1>2, <1>4 DEF ElectionInv, VoteInv, AskInv, QuietAt
<1>7. GrantInv'
  BY <1>1, <1>3, <1>4 DEF ElectionInv, VoteInv, GrantInv, QuietAt
<1>8. OneVote' /\ OwnVote'
  BY <1>1 DEF ElectionInv, VoteInv, OneVote, OwnVote
<1>9. \A c, t : Ballots(c, t)' = Ballots(c, t)
  BY <1>1 DEF Ballots, Granted, Asked
<1>10. CandidateInv'
  <2> SUFFICES ASSUME NEW i \in Server, state'[i] = "Candidate"
               PROVE  /\ counted'[i] \subseteq Ballots(i, current_term[i])' \ {i}
                      /\ vote_count'[i] = Cardinality(counted'[i]) + 1
                      /\ Peers(i) # {} => i \in Ballots(i, current_term[i])'
    BY DEF CandidateInv, Peers
  <2>1. /\ state[i] = "Candidate"
        /\ current_term'[i] = current_term[i]
        /\ vote_count'[i] = vote_count[i]
        /\ counted'[i] = counted[i]
    BY <1>1 DEF QuietAt
  <2>2. Ballots(i, current_term[i])' = Ballots(i, current_term[i])
    BY <1>1, <2>1 DEF Ballots, Granted, Asked
  <2> QED
    BY <2>1, <2>2 DEF ElectionInv, CandidateInv
<1>11. ElectedInv'
  BY <1>1, <1>9 DEF ElectionInv, ElectedInv
<1> QED
  BY <1>5, <1>6, <1>7, <1>8, <1>10, <1>11 DEF ElectionInv, VoteInv

\* persist_state puts the term and the vote of node i on disk.
LEMMA PersistStores ==
  ASSUME LogTypeOK, StoredInv, NEW i \in Server, PersistState(i),
         \A j \in Server \ {i} : /\ current_term'[j] = current_term[j]
                                 /\ voted_for'[j] = voted_for[j]
  PROVE  \A j \in Server : /\ meta'[j].current_term = current_term'[j]
                           /\ meta'[j].voted_for = voted_for'[j]
  BY Zenon DEF PersistState, StoreMeta, LogTypeOK, StoredInv, MetaStored

\* become_follower with a newer term is quiet.
LEMMA BecomeFollowerQuiet ==
  ASSUME LogTypeOK, ElectionInv, NEW i \in Server, NEW term \in Nat,
         term > current_term[i], BecomeFollower(i, term),
         UNCHANGED <<voteVars, rvVars>>
  PROVE  QuietStep
<1>1. \A j \in Server :
        /\ meta'[j].current_term = current_term'[j]
        /\ meta'[j].voted_for = voted_for'[j]
  <2>1. PersistState(i)
    BY DEF BecomeFollower
  <2>2. \A j \in Server \ {i} : /\ current_term'[j] = current_term[j]
                                /\ voted_for'[j] = voted_for[j]
    BY DEF BecomeFollower, LogTypeOK
  <2> QED
    BY <2>1, <2>2, PersistStores DEF ElectionInv, VoteInv
<1>2. \A j \in Server : QuietAt(j)
  BY <1>1 DEF BecomeFollower, QuietAt, LogTypeOK, voteVars
<1> QED
  BY <1>2 DEF QuietStep, rvVars, voteVars

\* What append_entries does to term, vote and role is quiet once it is stored.
LEMMA HearLeaderQuiet ==
  ASSUME LogTypeOK, ElectionInv, NEW m \in ae_req, HearLeader(m),
         \/ PersistState(m.to)
         \/ ~Newer(m.to, m.term) /\ UNCHANGED diskVars
  PROVE  QuietStep
<1>1. m.to \in Server /\ m.from \in Server /\ m.term \in Nat
  BY Zenon DEF LogTypeOK, AppendEntries
<1>2. /\ m.term >= current_term[m.to]
      /\ state' = [state EXCEPT ![m.to] = IF Newer(m.to, m.term) THEN "Follower" ELSE @]
      /\ current_term' = [current_term EXCEPT ![m.to] = m.term]
      /\ voted_for' = [voted_for EXCEPT ![m.to] = VoteAfter(m.to, m.term)]
      /\ UNCHANGED <<voteVars, rvVars>>
  BY DEF HearLeader, NotStale
<1>3. ~Newer(m.to, m.term) => /\ m.term = current_term[m.to]
                              /\ VoteAfter(m.to, m.term) = voted_for[m.to]
  BY <1>1, <1>2, SMTT(20) DEF Newer, VoteAfter, LogTypeOK
<1>4. \A j \in Server :
        /\ meta'[j].current_term = current_term'[j]
        /\ meta'[j].voted_for = voted_for'[j]
  <2>1. CASE PersistState(m.to)
    BY <1>1, <1>2, <2>1, PersistStores, Zenon DEF ElectionInv, VoteInv, LogTypeOK
  <2>2. CASE ~Newer(m.to, m.term) /\ UNCHANGED diskVars
    BY <1>1, <1>2, <1>3, <2>2, Zenon
    DEF diskVars, ElectionInv, VoteInv, StoredInv, MetaStored, LogTypeOK
  <2> QED
    BY <2>1, <2>2
<1>5. \A j \in Server : QuietAt(j)
  BY <1>1, <1>2, <1>3, <1>4, Zenon DEF QuietAt, LogTypeOK, Newer, voteVars
<1> QED
  BY <1>2, <1>5 DEF QuietStep, rvVars, voteVars

-----------------------------------------------------------------------------
(* Steps that ask for votes, give one or count one.                        *)

\* Ballots are never taken back, because calls are only added.
LEMMA BallotsGrow ==
  ASSUME rv_req \subseteq rv_req', rv_rep \subseteq rv_rep', NEW c, NEW t
  PROVE  Ballots(c, t) \subseteq Ballots(c, t)'
  BY DEF Ballots, Granted, Asked

\* The winners keep their majorities.
LEMMA ElectedKept ==
  ASSUME ElectedInv, rv_req \subseteq rv_req', rv_rep \subseteq rv_rep',
         elected' = elected
  PROVE  ElectedInv'
<1> SUFFICES ASSUME NEW e \in elected
             PROVE  2 * Cardinality(Ballots(e[1], e[2])') > Cardinality(Server)
  BY DEF ElectedInv
<1>1. /\ Ballots(e[1], e[2]) \subseteq Ballots(e[1], e[2])'
      /\ Ballots(e[1], e[2])' \subseteq Server
  BY BallotsGrow DEF Ballots
<1>2. IsFiniteSet(Ballots(e[1], e[2])')
  BY <1>1, ServerAssumption, FS_Subset
<1>3. /\ IsFiniteSet(Ballots(e[1], e[2]))
      /\ Cardinality(Ballots(e[1], e[2])) <= Cardinality(Ballots(e[1], e[2])')
  BY <1>1, <1>2, FS_Subset
<1>4. /\ Cardinality(Ballots(e[1], e[2])) \in Nat
      /\ Cardinality(Ballots(e[1], e[2])') \in Nat
      /\ Cardinality(Server) \in Nat
  BY <1>2, <1>3, ServerAssumption, FS_CardinalityType
<1>5. 2 * Cardinality(Ballots(e[1], e[2])) > Cardinality(Server)
  BY DEF ElectedInv
<1> QED
  BY <1>3, <1>4, <1>5

\* start_election keeps the invariant: the candidate's own vote is stored
\* before the requests are sent.
LEMMA StartElectionKeeps ==
  ASSUME LogTypeOK, LogTypeOK', ElectionInv, NEW i \in Server, StartElection(i)
  PROVE  ElectionInv'
<1> DEFINE new == {[from |-> i, to |-> j, term |-> current_term[i] + 1,
                    last_log_index |-> LastIndex(logs[i]),
                    last_log_term |-> LastTerm(logs[i])] : j \in Peers(i)}
<1>1. /\ state' = [state EXCEPT ![i] = "Candidate"]
      /\ current_term' = [current_term EXCEPT ![i] = @ + 1]
      /\ voted_for' = [voted_for EXCEPT ![i] = i]
      /\ vote_count' = [vote_count EXCEPT ![i] = 1]
      /\ counted' = [counted EXCEPT ![i] = {}]
      /\ PersistState(i)
      /\ rv_req' = rv_req \cup new
      /\ rv_rep' = rv_rep
      /\ elected' = elected
  BY SMTT(20) DEF StartElection
<1>2. /\ current_term'[i] = current_term[i] + 1
      /\ voted_for'[i] = i
      /\ \A j \in Server \ {i} : /\ current_term'[j] = current_term[j]
                                 /\ voted_for'[j] = voted_for[j]
      /\ \A j \in Server : current_term[j] \in Nat
  <2>1. current_term \in [Server -> Nat] /\ voted_for \in [Server -> Server \cup {Nil}]
    BY Zenon DEF LogTypeOK
  <2>2. current_term'[i] = current_term[i] + 1
    BY <1>1, <2>1
  <2>3. voted_for'[i] = i
    BY <1>1, <2>1, Zenon
  <2>4. \A j \in Server \ {i} : /\ current_term'[j] = current_term[j]
                                /\ voted_for'[j] = voted_for[j]
    BY <1>1, <2>1, Zenon
  <2> QED
    BY <2>1, <2>2, <2>3, <2>4, Zenon
<1>3. \A m \in new : m.from = i /\ m.to # i /\ m.term = current_term[i] + 1
  BY DEF Peers
<1>4. \A m \in rv_req : m.from \in Server /\ m.term \in Nat
  BY Zenon DEF LogTypeOK, RequestVote
<1>5. \A r \in rv_rep : r.from \in Server /\ r.req \in Nat
  BY Zenon DEF LogTypeOK, RequestVoteReply
<1> HIDE DEF new
<1>6. StoredInv'
  BY <1>1, <1>2, PersistStores, SMTT(20) DEF ElectionInv, VoteInv, StoredInv, MetaStored
<1>7. AskInv'
  <2> SUFFICES ASSUME NEW m \in rv_req'
               PROVE  /\ m.from # m.to
                      /\ m.term <= current_term'[m.from]
                      /\ m.term = current_term'[m.from] => voted_for'[m.from] = m.from
    BY DEF AskInv
  <2>1. CASE m \in new
    BY <1>2, <1>3, <2>1
  <2>2. CASE m \in rv_req
    BY <1>2, <1>4, <2>2, SMTT(20) DEF ElectionInv, VoteInv, AskInv
  <2> QED
    BY <1>1, <2>1, <2>2
<1>8. GrantInv'
  BY <1>1, <1>2, <1>5 DEF ElectionInv, VoteInv, GrantInv
<1>9. OneVote'
  BY <1>1 DEF ElectionInv, VoteInv, OneVote
<1>10. OwnVote'
  <2> SUFFICES ASSUME NEW r \in rv_rep, NEW m \in rv_req', r.voted, r.from = m.from
               PROVE  r.req # m.term
    BY <1>1 DEF OwnVote
  <2>1. CASE m \in new
    BY <1>2, <1>3, <1>5, <2>1, SMTT(20) DEF ElectionInv, VoteInv, GrantInv
  <2>2. CASE m \in rv_req
    BY <2>2 DEF ElectionInv, VoteInv, OwnVote
  <2> QED
    BY <1>1, <2>1, <2>2
<1>11. CandidateInv'
  <2> SUFFICES ASSUME NEW j \in Server, state'[j] = "Candidate"
               PROVE  /\ counted'[j] \subseteq Ballots(j, current_term[j])' \ {j}
                      /\ vote_count'[j] = Cardinality(counted'[j]) + 1
                      /\ Peers(j) # {} => j \in Ballots(j, current_term[j])'
    BY DEF CandidateInv, Peers
  <2>1. CASE j = i
    <3>1. counted'[i] = {} /\ vote_count'[i] = 1
      BY <1>1 DEF LogTypeOK
    <3>2. Peers(i) # {} => i \in Ballots(i, current_term[i])'
      <4> SUFFICES ASSUME NEW k \in Peers(i)
                   PROVE  \E m \in rv_req' : m.from = i /\ m.term = current_term'[i]
        BY DEF Ballots, Asked
      <4> DEFINE ask == [from |-> i, to |-> k, term |-> current_term[i] + 1,
                         last_log_index |-> LastIndex(logs[i]),
                         last_log_term |-> LastTerm(logs[i])]
      <4>1. ask \in rv_req'
        BY <1>1, SMTT(20) DEF new
      <4> QED
        BY <1>2, <4>1
    <3> QED
      BY <2>1, <3>1, <3>2, FS_EmptySet, SMTT(20)
  <2>2. CASE j # i
    <3>1. /\ state[j] = "Candidate"
          /\ current_term'[j] = current_term[j]
          /\ vote_count'[j] = vote_count[j]
          /\ counted'[j] = counted[j]
      BY <1>1, <2>2, Zenon DEF LogTypeOK
    <3>2. Ballots(j, current_term[j]) \subseteq Ballots(j, current_term[j])'
      BY <1>1, <3>1 DEF Ballots, Granted, Asked
    <3> QED
      BY <3>1, <3>2, SMTT(20) DEF ElectionInv, CandidateInv
  <2> QED
    BY <2>1, <2>2
<1>12. ElectedInv'
  BY <1>1, ElectedKept DEF ElectionInv
<1> QED
  BY <1>6, <1>7, <1>8, <1>9, <1>10, <1>11, <1>12, SMTT(20) DEF ElectionInv, VoteInv

\* _request_vote keeps the invariant: a vote is granted only to the node the
\* voter has not voted against in that term, and is stored before the reply.
LEMMA HandleRequestVoteKeeps ==
  ASSUME LogTypeOK, LogTypeOK', ElectionInv, NEW m \in rv_req, HandleRequestVote(m)
  PROVE  ElectionInv'
<1> DEFINE i == m.to
           new == [from |-> i, to |-> m.from, req |-> m.term,
                   term |-> current_term'[i], voted |-> Grant(i, m)]
<1>1. i \in Server /\ m.from \in Server /\ m.term \in Nat /\ m.from # i
  BY DEF LogTypeOK, RequestVote, ElectionInv, VoteInv, AskInv
<1>2. /\ state' = [state EXCEPT ![i] = IF Newer(i, m.term) THEN "Follower" ELSE @]
      /\ current_term' = [current_term EXCEPT ![i] = Max({@, m.term})]
      /\ voted_for' = [voted_for EXCEPT ![i] =
                         IF Grant(i, m) THEN m.from ELSE VoteAfter(i, m.term)]
      /\ IF Newer(i, m.term) \/ Grant(i, m) THEN PersistState(i)
         ELSE UNCHANGED diskVars
      /\ rv_rep' = rv_rep \cup {new}
      /\ rv_req' = rv_req
      /\ UNCHANGED voteVars
  BY DEF HandleRequestVote
<1> HIDE DEF i
<1>3. /\ current_term[i] \in Nat
      /\ current_term'[i] \in Nat
      /\ current_term'[i] = IF Newer(i, m.term) THEN m.term ELSE current_term[i]
      /\ voted_for'[i] = IF Grant(i, m) THEN m.from ELSE VoteAfter(i, m.term)
      /\ \A j \in Server \ {i} : /\ current_term'[j] = current_term[j]
                                 /\ voted_for'[j] = voted_for[j]
                                 /\ state'[j] = state[j]
  <2>1. current_term[i] \in Nat
    BY <1>1 DEF LogTypeOK
  <2>2. Max({current_term[i], m.term}) = IF current_term[i] >= m.term
                                         THEN current_term[i] ELSE m.term
    BY <1>1, <2>1, MaxPair, SMTT(20)
  <2>3. current_term'[i] = Max({current_term[i], m.term})
    BY <1>1, <1>2, SMTT(20) DEF LogTypeOK
  <2>4. current_term'[i] = IF Newer(i, m.term) THEN m.term ELSE current_term[i]
    BY <1>1, <2>1, <2>2, <2>3, SMTT(20) DEF Newer
  <2>5. /\ voted_for'[i] = IF Grant(i, m) THEN m.from ELSE VoteAfter(i, m.term)
        /\ \A j \in Server \ {i} : /\ current_term'[j] = current_term[j]
                                   /\ voted_for'[j] = voted_for[j]
                                   /\ state'[j] = state[j]
    BY <1>1, <1>2, Zenon DEF LogTypeOK
  <2> QED
    BY <1>1, <2>1, <2>4, <2>5, SMTT(20)
\* The vote of node i in its own term does not change once it is given.
<1>4. \/ current_term'[i] > current_term[i]
      \/ /\ current_term'[i] = current_term[i]
         /\ voted_for'[i] = voted_for[i] \/ voted_for[i] = Nil
  BY <1>1, <1>3 DEF Newer, Grant, VoteAfter
<1>5. Grant(i, m) => current_term'[i] = m.term /\ voted_for'[i] = m.from
  BY <1>1, <1>3 DEF Newer, Grant
<1>6. \A r \in rv_rep : r.from \in Server /\ r.to \in Server /\ r.req \in Nat
  BY Zenon DEF LogTypeOK, RequestVoteReply
<1>7. \A n \in rv_req : n.from \in Server /\ n.to \in Server /\ n.term \in Nat
  BY Zenon DEF LogTypeOK, RequestVote
<1>8. StoredInv'
  <2>1. CASE Newer(i, m.term) \/ Grant(i, m)
    BY <1>1, <1>2, <1>3, <2>1, PersistStores, Zenon
    DEF ElectionInv, VoteInv, StoredInv, MetaStored
  <2>2. CASE ~(Newer(i, m.term) \/ Grant(i, m))
    BY <1>1, <1>2, <1>3, <2>2, Zenon
    DEF VoteAfter, diskVars, ElectionInv, VoteInv, StoredInv, MetaStored
  <2> QED
    BY <2>1, <2>2
<1>9. AskInv'
  <2> SUFFICES ASSUME NEW n \in rv_req
               PROVE  /\ n.from # n.to
                      /\ n.term <= current_term'[n.from]
                      /\ n.term = current_term'[n.from] => voted_for'[n.from] = n.from
    BY <1>2, Zenon DEF AskInv
  <2>1. /\ n.from # n.to
        /\ n.term <= current_term[n.from]
        /\ n.term = current_term[n.from] => voted_for[n.from] = n.from
    BY DEF ElectionInv, VoteInv, AskInv
  <2>2. n.from \in Server /\ n.from # Nil /\ n.term \in Nat
    BY <1>7, NilAssumption, SMTT(20)
  <2>3. CASE n.from = i
    BY <1>3, <1>4, <2>1, <2>2, <2>3, SMTT(20)
  <2>4. CASE n.from # i
    BY <1>3, <2>1, <2>2, <2>4, SMTT(20)
  <2> QED
    BY <2>3, <2>4
<1>10. GrantInv'
  <2> SUFFICES ASSUME NEW r \in rv_rep', r.voted
               PROVE  /\ r.from # r.to
                      /\ r.term = r.req
                      /\ r.req <= current_term'[r.from]
                      /\ r.req = current_term'[r.from] => voted_for'[r.from] = r.to
    BY Zenon DEF GrantInv
  <2>1. CASE r = new
    <3>1. /\ r.from = i /\ r.to = m.from /\ r.req = m.term
          /\ r.term = current_term'[i] /\ Grant(i, m)
      BY <2>1, Zenon
    <3>2. m.term <= m.term
      BY <1>1
    <3> QED
      BY <1>1, <1>5, <3>1, <3>2, Zenon
  <2>2. CASE r \in rv_rep
    <3>1. /\ r.from # r.to
          /\ r.term = r.req
          /\ r.req <= current_term[r.from]
          /\ r.req = current_term[r.from] => voted_for[r.from] = r.to
      BY <2>2 DEF ElectionInv, VoteInv, GrantInv
    <3>2. r.from \in Server /\ r.to \in Server /\ r.to # Nil /\ r.req \in Nat
      BY <1>6, <2>2, NilAssumption, SMTT(20)
    <3>3. CASE r.from = i
      <4>1. current_term[i] \in Nat /\ current_term'[i] \in Nat
        BY <1>3, Zenon
      <4>2. r.req <= current_term'[i]
        BY <1>4, <3>1, <3>2, <3>3, <4>1, SMTT(20)
      <4>3. CASE current_term'[i] > current_term[i]
        BY <3>1, <3>2, <3>3, <4>1, <4>2, <4>3, SMTT(20)
      <4>4. CASE /\ current_term'[i] = current_term[i]
                 /\ voted_for'[i] = voted_for[i] \/ voted_for[i] = Nil
        BY <3>1, <3>2, <3>3, <4>2, <4>4, Zenon
      <4> QED
        BY <1>4, <4>3, <4>4, Zenon
    <3>4. CASE r.from # i
      BY <1>3, <3>1, <3>2, <3>4, SMTT(20)
    <3> QED
      BY <3>3, <3>4, Zenon
  <2> QED
    BY <1>2, <2>1, <2>2, SMTT(20)
\* An earlier vote of node i in the term of a granted request was for m.from.
<1>11. ASSUME Grant(i, m), NEW r \in rv_rep, r.voted, r.from = i, r.req = m.term
       PROVE  r.to = m.from
  <2>1. r.req <= current_term[i] /\ (r.req = current_term[i] => voted_for[i] = r.to)
    BY <1>11, SMTT(20) DEF ElectionInv, VoteInv, GrantInv
  <2>2. m.term = current_term[i] /\ voted_for[i] = r.to
    BY <1>1, <1>3, <1>11, <2>1, SMTT(20) DEF Grant
  <2>3. voted_for[i] \in {Nil, m.from}
    BY <1>1, <1>3, <1>11, <2>2, SMTT(20) DEF Grant, VoteAfter, Newer
  <2> QED
    BY <1>6, <2>2, <2>3, NilAssumption, SMTT(20)
<1>12. OneVote'
  <2> SUFFICES ASSUME NEW r \in rv_rep', NEW s \in rv_rep',
                      r.voted, s.voted, r.from = s.from, r.req = s.req
               PROVE  r.to = s.to
    BY DEF OneVote
  <2>1. CASE r \in rv_rep /\ s \in rv_rep
    BY <2>1 DEF ElectionInv, VoteInv, OneVote
  <2>2. CASE r = new /\ s \in rv_rep
    BY <1>11, <2>2
  <2>3. CASE r \in rv_rep /\ s = new
    BY <1>11, <2>3, SMTT(20)
  <2> QED
    BY <1>2, <2>1, <2>2, <2>3, SMTT(20)
<1>13. OwnVote'
  <2> SUFFICES ASSUME NEW r \in rv_rep', NEW n \in rv_req, r.voted, r.from = n.from
               PROVE  r.req # n.term
    BY <1>2 DEF OwnVote
  <2>1. CASE r \in rv_rep
    BY <2>1 DEF ElectionInv, VoteInv, OwnVote
  <2>2. CASE r = new
    <3> SUFFICES ASSUME n.term = m.term
                 PROVE  FALSE
      BY <2>2
    <3>1. Grant(i, m) /\ n.from = i
      BY <2>2
    <3>2. /\ n.term <= current_term[i]
          /\ n.term = current_term[i] => voted_for[i] = i
      BY <3>1, SMTT(20) DEF ElectionInv, VoteInv, AskInv
    <3>3. m.term = current_term[i] /\ voted_for[i] = i
      <4>1. current_term[i] \in Nat /\ m.term \in Nat
        BY <1>1, <1>3, Zenon
      <4>2. m.term >= current_term[i]
        BY <3>1, Zenon DEF Grant
      <4>3. m.term = current_term[i]
        BY <3>2, <4>1, <4>2
      <4> QED
        BY <3>2, <4>3, Zenon
    <3>4. i \in {Nil, m.from}
      <4>1. ~(current_term[i] > current_term[i])
        <5>1. current_term[i] \in Nat
          BY <1>3, Zenon
        <5> QED
          BY <5>1
      <4>2. ~Newer(i, m.term)
        BY <3>3, <4>1, Zenon DEF Newer
      <4> QED
        BY <3>1, <3>3, <4>2, Zenon DEF Grant, VoteAfter
    <3> QED
      BY <1>1, <3>4, NilAssumption, SMTT(20)
  <2> QED
    BY <1>2, <2>1, <2>2, SMTT(20)
<1>14. CandidateInv'
  <2> SUFFICES ASSUME NEW j \in Server, state'[j] = "Candidate"
               PROVE  /\ counted'[j] \subseteq Ballots(j, current_term[j])' \ {j}
                      /\ vote_count'[j] = Cardinality(counted'[j]) + 1
                      /\ Peers(j) # {} => j \in Ballots(j, current_term[j])'
    BY DEF CandidateInv, Peers
  <2>1. state[j] = "Candidate" /\ current_term'[j] = current_term[j]
    BY <1>1, <1>2, <1>3, Zenon DEF LogTypeOK
  <2>2. vote_count'[j] = vote_count[j] /\ counted'[j] = counted[j]
    BY <1>2 DEF voteVars
  <2>3. Ballots(j, current_term[j]) \subseteq Ballots(j, current_term[j])'
    BY <1>2, <2>1, Zenon DEF Ballots, Granted, Asked
  <2> QED
    BY <2>1, <2>2, <2>3, SMTT(20) DEF ElectionInv, CandidateInv
<1>15. ElectedInv'
  BY <1>2, ElectedKept DEF ElectionInv, voteVars
<1> QED
  BY <1>8, <1>9, <1>10, <1>12, <1>13, <1>14, <1>15, SMTT(20) DEF ElectionInv, VoteInv

\* Counting a vote keeps the invariant: the count is the number of ballots
\* seen, and it reaches the quorum only with a majority of the servers.
LEMMA VoteResultGrantedKeeps ==
  ASSUME LogTypeOK, ElectionInv, NEW r \in rv_rep, VoteResultGranted(r)
  PROVE  ElectionInv'
<1> DEFINE i == r.to
           t == current_term[i]
           seen == counted[i] \cup {r.from}
<1>1. /\ i \in Server /\ r.from \in Server /\ t \in Nat
      /\ state[i] = "Candidate" /\ r.term = t /\ r.voted
      /\ r.from \notin counted[i]
      /\ vote_count' = [vote_count EXCEPT ![i] = @ + 1]
      /\ IF vote_count'[i] >= Quorum
         THEN StartLeader(i)
         ELSE /\ counted' = [counted EXCEPT ![i] = seen]
              /\ UNCHANGED <<state, leader_id, elected, next_index>>
      /\ UNCHANGED <<current_term, voted_for, diskVars, rvVars>>
  BY SMTT(20) DEF VoteResultGranted, LogTypeOK, RequestVoteReply
<1>2. rv_req' = rv_req /\ rv_rep' = rv_rep /\ meta' = meta
  BY <1>1, Zenon DEF rvVars, diskVars
<1>3. VoteInv'
  BY <1>1, <1>2, Zenon DEF ElectionInv, VoteInv, StoredInv, MetaStored, AskInv,
                    GrantInv, OneVote, OwnVote
<1>4. \A c, u : Ballots(c, u)' = Ballots(c, u)
  BY <1>2 DEF Ballots, Granted, Asked
<1>5. r.from # i /\ r.from \in Ballots(i, t) /\ i \in Ballots(i, t)
  <2>1. r.from # i /\ r.req = t
    BY <1>1, Zenon DEF ElectionInv, VoteInv, GrantInv
  <2>2. r.from \in Ballots(i, t)
    BY <1>1, <2>1, Zenon DEF Ballots, Granted
  <2>3. r.from \in Peers(i)
    BY <1>1, <2>1, Zenon DEF Peers
  <2>4. i \in Ballots(i, t)
    BY <1>1, <2>3, Zenon DEF ElectionInv, CandidateInv
  <2> QED
    BY <2>1, <2>2, <2>4, SMTT(20)
<1>6. /\ counted[i] \subseteq Ballots(i, t) \ {i}
      /\ vote_count[i] = Cardinality(counted[i]) + 1
  BY <1>1 DEF ElectionInv, CandidateInv
<1>7. Ballots(i, t) \subseteq Server
  BY SMTT(20) DEF Ballots
<1>8. IsFiniteSet(Ballots(i, t)) /\ IsFiniteSet(counted[i])
  BY <1>6, <1>7, ServerAssumption, FS_Subset, SMTT(20)
<1>9. /\ Cardinality(counted[i]) \in Nat
      /\ Cardinality(Ballots(i, t)) \in Nat
      /\ Cardinality(Server) \in Nat
  BY <1>8, ServerAssumption, FS_CardinalityType, SMTT(20)
<1>10. IsFiniteSet(seen) /\ Cardinality(seen) = Cardinality(counted[i]) + 1
  BY <1>1, <1>8, FS_AddElement, Zenon
<1>11. vote_count'[i] = Cardinality(seen) + 1
  BY <1>1, <1>6, <1>10 DEF LogTypeOK
<1>12. CandidateInv'
  <2> SUFFICES ASSUME NEW j \in Server, state'[j] = "Candidate"
               PROVE  /\ counted'[j] \subseteq Ballots(j, current_term[j])' \ {j}
                      /\ vote_count'[j] = Cardinality(counted'[j]) + 1
                      /\ Peers(j) # {} => j \in Ballots(j, current_term[j])'
    BY Zenon DEF CandidateInv, Peers
  <2>1. Ballots(j, current_term[j])' = Ballots(j, current_term[j])
    BY <1>1, <1>2, Zenon DEF Ballots, Granted, Asked
  <2>2. CASE j = i
    <3>1. counted'[i] = seen
      <4>1. state \in [Server -> State] /\ counted \in [Server -> SUBSET Server]
        BY Zenon DEF LogTypeOK
      <4>2. ~StartLeader(i)
        BY <1>1, <2>2, <4>1, Zenon DEF StartLeader
      <4>3. counted' = [counted EXCEPT ![i] = seen]
        BY <1>1, <4>2, Zenon
      <4> QED
        BY <1>1, <4>1, <4>3, Zenon
    <3> QED
      BY <1>5, <1>6, <1>11, <2>1, <2>2, <3>1, Zenon
  <2>3. CASE j # i
    <3>1. /\ counted'[j] = counted[j] /\ vote_count'[j] = vote_count[j]
          /\ state[j] = "Candidate"
      <4>1. /\ state \in [Server -> State] /\ counted \in [Server -> SUBSET Server]
            /\ vote_count \in [Server -> Nat]
        BY Zenon DEF LogTypeOK
      <4>2. \/ state' = state
            \/ state' = [state EXCEPT ![i] = "Leader"]
        BY <1>1, Zenon DEF StartLeader
      <4>3. \/ counted' = [counted EXCEPT ![i] = seen]
            \/ counted' = [counted EXCEPT ![i] = {}]
        BY <1>1, Zenon DEF StartLeader
      <4> QED
        <5>1. counted'[j] = counted[j]
          BY <1>1, <2>3, <4>1, <4>3, Zenon
        <5>2. vote_count'[j] = vote_count[j]
          BY <1>1, <2>3, <4>1, Zenon
        <5>3. state'[j] = state[j]
          BY <1>1, <2>3, <4>1, <4>2, Zenon
        <5> QED
          BY <5>1, <5>2, <5>3, Zenon
    <3> QED
      BY <2>1, <3>1, Zenon DEF ElectionInv, CandidateInv
  <2> QED
    BY <2>2, <2>3, Zenon
<1>13. ElectedInv'
  <2>1. CASE ~(vote_count'[i] >= Quorum)
    BY <1>1, <1>2, <2>1, ElectedKept, Zenon DEF ElectionInv
  <2>2. CASE vote_count'[i] >= Quorum
    <3>1. i \notin seen
      BY <1>5, <1>6, SMTT(20)
    <3>2. Cardinality(seen \cup {i}) = Cardinality(seen) + 1
      BY <1>10, <3>1, FS_AddElement, SMTT(20)
    <3>3. seen \cup {i} \subseteq Ballots(i, t)
      BY <1>5, <1>6, SMTT(20)
    <3>4. Cardinality(seen \cup {i}) <= Cardinality(Ballots(i, t))
      BY <1>8, <3>3, FS_Subset, SMTT(20)
    <3>5. Cardinality(Ballots(i, t)) >= Quorum
      <4>1. Quorum \in Nat /\ Cardinality(seen) \in Nat
        BY <1>9, <1>10 DEF Quorum
      <4>2. Cardinality(seen) + 1 >= Quorum
        BY <1>11, <2>2, Zenon
      <4> QED
        BY <1>9, <3>2, <3>4, <4>1, <4>2, SMTT(20)
    <3>6. 2 * Cardinality(Ballots(i, t)) > Cardinality(Server)
      BY <1>9, <3>5, SMTT(20) DEF Quorum
    <3>7. elected' = elected \cup {<<i, t>>}
      BY <1>1, <2>2 DEF StartLeader
    <3> SUFFICES ASSUME NEW e \in elected'
                 PROVE  2 * Cardinality(Ballots(e[1], e[2])') > Cardinality(Server)
      BY DEF ElectedInv
    <3>8. Ballots(e[1], e[2])' = Ballots(e[1], e[2])
      BY <1>2 DEF Ballots, Granted, Asked
    <3>9. CASE e = <<i, t>>
      BY <3>6, <3>8, <3>9, SMTT(20)
    <3>10. CASE e \in elected
      BY <3>8, <3>10 DEF ElectionInv, ElectedInv
    <3> QED
      BY <3>7, <3>9, <3>10, Zenon
  <2> QED
    BY <2>1, <2>2
<1> QED
  BY <1>3, <1>12, <1>13, SMTT(20) DEF ElectionInv

-----------------------------------------------------------------------------
(* The theorems.                                                           *)

\* A step that touches only logs, next_index, the append_entries calls and
\* the file of node i, whose term and vote are stored as they are, is quiet.
LEMMA ReplicationQuiet ==
  ASSUME LogTypeOK, ElectionInv, UNCHANGED <<electionVars, voteVars, rvVars>>,
         UNCHANGED diskVars \/ \E i \in Server : PersistState(i)
  PROVE  QuietStep
<1>1. UNCHANGED <<state, current_term, voted_for, vote_count, counted, elected>>
  BY DEF electionVars, voteVars
<1>2. \A j \in Server :
        /\ meta'[j].current_term = current_term'[j]
        /\ meta'[j].voted_for = voted_for'[j]
  <2>1. CASE UNCHANGED diskVars
    BY <1>1, <2>1, SMTT(20) DEF diskVars, ElectionInv, VoteInv, StoredInv, MetaStored
  <2>2. ASSUME NEW i \in Server, PersistState(i)
        PROVE  \A j \in Server : /\ meta'[j].current_term = current_term'[j]
                                 /\ meta'[j].voted_for = voted_for'[j]
    BY <1>1, <2>2, PersistStores, SMTT(20) DEF ElectionInv, VoteInv
  <2> QED
    BY <2>1, <2>2, SMTT(20)
<1>3. \A j \in Server : QuietAt(j)
  BY <1>1, <1>2 DEF QuietAt
<1> QED
  BY <1>1, <1>3 DEF QuietStep

\* A restart finds the term and the vote of the last handler on disk, or a
\* newer term that had not been voted in.
LEMMA RestartQuiet ==
  ASSUME LogTypeOK, ElectionInv, NEW i \in Server, NEW stored \in CrashMeta(i),
         Restart(i, stored)
  PROVE  QuietStep
<1>1. /\ stored.current_term \in Nat
      /\ \/ stored.current_term > current_term[i]
         \/ /\ stored.current_term = current_term[i]
            /\ stored.voted_for = voted_for[i]
  <2>1. CASE stored = meta[i]
    BY <2>1 DEF LogTypeOK, Metadata, ElectionInv, VoteInv, StoredInv, MetaStored
  <2>2. ASSUME NEW m \in rv_req \cup ae_req, m.term > current_term[i],
               stored = [current_term |-> m.term, voted_for |-> Nil]
        PROVE  stored.current_term \in Nat /\ stored.current_term > current_term[i]
    <3>1. m.term \in Nat
      BY <2>2 DEF LogTypeOK, RequestVote, AppendEntries
    <3> QED
      BY <2>2, <3>1, SMTT(20)
  <2> QED
    BY <2>1, <2>2, SMTT(20) DEF CrashMeta
<1>2. /\ meta' = [meta EXCEPT ![i] = stored]
      /\ state' = [state EXCEPT ![i] = "Follower"]
      /\ current_term' = [current_term EXCEPT ![i] = stored.current_term]
      /\ voted_for' = [voted_for EXCEPT ![i] = stored.voted_for]
      /\ vote_count' = [vote_count EXCEPT ![i] = 0]
      /\ counted' = [counted EXCEPT ![i] = {}]
      /\ UNCHANGED <<elected, rvVars>>
  BY Zenon DEF Restart
<1>3. QuietAt(i)
  <2>1. /\ meta \in [Server -> Metadata] /\ state \in [Server -> State]
        /\ current_term \in [Server -> Nat]
        /\ voted_for \in [Server -> Server \cup {Nil}]
    BY Zenon DEF LogTypeOK
  <2>2. /\ meta'[i] = stored /\ state'[i] = "Follower"
        /\ current_term'[i] = stored.current_term
        /\ voted_for'[i] = stored.voted_for
    BY <1>2, <2>1, Zenon
  <2>3. "Follower" # "Candidate"
    OBVIOUS
  <2> QED
    BY <1>1, <2>2, <2>3, Zenon DEF QuietAt
<1>4. \A j \in Server \ {i} : QuietAt(j)
  BY <1>2, Zenon DEF QuietAt, LogTypeOK, ElectionInv, VoteInv, StoredInv, MetaStored
<1> QED
  BY <1>2, <1>3, <1>4, SMTT(20) DEF QuietStep

\* Every step is quiet but those of start_election, _request_vote and a vote
\* that is counted.
LEMMA QuietCases ==
  ASSUME LogTypeOK, ElectionInv, [LogNext]_logVars
  PROVE  \/ QuietStep
         \/ \E i \in Server : StartElection(i)
         \/ \E m \in rv_req : HandleRequestVote(m)
         \/ \E r \in rv_rep : VoteResultGranted(r)
<1>1. ASSUME NEW r \in rv_rep, VoteResultNewer(r)
      PROVE  QuietStep
  <2>1. r.to \in Server /\ r.term \in Nat
    BY Zenon DEF LogTypeOK, RequestVoteReply
  <2> QED
    BY <1>1, <2>1, BecomeFollowerQuiet, SMTT(20) DEF VoteResultNewer
<1>2. ASSUME NEW i \in Server, NEW cmd \in Command, Submit(i, cmd)
      PROVE  QuietStep
  BY <1>2, ReplicationQuiet, Zenon DEF Submit
<1>3. ASSUME NEW i \in Server, NEW called \in SUBSET Peers(i),
             NEW c \in CommitHint, SendAES(i, called, c)
      PROVE  QuietStep
  BY <1>3, ReplicationQuiet DEF SendAES
<1>4. ASSUME NEW m \in ae_req, AppendStale(m)
      PROVE  QuietStep
  BY <1>4, ReplicationQuiet, Zenon DEF AppendStale
<1>5. ASSUME NEW m \in ae_req, AppendConflict(m)
      PROVE  QuietStep
  BY <1>5, HearLeaderQuiet, SMTT(20) DEF AppendConflict
<1>6. ASSUME NEW m \in ae_req, AppendAccept(m)
      PROVE  QuietStep
  BY <1>6, HearLeaderQuiet, SMTT(20) DEF AppendAccept
<1>7. ASSUME NEW r \in ae_rep, AppendResultNewer(r)
      PROVE  QuietStep
  <2>1. r.to \in Server /\ r.term \in Nat
    BY Zenon DEF LogTypeOK, AppendEntriesReply
  <2> QED
    BY <1>7, <2>1, BecomeFollowerQuiet, SMTT(20) DEF AppendResultNewer, AppendResult
<1>8. ASSUME NEW r \in ae_rep, AppendResultSuccess(r)
      PROVE  QuietStep
  BY <1>8, ReplicationQuiet DEF AppendResultSuccess, AppendResult
<1>9. ASSUME NEW r \in ae_rep, AppendResultConflict(r)
      PROVE  QuietStep
  BY <1>9, ReplicationQuiet DEF AppendResultConflict, AppendResult
<1>10. ASSUME NEW r \in ae_rep, AppendResultLost(r)
       PROVE  QuietStep
  BY <1>10, ReplicationQuiet DEF AppendResultLost, AppendResult
<1>11. ASSUME NEW i \in Server, NEW stored \in CrashMeta(i), Restart(i, stored)
       PROVE  QuietStep
  BY <1>11, RestartQuiet
<1>12. CASE UNCHANGED logVars
  BY <1>12, ReplicationQuiet DEF logVars
<1> QED
  BY <1>1, <1>2, <1>3, <1>4, <1>5, <1>6, <1>7, <1>8, <1>9, <1>10, <1>11, <1>12,
     Zenon DEF LogNext

LEMMA ElectionStep ==
  LogTypeOK /\ LogTypeOK' /\ ElectionInv /\ [LogNext]_logVars => ElectionInv'
<1> SUFFICES ASSUME LogTypeOK, LogTypeOK', ElectionInv, [LogNext]_logVars
             PROVE  ElectionInv'
  OBVIOUS
<1>1. CASE QuietStep
  BY <1>1, QuietKeeps
<1>2. ASSUME NEW i \in Server, StartElection(i)
      PROVE  ElectionInv'
  BY <1>2, StartElectionKeeps
<1>3. ASSUME NEW m \in rv_req, HandleRequestVote(m)
      PROVE  ElectionInv'
  BY <1>3, HandleRequestVoteKeeps
<1>4. ASSUME NEW r \in rv_rep, VoteResultGranted(r)
      PROVE  ElectionInv'
  BY <1>4, VoteResultGrantedKeeps
<1> QED
  BY <1>1, <1>2, <1>3, <1>4, QuietCases, Zenon

LEMMA ElectionInit == LogInit => ElectionInv
<1> SUFFICES ASSUME LogInit
             PROVE  ElectionInv
  OBVIOUS
<1>1. /\ rv_req = {} /\ rv_rep = {} /\ elected = {}
      /\ \A i \in Server : state[i] = "Follower" /\ MetaStored(i)
  BY DEF LogInit, MetaStored
<1>2. VoteInv
  BY <1>1, Zenon DEF VoteInv, StoredInv, AskInv, GrantInv, OneVote, OwnVote
<1>3. CandidateInv /\ ElectedInv
  BY <1>1, Zenon DEF CandidateInv, ElectedInv
<1> QED
  BY <1>2, <1>3 DEF ElectionInv

LEMMA ElectionInvariant == LogSpec => []ElectionInv
BY ElectionInit, ElectionStep, LogTypeCorrect, PTL DEF LogSpec

\* At most one node wins the election of a term, whatever is lost, delayed or
\* crashes: the majorities of two winners share a voter, who voted once,
\* because start_election and _request_vote store the vote before it is sent.
THEOREM ElectionSafe == LogSpec => []ElectionSafety
<1>1. LogTypeOK /\ ElectionInv => ElectionSafety
  <2> SUFFICES ASSUME LogTypeOK, ElectionInv, NEW e \in elected, NEW f \in elected,
                      e[2] = f[2]
               PROVE  e = f
    BY DEF ElectionSafety
  <2> DEFINE B == Ballots(e[1], e[2])
             C == Ballots(f[1], f[2])
  <2>1. B \subseteq Server /\ C \subseteq Server
    BY DEF Ballots
  <2>2. IsFiniteSet(B) /\ IsFiniteSet(C)
    BY <2>1, ServerAssumption, FS_Subset, SMTT(20)
  <2>3. /\ Cardinality(B) \in Nat /\ Cardinality(C) \in Nat
        /\ Cardinality(Server) \in Nat
    BY <2>2, ServerAssumption, FS_CardinalityType, SMTT(20)
  <2>4. /\ 2 * Cardinality(B) > Cardinality(Server)
        /\ 2 * Cardinality(C) > Cardinality(Server)
    BY DEF ElectionInv, ElectedInv
  <2>5. Cardinality(B) + Cardinality(C) > Cardinality(Server)
    BY <2>3, <2>4, SMTT(20)
  <2>6. B \cap C # {}
    BY <2>1, <2>5, ServerAssumption, FS_MajoritiesIntersect, SMTT(20)
  <2>7. PICK q \in Server : q \in B /\ q \in C
    BY <2>1, <2>6
  <2>8. \/ Granted(q, e[1], e[2]) \/ (q = e[1] /\ Asked(e[1], e[2]))
    BY <2>7 DEF Ballots
  <2>9. \/ Granted(q, f[1], e[2]) \/ (q = f[1] /\ Asked(f[1], e[2]))
    BY <2>7 DEF Ballots
  <2>10. e[1] = f[1]
    <3>1. CASE Granted(q, e[1], e[2]) /\ Granted(q, f[1], e[2])
      BY <3>1 DEF Granted, ElectionInv, VoteInv, OneVote
    <3>2. CASE Granted(q, e[1], e[2]) /\ q = f[1] /\ Asked(f[1], e[2])
      BY <3>2 DEF Granted, Asked, ElectionInv, VoteInv, OwnVote
    <3>3. CASE q = e[1] /\ Asked(e[1], e[2]) /\ Granted(q, f[1], e[2])
      BY <3>3 DEF Granted, Asked, ElectionInv, VoteInv, OwnVote
    <3> QED
      BY <2>8, <2>9, <3>1, <3>2, <3>3, Zenon
  <2>11. e \in Server \X Nat /\ f \in Server \X Nat
    BY DEF LogTypeOK
  <2> QED
    BY <2>10, <2>11
<1> QED
  BY <1>1, ElectionInvariant, LogTypeCorrect, PTL

\* Terms are compared as numbers.
LEMMA SameOrLater ==
  ASSUME NEW t \in Nat, NEW u \in Nat, t <= u
  PROVE  t = u \/ u > t
OBVIOUS

\* A vote that was given away is on disk before the candidate can see it
\* (_request_vote awaits persist_state before it returns the reply).
THEOREM VotesDurable == LogSpec => []VoteDurable
<1>1. LogTypeOK /\ ElectionInv => VoteDurable
  <2> SUFFICES ASSUME LogTypeOK, ElectionInv, NEW r \in rv_rep, r.voted
               PROVE  \/ meta[r.from].current_term > r.req
                      \/ /\ meta[r.from].current_term = r.req
                         /\ meta[r.from].voted_for = r.to
    BY Zenon DEF VoteDurable
  <2>1. r.from \in Server /\ r.req \in Nat /\ current_term[r.from] \in Nat
    BY SMTT(20) DEF LogTypeOK, RequestVoteReply
  <2>2. /\ meta[r.from].current_term = current_term[r.from]
        /\ meta[r.from].voted_for = voted_for[r.from]
    BY <2>1, Zenon DEF ElectionInv, VoteInv, StoredInv, MetaStored
  <2>3. /\ r.req <= current_term[r.from]
        /\ r.req = current_term[r.from] => voted_for[r.from] = r.to
    BY Zenon DEF ElectionInv, VoteInv, GrantInv
  <2>4. r.req = current_term[r.from] \/ current_term[r.from] > r.req
    BY <2>1, <2>3, SameOrLater, Zenon
  <2> QED
    BY <2>2, <2>3, <2>4, Zenon
<1> QED
  BY <1>1, ElectionInvariant, LogTypeCorrect, PTL

-----------------------------------------------------------------------------
(* LEADER_ID.                                                              *)

\* A node that keeps its role, term and LEADER_ID, or becomes a follower that
\* knows no leader, keeps the invariant of LEADER_ID.
LEMMA LeaderKept ==
  ASSUME LogTypeOK, LeaderInv, ae_req' \subseteq ae_req, elected' = elected,
         \A i \in Server :
           \/ /\ state'[i] = state[i] /\ current_term'[i] = current_term[i]
              /\ leader_id'[i] = leader_id[i]
           \/ state'[i] = "Follower" /\ leader_id'[i] = Nil
  PROVE  LeaderInv'
<1>1. IsLeaderExact'
  <2>1. "Follower" # "Leader"
    OBVIOUS
  <2>2. \A i \in Server : i # Nil
    BY NilAssumption, Zenon
  <2> QED
    BY <2>1, <2>2, Zenon DEF LeaderInv, IsLeaderExact
<1>2. RedirectCurrent'
  BY Zenon DEF LeaderInv, RedirectCurrent
<1>3. \A i \in Server : state'[i] = "Leader" => <<i, current_term'[i]>> \in elected'
  <2>1. "Follower" # "Leader"
    OBVIOUS
  <2> QED
    BY <2>1, Zenon DEF LeaderInv
<1>4. \A m \in ae_req' : m.from # m.to /\ <<m.from, m.term>> \in elected'
  BY Zenon DEF LeaderInv
<1> QED
  BY <1>1, <1>2, <1>3, <1>4, Zenon DEF LeaderInv

\* A term that is not newer is not later.
LEMMA NotNewer ==
  ASSUME NEW i, NEW t \in Nat, current_term[i] \in Nat, ~Newer(i, t)
  PROVE  current_term[i] >= t
  BY DEF Newer

\* A node that wins an election sets LEADER_ID to its own id.
LEMMA WinnerLeads ==
  ASSUME LeaderInv, NEW i \in Server, ae_req' = ae_req, current_term' = current_term,
         state'[i] = "Leader", leader_id'[i] = i,
         elected' = elected \cup {<<i, current_term[i]>>},
         \A j \in Server \ {i} : state'[j] = state[j] /\ leader_id'[j] = leader_id[j]
  PROVE  LeaderInv'
<1>1. IsLeaderExact'
  BY Zenon DEF LeaderInv, IsLeaderExact
<1>2. RedirectCurrent'
  <2>1. ASSUME NEW j \in Server, state'[j] = "Follower", leader_id'[j] # Nil
        PROVE  <<leader_id'[j], current_term'[j]>> \in elected'
    <3>1. j # i
      BY <2>1
    <3>2. <<leader_id[j], current_term[j]>> \in elected
      BY <2>1, <3>1, Zenon DEF LeaderInv, RedirectCurrent
    <3> QED
      BY <3>1, <3>2, Zenon
  <2> QED
    BY <2>1, Zenon DEF RedirectCurrent
<1>3. \A j \in Server : state'[j] = "Leader" => <<j, current_term'[j]>> \in elected'
  BY Zenon DEF LeaderInv
<1>4. \A n \in ae_req' : n.from # n.to /\ <<n.from, n.term>> \in elected'
  BY Zenon DEF LeaderInv
<1> QED
  BY <1>1, <1>2, <1>3, <1>4, Zenon DEF LeaderInv

\* become_follower clears LEADER_ID.
LEMMA BecomeFollowerClears ==
  ASSUME LogTypeOK, LeaderInv, NEW i \in Server, NEW term, BecomeFollower(i, term),
         ae_req' = ae_req, UNCHANGED voteVars
  PROVE  LeaderInv'
<1>1. \A j \in Server :
        \/ /\ state'[j] = state[j] /\ current_term'[j] = current_term[j]
           /\ leader_id'[j] = leader_id[j]
        \/ state'[j] = "Follower" /\ leader_id'[j] = Nil
  BY Zenon DEF BecomeFollower, LogTypeOK
<1> QED
  BY <1>1, LeaderKept, Zenon DEF voteVars

\* append_entries sets LEADER_ID of a follower to the sender, which won the
\* election of the term the follower is then in.
LEMMA HearLeaderKeeps ==
  ASSUME LogTypeOK, LeaderInv, NEW m \in ae_req, HearLeader(m),
         ae_req' \subseteq ae_req
  PROVE  LeaderInv'
<1> DEFINE i == m.to
<1>1. /\ i \in Server /\ m.from \in Server /\ m.term \in Nat
      /\ m.from # i /\ <<m.from, m.term>> \in elected
      /\ current_term[i] \in Nat
  BY Zenon DEF LogTypeOK, AppendEntries, LeaderInv
<1>2. /\ m.term >= current_term[i]
      /\ state' = [state EXCEPT ![i] = IF Newer(i, m.term) THEN "Follower" ELSE @]
      /\ current_term' = [current_term EXCEPT ![i] = m.term]
      /\ leader_id' = [leader_id EXCEPT ![i] =
                         IF state'[i] = "Follower" THEN m.from ELSE @]
      /\ elected' = elected
  BY SMTT(20) DEF HearLeader, NotStale, voteVars
<1> HIDE DEF i
<1>3. \A j \in Server \ {i} : /\ state'[j] = state[j]
                              /\ current_term'[j] = current_term[j]
                              /\ leader_id'[j] = leader_id[j]
  BY <1>1, <1>2, Zenon DEF LogTypeOK
<1>4. /\ current_term'[i] = m.term
      /\ \/ state'[i] = "Follower" /\ leader_id'[i] = m.from
         \/ /\ state'[i] = state[i] /\ state[i] # "Follower"
            /\ leader_id'[i] = leader_id[i] /\ m.term = current_term[i]
  <2>1. /\ state \in [Server -> State] /\ current_term \in [Server -> Nat]
        /\ leader_id \in [Server -> Server \cup {Nil}]
    BY Zenon DEF LogTypeOK
  <2>2. /\ current_term'[i] = m.term
        /\ state'[i] = IF Newer(i, m.term) THEN "Follower" ELSE state[i]
        /\ leader_id'[i] = IF state'[i] = "Follower" THEN m.from ELSE leader_id[i]
    BY <1>1, <1>2, <2>1, Zenon
  <2>3. ~Newer(i, m.term) => m.term = current_term[i]
    BY <1>1, <1>2 DEF Newer
  <2> QED
    BY <2>2, <2>3, Zenon
<1>5. IsLeaderExact'
  <2>1. leader_id'[i] = i <=> state'[i] = "Leader"
    BY <1>1, <1>4, SMTT(20) DEF LeaderInv, IsLeaderExact
  <2> QED
    BY <1>3, <2>1, SMTT(20) DEF LeaderInv, IsLeaderExact
<1>6. RedirectCurrent'
  <2>1. state'[i] = "Follower" => <<leader_id'[i], current_term'[i]>> \in elected'
    <3>1. CASE state'[i] = "Follower" /\ leader_id'[i] = m.from
      BY <1>1, <1>2, <1>4, <3>1
    <3>2. CASE state'[i] = state[i] /\ state[i] # "Follower"
      BY <3>2, Zenon
    <3> QED
      BY <1>4, <3>1, <3>2, Zenon
  <2> SUFFICES ASSUME NEW j \in Server, state'[j] = "Follower", leader_id'[j] # Nil
               PROVE  <<leader_id'[j], current_term'[j]>> \in elected'
    BY Zenon DEF RedirectCurrent
  <2>2. CASE j = i
    BY <2>1, <2>2, Zenon
  <2>3. CASE j # i
    <3>1. /\ state'[j] = state[j] /\ current_term'[j] = current_term[j]
          /\ leader_id'[j] = leader_id[j]
      BY <1>3, <2>3, Zenon
    <3>2. <<leader_id[j], current_term[j]>> \in elected
      BY <3>1, Zenon DEF LeaderInv, RedirectCurrent
    <3> QED
      BY <1>2, <3>1, <3>2
  <2> QED
    BY <2>2, <2>3, Zenon
<1>7. \A j \in Server : state'[j] = "Leader" => <<j, current_term'[j]>> \in elected'
  <2> SUFFICES ASSUME NEW j \in Server, state'[j] = "Leader"
               PROVE  <<j, current_term'[j]>> \in elected'
    BY Zenon
  <2>1. CASE j = i
    <3>1. state[i] = "Leader" /\ current_term'[i] = current_term[i]
      <4>1. "Follower" # "Leader"
        OBVIOUS
      <4> QED
        BY <1>4, <2>1, <4>1, Zenon
    <3>2. <<i, current_term[i]>> \in elected
      BY <1>1, <3>1, Zenon DEF LeaderInv
    <3> QED
      BY <1>2, <2>1, <3>1, <3>2
  <2>2. CASE j # i
    <3>1. state'[j] = state[j] /\ current_term'[j] = current_term[j]
      BY <1>3, <2>2, Zenon
    <3>2. <<j, current_term[j]>> \in elected
      BY <3>1, Zenon DEF LeaderInv
    <3> QED
      BY <1>2, <3>1, <3>2
  <2> QED
    BY <2>1, <2>2, Zenon
<1>8. \A n \in ae_req' : n.from # n.to /\ <<n.from, n.term>> \in elected'
  BY <1>2, Zenon DEF LeaderInv
<1> QED
  BY <1>5, <1>6, <1>7, <1>8, Zenon DEF LeaderInv

LEMMA LeaderStep ==
  LogTypeOK /\ LeaderInv /\ [LogNext]_logVars => LeaderInv'
<1> SUFFICES ASSUME LogTypeOK, LeaderInv, [LogNext]_logVars
             PROVE  LeaderInv'
  BY SMTT(20)
<1>1. ASSUME NEW i \in Server, StartElection(i)
      PROVE  LeaderInv'
  <2>1. /\ state[i] # "Leader"
        /\ state' = [state EXCEPT ![i] = "Candidate"]
        /\ current_term' = [current_term EXCEPT ![i] = @ + 1]
        /\ leader_id' = leader_id /\ elected' = elected /\ ae_req' = ae_req
    BY <1>1, Zenon DEF StartElection, aeVars
  <2>2. /\ state'[i] = "Candidate"
        /\ \A j \in Server \ {i} : /\ state'[j] = state[j]
                                   /\ current_term'[j] = current_term[j]
    BY <2>1, SMTT(20) DEF LogTypeOK
  <2>3. "Candidate" # "Leader" /\ "Candidate" # "Follower"
    OBVIOUS
  <2>4. IsLeaderExact'
    BY <2>1, <2>2, <2>3, Zenon DEF LeaderInv, IsLeaderExact
  <2>5. RedirectCurrent'
    <3> SUFFICES ASSUME NEW j \in Server, state'[j] = "Follower", leader_id'[j] # Nil
                 PROVE  <<leader_id'[j], current_term'[j]>> \in elected'
      BY Zenon DEF RedirectCurrent
    <3>1. j # i
      BY <2>2, <2>3, Zenon
    <3>2. <<leader_id[j], current_term[j]>> \in elected
      BY <2>1, <2>2, <3>1, Zenon DEF LeaderInv, RedirectCurrent
    <3>3. /\ leader_id'[j] = leader_id[j] /\ current_term'[j] = current_term[j]
          /\ elected' = elected
      BY <2>1, <2>2, <3>1, Zenon
    <3> QED
      BY <3>2, <3>3, Zenon
  <2>6. \A j \in Server : state'[j] = "Leader" => <<j, current_term'[j]>> \in elected'
    <3> SUFFICES ASSUME NEW j \in Server, state'[j] = "Leader"
                 PROVE  <<j, current_term'[j]>> \in elected'
      BY Zenon
    <3>1. j # i
      BY <2>2, <2>3, Zenon
    <3>2. <<j, current_term[j]>> \in elected
      BY <2>2, <3>1, Zenon DEF LeaderInv
    <3>3. current_term'[j] = current_term[j] /\ elected' = elected
      BY <2>1, <2>2, <3>1, Zenon
    <3> QED
      BY <3>2, <3>3, Zenon
  <2> QED
    BY <2>1, <2>4, <2>5, <2>6, Zenon DEF LeaderInv
<1>2. ASSUME NEW m \in rv_req, HandleRequestVote(m)
      PROVE  LeaderInv'
  <2>1. /\ state' = [state EXCEPT ![m.to] =
                       IF Newer(m.to, m.term) THEN "Follower" ELSE @]
        /\ current_term' = [current_term EXCEPT ![m.to] = Max({@, m.term})]
        /\ leader_id' = [leader_id EXCEPT ![m.to] = LeaderAfter(m.to, m.term)]
        /\ elected' = elected /\ ae_req' = ae_req
    BY <1>2 DEF HandleRequestVote, voteVars, aeVars
  <2>2. m.to \in Server /\ m.term \in Nat
    BY Zenon DEF LogTypeOK, RequestVote
  <2>3. current_term[m.to] \in Nat
    BY <2>2 DEF LogTypeOK
  <2>4. current_term'[m.to] = Max({current_term[m.to], m.term})
    BY <2>1, <2>2, Zenon DEF LogTypeOK
  <2>5. Max({current_term[m.to], m.term}) =
          IF current_term[m.to] >= m.term THEN current_term[m.to] ELSE m.term
    BY <2>2, <2>3, MaxPair, SMTT(20)
  <2>6. \/ /\ state'[m.to] = state[m.to]
           /\ current_term'[m.to] = current_term[m.to]
           /\ leader_id'[m.to] = leader_id[m.to]
        \/ state'[m.to] = "Follower" /\ leader_id'[m.to] = Nil
    <3>1. /\ state'[m.to] = IF Newer(m.to, m.term) THEN "Follower" ELSE state[m.to]
          /\ leader_id'[m.to] = LeaderAfter(m.to, m.term)
      BY <2>1, <2>2, Zenon DEF LogTypeOK
    <3>2. CASE Newer(m.to, m.term)
      BY <3>1, <3>2, Zenon DEF LeaderAfter
    <3>3. CASE ~Newer(m.to, m.term)
      <4>1. current_term[m.to] >= m.term
        BY <2>2, <2>3, <3>3, NotNewer, Zenon
      <4> QED
        BY <2>4, <2>5, <3>1, <3>3, <4>1, Zenon DEF LeaderAfter
    <3> QED
      BY <3>2, <3>3, Zenon
  <2>7. \A j \in Server \ {m.to} : /\ state'[j] = state[j]
                                   /\ current_term'[j] = current_term[j]
                                   /\ leader_id'[j] = leader_id[j]
    BY <2>1, <2>2, Zenon DEF LogTypeOK
  <2> QED
    BY <2>1, <2>2, <2>6, <2>7, LeaderKept, Zenon
<1>3. ASSUME NEW r \in rv_rep, VoteResultNewer(r)
      PROVE  LeaderInv'
  BY <1>3, BecomeFollowerClears, Zenon DEF VoteResultNewer, LogTypeOK, RequestVoteReply, aeVars
<1>4. ASSUME NEW r \in rv_rep, VoteResultGranted(r)
      PROVE  LeaderInv'
  <2>1. r.to \in Server /\ ae_req' = ae_req /\ current_term' = current_term
    BY <1>4, Zenon DEF VoteResultGranted, LogTypeOK, RequestVoteReply, aeVars
  <2>2. CASE StartLeader(r.to)
    <3>1. /\ state' = [state EXCEPT ![r.to] = "Leader"]
          /\ leader_id' = [leader_id EXCEPT ![r.to] = r.to]
          /\ elected' = elected \cup {<<r.to, current_term[r.to]>>}
      BY <2>2, SMTT(20) DEF StartLeader
    <3>2. /\ state'[r.to] = "Leader" /\ leader_id'[r.to] = r.to
          /\ \A j \in Server \ {r.to} : /\ state'[j] = state[j]
                                        /\ leader_id'[j] = leader_id[j]
      BY <2>1, <3>1, SMTT(20) DEF LogTypeOK
    <3> QED
      BY <2>1, <3>1, <3>2, WinnerLeads, Zenon
  <2>3. CASE UNCHANGED <<state, leader_id, elected, next_index>>
    BY <2>1, <2>3, LeaderKept, SMTT(20)
  <2> QED
    BY <1>4, <2>2, <2>3, Zenon DEF VoteResultGranted
<1>5. ASSUME NEW i \in Server, NEW cmd \in Command, Submit(i, cmd)
      PROVE  LeaderInv'
  BY <1>5, LeaderKept, Zenon DEF Submit, electionVars, voteVars, aeVars
<1>6. ASSUME NEW i \in Server, NEW called \in SUBSET Peers(i),
             NEW c \in CommitHint, SendAES(i, called, c)
      PROVE  LeaderInv'
  <2>1. /\ UNCHANGED <<state, current_term, leader_id, elected>>
        /\ state[i] = "Leader"
    BY <1>6 DEF SendAES, electionVars, voteVars
  <2>2. \A m \in ae_req' : \/ m \in ae_req
                           \/ m.from = i /\ m.to # i /\ m.term = current_term[i]
    <3> DEFINE ni(j) == Min({next_index[i][j], Len(logs[i])})
               new(j) == [from |-> i, to |-> j, term |-> current_term[i],
                          prev_log_index |-> ni(j) - 1,
                          prev_log_term |-> IF ni(j) = 0 THEN None
                                            ELSE logs[i][ni(j)].term,
                          entries |-> SubSeq(logs[i], ni(j) + 1, Len(logs[i])),
                          leader_commit |-> c]
    <3>1. ae_req' = ae_req \cup {new(j) : j \in called}
      BY <1>6 DEF SendAES
    <3>2. \A j \in called : /\ new(j).from = i /\ new(j).to = j
                            /\ new(j).term = current_term[i] /\ j # i
      BY Zenon DEF Peers
    <3> HIDE DEF new
    <3>3. ASSUME NEW m \in ae_req', m \notin ae_req
          PROVE  m.from = i /\ m.to # i /\ m.term = current_term[i]
      <4>1. PICK j \in called : m = new(j)
        BY <3>1, <3>3, Zenon
      <4> QED
        BY <3>2, <4>1, Zenon
    <3> QED
      BY <3>3, Zenon
  <2>3. \A m \in ae_req' : m.from # m.to /\ <<m.from, m.term>> \in elected
    BY <2>1, <2>2, Zenon DEF LeaderInv
  <2> QED
    BY <2>1, <2>3, Zenon DEF LeaderInv, IsLeaderExact, RedirectCurrent
<1>7. ASSUME NEW m \in ae_req, AppendStale(m)
      PROVE  LeaderInv'
  BY <1>7, LeaderKept, Zenon DEF AppendStale, AppendReply, electionVars, voteVars
<1>8. ASSUME NEW m \in ae_req, AppendConflict(m)
      PROVE  LeaderInv'
  BY <1>8, HearLeaderKeeps, Zenon DEF AppendConflict, AppendReply
<1>9. ASSUME NEW m \in ae_req, AppendAccept(m)
      PROVE  LeaderInv'
  BY <1>9, HearLeaderKeeps, Zenon DEF AppendAccept, AppendReply
<1>10. ASSUME NEW r \in ae_rep, AppendResultNewer(r)
       PROVE  LeaderInv'
  BY <1>10, BecomeFollowerClears, Zenon
  DEF AppendResultNewer, AppendResult, LogTypeOK, AppendEntriesReply
<1>11. ASSUME NEW r \in ae_rep,
              AppendResultSuccess(r) \/ AppendResultConflict(r) \/ AppendResultLost(r)
       PROVE  LeaderInv'
  BY <1>11, LeaderKept DEF AppendResultSuccess, AppendResultConflict,
                           AppendResultLost, AppendResult, electionVars, voteVars
<1>12. ASSUME NEW i \in Server, NEW stored \in CrashMeta(i), Restart(i, stored)
       PROVE  LeaderInv'
  <2>1. \A j \in Server :
          \/ /\ state'[j] = state[j] /\ current_term'[j] = current_term[j]
             /\ leader_id'[j] = leader_id[j]
          \/ state'[j] = "Follower" /\ leader_id'[j] = Nil
    BY <1>12, Zenon DEF Restart, LogTypeOK
  <2> QED
    BY <1>12, <2>1, LeaderKept, Zenon DEF Restart
<1>13. CASE UNCHANGED logVars
  BY <1>13, LeaderKept, Zenon DEF logVars, electionVars, voteVars, aeVars
<1> QED
  BY <1>1, <1>2, <1>3, <1>4, <1>5, <1>6, <1>7, <1>8, <1>9, <1>10, <1>11, <1>12,
     <1>13 DEF LogNext

LEMMA LeaderInvariant == LogSpec => []LeaderInv
<1>1. LogInit => LeaderInv
  <2> SUFFICES ASSUME LogInit
               PROVE  LeaderInv
    OBVIOUS
  <2>1. /\ \A i \in Server : state[i] = "Follower" /\ leader_id[i] = Nil
        /\ ae_req = {}
    BY Zenon DEF LogInit
  <2>2. "Follower" # "Leader"
    OBVIOUS
  <2>3. IsLeaderExact
    BY <2>1, <2>2, NilAssumption, Zenon DEF IsLeaderExact
  <2> QED
    BY <2>1, <2>2, <2>3, Zenon DEF LeaderInv, RedirectCurrent
<1> QED
  BY <1>1, LeaderStep, LogTypeCorrect, PTL DEF LogSpec

\* is_leader(), the gate of every write command, is true exactly on a node
\* that leads: become_follower and start_leader change role and LEADER_ID
\* together, and no request makes a node name itself.
THEOREM IsLeaderCorrect == LogSpec => []IsLeaderExact
<1>1. LeaderInv => IsLeaderExact
  BY Zenon DEF LeaderInv
<1> QED
  BY <1>1, LeaderInvariant, PTL

\* A follower redirects to the winner of the term it is in: _append_entries
\* sets LEADER_ID only from a request of that term, and become_follower
\* clears it when the term changes.
THEOREM RedirectCorrect == LogSpec => []RedirectCurrent
<1>1. LeaderInv => RedirectCurrent
  BY Zenon DEF LeaderInv
<1> QED
  BY <1>1, LeaderInvariant, PTL

\* At most one node of the whole system wins the election of a term, and a
\* write command passes the is_leader() gate exactly where the actor leads.
THEOREM ActorElectsOne ==
  ASSUME AnyHint
  PROVE  Spec => [](ElectionSafety /\ IsLeaderExact)
BY ActorRefines, ElectionSafe, IsLeaderCorrect, PTL DEF LogSpec, LogStep

=============================================================================
