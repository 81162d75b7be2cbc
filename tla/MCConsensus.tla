---------------------------- MODULE MCConsensus ----------------------------
(* TLC instances of Consensus.                                             *)
EXTENDS Consensus, TLC

CONSTANT First  \* a node

\* Every commit_index a leader can have.
CommitIndexes == -1..(MaxLog - 1)

\* Nodes and commands are interchangeable: no action orders or names them.
Symmetry == Permutations(Server) \cup Permutations(Command)

-----------------------------------------------------------------------------
(* The cluster in a state that takes a dozen steps to reach: First won     *)
(* the election of term 1, called every other node while its log was       *)
(* empty, accepted MaxLog commands, and then got the replies.              *)

Others == Server \ {First}
LedSymmetry == Permutations(Others) \cup Permutations(Command)

AtFirst(a, b) == [i \in Server |-> IF i = First THEN a ELSE b]

LedInit ==
  \E log \in [1..MaxLog -> [term : {1}, command : Command]] :
    /\ state = AtFirst("Leader", "Follower")
    /\ current_term = [i \in Server |-> 1]
    /\ voted_for = [i \in Server |-> First]
    /\ leader_id = [i \in Server |-> First]
    /\ vote_count = AtFirst(Quorum, 0)
    /\ counted = [i \in Server |-> {}]
    /\ elected = {<<First, 1>>}
    /\ logs = AtFirst(log, <<>>)
    /\ next_index = AtFirst([j \in Server |-> IF j = First THEN 0 ELSE MaxLog],
                            [j \in Server |-> 0])
    /\ meta = [i \in Server |-> [current_term |-> 1, voted_for |-> First]]
    /\ log_disk = AtFirst({log[k] : k \in 1..MaxLog}, {})
    /\ last_persisted_log = AtFirst(MaxLog - 1, 0)
    /\ rv_req = {[from |-> First, to |-> j, term |-> 1,
                  last_log_index |-> 0, last_log_term |-> 0] : j \in Others}
    /\ rv_rep = {[from |-> j, to |-> First, req |-> 1,
                  term |-> 1, voted |-> TRUE] : j \in Others}
    /\ ae_req = {} /\ ae_rep = {}
    /\ boot_term = [i \in Server |-> 0]
    /\ restarts = 0
    /\ match_index = AtFirst([j \in Server |-> IF j = First THEN 0 ELSE MaxLog - 1],
                             [j \in Server |-> 0])
    /\ commit_index = AtFirst(MaxLog - 1, None)
    /\ send_commit = AtFirst(TRUE, FALSE)
    /\ last_applied = [i \in Server |-> None]
    /\ commit_chan = [i \in Server |-> <<>>]
    /\ applied_disk = [i \in Server |-> None]
    /\ panicked = [i \in Server |-> FALSE]

LedSpec == LedInit /\ [][Next]_vars
LedFairSpec == LedSpec /\ Fairness

=============================================================================
