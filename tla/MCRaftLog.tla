----------------------------- MODULE MCRaftLog -----------------------------
(* TLC instances of RaftLog.                                               *)
EXTENDS RaftLog, TLC

\* Nodes are interchangeable: no action orders or names them.
Symmetry == Permutations(Server)

=============================================================================
