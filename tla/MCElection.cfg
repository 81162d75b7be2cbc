SPECIFICATION LogSpec
CONSTANTS
  n1 = n1
  n2 = n2
  n3 = n3
  c1 = c1
  Server = {n1, n2, n3}
  Command = {c1}
  Nil = Nil
  CommitHint = {0}
  MaxTerm = 2
  MaxElections = 3
  MaxLog = 0
  MaxRestarts = 1
  MaxCalls = 1
SYMMETRY Symmetry
INVARIANTS ElectionSafety IsLeaderExact RedirectCurrent VoteDurable
CHECK_DEADLOCK FALSE
