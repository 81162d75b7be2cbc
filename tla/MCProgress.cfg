SPECIFICATION LedFairSpec
CONSTANTS
  n1 = n1
  n2 = n2
  n3 = n3
  c1 = c1
  First = n1
  Server = {n1, n2, n3}
  Command = {c1}
  Nil = Nil
  CommitHint <- CommitIndexes
  MaxTerm = 1
  MaxElections = 1
  MaxLog = 2
  MaxRestarts = 0
  MaxCalls = 2
PROPERTIES AcceptedIsApplied
CHECK_DEADLOCK FALSE
