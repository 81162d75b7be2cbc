SPECIFICATION LedSpec
CONSTANTS
  n1 = n1
  n2 = n2
  c1 = c1
  First = n1
  Server = {n1, n2}
  Command = {c1}
  Nil = Nil
  CommitHint <- CommitIndexes
  MaxTerm = 3
  MaxElections = 3
  MaxLog = 2
  MaxRestarts = 1
  MaxCalls = 1
INVARIANTS StreamContiguous
CHECK_DEADLOCK FALSE
