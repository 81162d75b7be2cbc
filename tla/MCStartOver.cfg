SPECIFICATION Spec
CONSTANTS
  n1 = n1
  n2 = n2
  c1 = c1
  First = n1
  Server = {n1, n2}
  Command = {c1}
  Nil = Nil
  CommitHint <- CommitIndexes
  MaxTerm = 2
  MaxElections = 2
  MaxLog = 2
  MaxRestarts = 1
  MaxCalls = 1
INVARIANTS StreamFromStart
CHECK_DEADLOCK FALSE
