SPECIFICATION Spec
CONSTANTS
  n1 = n1
  n2 = n2
  n3 = n3
  c1 = c1
  c2 = c2
  First = n1
  Server = {n1, n2, n3}
  Command = {c1, c2}
  Nil = Nil
  CommitHint <- CommitIndexes
  MaxTerm = 2
  MaxElections = 2
  MaxLog = 1
  MaxRestarts = 0
  MaxCalls = 1
SYMMETRY Symmetry
INVARIANTS StateMachineSafety
CHECK_DEADLOCK FALSE
