SPECIFICATION Spec
CONSTANTS
    Node = {n1, n2}
    Reader = {r1}
    k1 = k1
    k2 = k2
    Key = {k1, k2}
    Cmds <- MCCmds
    MaxCmds = 4
    MaxTime = 1
    MaxReads = 1
    Dim = 1
    Ids = {a, b, c}
    Vecs <- MCVecs
    Dist <- MCDist
    MaxK = 2
    MaxDeletes = 2
    Chan = {ch1, ch2}
    Sub = {s1, s2}
    ChanCap = 1
    QueueCap = 2
    MaxPublished = 3
    MaxLen = 3
    Alphabet = {"a", " ", "\"", "\\", ",", "[", "]", "{", "}", "(", ")", "=", "None"}
INVARIANTS
    ReplicasAgree
    ReadsCommitted
    
    RowsRight
    NoGap
    
PROPERTIES
    AllApplied
    
    
CHECK_DEADLOCK FALSE
