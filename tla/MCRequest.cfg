SPECIFICATION Spec
CONSTANTS
    Client = {c1, c2}
    Single = c1
    Other = other
    MailboxCap = 8
    CommitCap = 1
    RelayCap = 1
    MaxCalls = 2
    MaxTimeouts = 2
    MaxChanges = 1
    MaxForeign = 2
    Call = {r1, r2}
    Kinds = {"read", "write", "bad", "stream", "badstream"}
    Texts = {"plain", "done", "exit"}
    Cluster = TRUE
    InboxCap = 1
    MaxItems = 2
    MaxLosses = 1
    MaxDrops = 1
INVARIANTS
    AppliedIncreasing
    
    OwnAnswerUnlessShared
    
    SentOnce
PROPERTIES
    CallsReturn
    
    
    ImplementsRpcCall
CHECK_DEADLOCK FALSE
