SPECIFICATION Spec
CONSTANTS
    Timeouts = {2, 3}
    Heartbeat = 1
    FirstDelay = 3
    MaxHeard = 4
    Limit = 2
    SyncEvery = 2
    MaxHandled = 4
    MaxLog = 4
    MaxTruncs = 1
    MaxStorageCrashes = 2
    MaxWriteErrors = 1
    MaxTorn = 1
    Blocks = 2
    MaxWrites = 4
    MaxSaveErrors = 2
    MaxBackupCrashes = 2
    Conn = {c1, c2, c3}
    MaxConnections = 2
    MaxBackoff = 2
    MaxAcceptErrors = 4
INVARIANTS
    TimersRight
    MetadataCacheRight
    BackupWhole
    
    PermitsAccounted
PROPERTIES
    StandsAgain
    LeaderBeats
    
    EventuallyWritten
    
    StopReturns
CHECK_DEADLOCK FALSE
