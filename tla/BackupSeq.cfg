CONSTANTS
    j1 = j1
    j2 = j2
    sqlite = sqlite
    vectors = vectors
    Missing = Missing
    Empty = Empty
    Torn = Torn
    NoHash = NoHash
    NoStamp = NoStamp
    LockFile = LockFile
    Sqlite = sqlite
    Parts <- TwoParts
    Jobs <- OneJob
    Cli <- NoJob
    Failing <- RecoverableFailures
    Server = FALSE
    Limit = 2
    MaxTime = 4
    MaxWrites = 1
    MaxFaults = 2
SPECIFICATION Spec
INVARIANTS
    TypeOK
    OldDbOnDisk
    CompletedIsUsable
PROPERTIES
    RestoreIsAllOrNothing
    UsableBackupRemains
