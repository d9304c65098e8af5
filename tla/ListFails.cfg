CONSTANTS
    j1 = j1
    j2 = j2
    sqlite = sqlite
    vectors = vectors
    Missing = Missing
    Empty = Empty
    Torn = Torn
    NoHash = NoHash
    NoStamp = NoStamp
    LockFile = LockFile
    Sqlite = sqlite
    Parts <- TwoParts
    Jobs <- OneJob
    Cli <- NoJob
    Failing <- ListFailure
    Server = FALSE
    Limit = 2
    MaxTime = 2
    MaxWrites = 1
    MaxFaults = 1
SPECIFICATION Spec
INVARIANTS
    OldDbOnDisk
