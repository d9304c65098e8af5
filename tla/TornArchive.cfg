CONSTANTS
    j1 = j1
    j2 = j2
    sqlite = sqlite
    vectors = vectors
    Missing = Missing
    Empty = Empty
    Torn = Torn
    NoHash = NoHash
    NoStamp = NoStamp
    LockFile = LockFile
    Sqlite = sqlite
    Parts <- TwoParts
    Jobs <- OneJob
    Cli <- NoJob
    Failing <- NoFailure
    Server = FALSE
    Limit = 1
    MaxTime = 1
    MaxWrites = 1
    MaxFaults = 0
SPECIFICATION Spec
INVARIANTS
    ArchivesConsistent
