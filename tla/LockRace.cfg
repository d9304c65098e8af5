CONSTANTS
    j1 = j1
    j2 = j2
    sqlite = sqlite
    vectors = vectors
    Missing = Missing
    Empty = Empty
    Torn = Torn
    NoHash = NoHash
    NoStamp = NoStamp
    LockFile = LockFile
    Sqlite = sqlite
    Parts <- TwoParts
    Jobs <- TwoJobs
    Cli <- NoJob
    Failing <- NoFailure
    Server = FALSE
    Limit = 2
    MaxTime = 2
    MaxWrites = 0
    MaxFaults = 0
SPECIFICATION Spec
INVARIANTS
    OneOperationAtATime
