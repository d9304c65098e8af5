CONSTANTS
    j1 = j1
    j2 = j2
    sqlite = sqlite
    vectors = vectors
    Missing = Missing
    Empty = Empty
    Torn = Torn
    NoHash = NoHash
    NoStamp = NoStamp
    LockFile = LockFile
    Sqlite = sqlite
    Parts <- OnePart
    Jobs <- TwoJobs
    Cli <- OneJob
    Failing <- AnyFailure
    Server = TRUE
    Limit = 1
    MaxTime = 1
    MaxWrites = 0
    MaxFaults = 1
SPECIFICATION FairSpec
PROPERTIES
    OperationEnds
