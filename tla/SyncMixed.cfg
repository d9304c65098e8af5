CONSTANTS
    s1 = s1
    s2 = s2
    a = a
    b = b
    c = c
    v1 = v1
    v2 = v2
    blank = blank
    SettingsParser = "manual"
    Absent = Absent
    NoEntry = NoEntry
    NoHash = NoHash
    NoTarget = NoTarget
    JobKinds <- AllJobs
    Sessions <- OneSession
    Paths <- ThreePaths
    Contents <- WithBlank
    Blank <- OneBlank
    Parsers <- TwoParsers
    Kind <- EachKind
    Name <- OwnNames
    MaxEdits = 2
    MaxFaults = 1
SPECIFICATION FairSpec
INVARIANTS
    CleanSyncMirrors
PROPERTIES
    JobTerminates
