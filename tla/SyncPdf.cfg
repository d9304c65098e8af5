CONSTANTS
    s1 = s1
    s2 = s2
    a = a
    b = b
    c = c
    v1 = v1
    v2 = v2
    blank = blank
    SettingsParser = "manual"
    Absent = Absent
    NoEntry = NoEntry
    NoHash = NoHash
    NoTarget = NoTarget
    JobKinds <- AllJobs
    Sessions <- OneSession
    Paths <- TwoPaths
    Contents <- TwoContents
    Blank <- NoBlank
    Parsers <- TwoParsers
    Kind <- AllPdf
    Name <- OwnNames
    MaxEdits = 3
    MaxFaults = 2
SYMMETRY Symmetry
SPECIFICATION Spec
INVARIANTS
    TypeOK
    OneVersionPerFile
    ChunksHaveParentJson
    StoresFollowPlan
    CleanSyncMirrors
    CleanSyncIsIdempotent
PROPERTIES
    HealthyFilesUndisturbed
