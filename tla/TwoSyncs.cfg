CONSTANTS
    s1 = s1
    s2 = s2
    a = a
    b = b
    c = c
    v1 = v1
    v2 = v2
    blank = blank
    SettingsParser = "manual"
    Absent = Absent
    NoEntry = NoEntry
    NoHash = NoHash
    NoTarget = NoTarget
    JobKinds <- OnlyFull
    Sessions <- TwoSessions
    Paths <- OnePath
    Contents <- TwoContents
    Blank <- NoBlank
    Parsers <- OneParser
    Kind <- AllPdf
    Name <- OwnNames
    MaxEdits = 2
    MaxFaults = 0
SPECIFICATION Spec
INVARIANTS
    CleanSyncMirrors
