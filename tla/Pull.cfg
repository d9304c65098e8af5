CONSTANTS
    p1 = p1
    p2 = p2
    t1 = t1
    t2 = t2
    Absent = Absent
    Pages <- TwoPages
    Threads <- TwoThreads
    Tagged = TRUE
    MaxFaults = 2
    MaxClicks = 1
SPECIFICATION FairSpec
INVARIANTS
    TypeOK
    OneDownload
    SuccessIsReal
PROPERTIES
    PagesGetReady
CHECK_DEADLOCK FALSE
