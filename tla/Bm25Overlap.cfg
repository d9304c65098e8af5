CONSTANTS
    d1 = d1
    d2 = d2
    app = app
    job = job
    Sids <- OneSid
    Builders <- AppAndJob
    App <- app
    Blank <- NoBlank
    Absent = Absent
    Torn = Torn
    Mixed = Mixed
    Mixes <- NoMixes
    Nothing = Nothing
    MaxVersion = 2
SPECIFICATION Spec
INVARIANTS
    ServedOneVersion
CHECK_DEADLOCK FALSE
