CONSTANTS
    d1 = d1
    d2 = d2
    app = app
    job = job
    Sids <- TwoSids
    Builders <- JustApp
    App <- app
    Blank <- OneBlank
    Absent = Absent
    Torn = Torn
    Mixed = Mixed
    Mixes <- NoMixes
    Nothing = Nothing
    MaxVersion = 4
SPECIFICATION Spec
SYMMETRY SidSymmetry
INVARIANTS
    CurrentCorpusIsExact
    ServedOneVersion
CHECK_DEADLOCK FALSE
