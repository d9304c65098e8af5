CONSTANTS
    d1 = d1
    d2 = d2
    app = app
    job = job
    Sids <- TwoSids
    Builders <- JustApp
    App <- app
    Blank <- OneBlank
    Absent = Absent
    Torn = Torn
    Mixed = Mixed
    Mixes <- NoMixes
    Nothing = Nothing
    MaxVersion = 3
SPECIFICATION Spec
SYMMETRY SidSymmetry
INVARIANTS
    IndexMatchesCorpus
CHECK_DEADLOCK FALSE
