CONSTANTS
    c1 = c1
    c2 = c2
    c3 = c3
    Nobody = Nobody
    Abandoned = Abandoned
    Callers <- TwoCallers
    MaxQueue = 2
SPECIFICATION Spec
INVARIANTS
    NothingQueuedBehind
