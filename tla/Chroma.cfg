CONSTANTS
    i1 = i1
    i2 = i2
    k1 = k1
    k2 = k2
    Items <- OneItem
    Configs <- TwoConfigs
    Failing <- AnyFailure
    Flaky <- Openers
    Nothing = Nothing
    MaxRetries = 2
    MaxStarts = 3
    MaxTurns = 1
SPECIFICATION FairSpec
INVARIANTS
    TypeOK
    IndexFollowsSettings
PROPERTIES
    SetupEnds
CHECK_DEADLOCK FALSE
