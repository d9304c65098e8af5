CONSTANTS
    s1 = s1
    s2 = s2
    Sentinel = Sentinel
    NotCached = NotCached
    Streams <- TwoStreams
    Failing <- NoFailure
    MaxTokens = 1
    MaxSyncs = 1
SPECIFICATION FairSpec
INVARIANTS
    TypeOK
    CachedAnswersWhole
PROPERTIES
    FeedSpec
    NeverSilent
    ProducerEnds
CHECK_DEADLOCK FALSE
