CONSTANTS
    s1 = s1
    s2 = s2
    Sentinel = Sentinel
    NotCached = NotCached
    Streams <- TwoStreams
    Failing <- NoFailure
    MaxTokens = 1
    MaxSyncs = 1
SPECIFICATION Spec
PROPERTIES
    ServedIsCurrent
CHECK_DEADLOCK FALSE
