CONSTANTS
    MaxTurns = 1
    MaxQuestions = 3
    MaxSteps = 2
    MaxClicks = 3
SPECIFICATION FairSpec
INVARIANTS
    TypeOK
    StepsOfStream
    OneAnswerEach
PROPERTIES
    GenerationEnds
CHECK_DEADLOCK FALSE
