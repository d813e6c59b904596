SPECIFICATION FairSpec
CONSTANTS
    MaxSize = 2
    MaxTokens = 3
INVARIANTS
    TypeOK
    StreamIsOrdered
    ControlSurvivesTokens
    FinalMeansRemembered
PROPERTIES
    StreamEnds
CHECK_DEADLOCK FALSE
