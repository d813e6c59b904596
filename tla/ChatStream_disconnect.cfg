SPECIFICATION Spec
CONSTANTS
    MaxSize = 4
    MaxTokens = 2
INVARIANTS
    ClosedClientStopsRun
CHECK_DEADLOCK FALSE
