SPECIFICATION Spec
CONSTANTS
    MaxSize = 4
    MaxTokens = 4
INVARIANTS
    ControlEventsArePreserved
CHECK_DEADLOCK FALSE
