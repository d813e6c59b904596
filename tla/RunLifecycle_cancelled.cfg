SPECIFICATION Spec
CONSTANTS
    worker = worker
    Approvers = {a1}
    Cancellers = {c1}
    RoleSets <- MCRoleSets
    Streamed = TRUE
    MaxFaults = 0
    MaxCrashes = 0
PROPERTY
    CancelledRunDoesNoMoreWork
CHECK_DEADLOCK FALSE
