SPECIFICATION Spec
CONSTANTS
    worker = worker
    Approvers = {a1}
    Cancellers = {c1}
    RoleSets <- MCRoleSets
    Streamed = TRUE
    MaxFaults = 0
    MaxCrashes = 1
INVARIANT
    WaitingRunSurvivesRestart
CHECK_DEADLOCK FALSE
