SPECIFICATION FairSpec
CONSTANTS
    worker = worker
    Approvers = {a1}
    Cancellers = {c1}
    RoleSets <- MCRoleSets
    Streamed = TRUE
    MaxFaults = 0
    MaxCrashes = 0
PROPERTIES
    RunSettles
    DecisionSettles
CHECK_DEADLOCK FALSE
