SPECIFICATION Spec
CONSTANTS
    worker = worker
    Approvers = {a1}
    Cancellers = {c1}
    RoleSets <- MCRoleSets
    Streamed = TRUE
    MaxFaults = 1
    MaxCrashes = 0
PROPERTY
    TerminalStatesAreFinal
CHECK_DEADLOCK FALSE
