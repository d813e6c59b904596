SPECIFICATION Spec
CONSTANTS
    worker = worker
    Approvers = {a1, a2}
    Cancellers = {c1}
    RoleSets <- MCRoleSets
    Streamed = TRUE
    MaxFaults = 1
    MaxCrashes = 1
SYMMETRY RequestSymmetry
INVARIANTS
    ApprovalInv
CHECK_DEADLOCK FALSE
