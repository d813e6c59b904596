SPECIFICATION Spec
CONSTANTS
    worker = worker
    Approvers = {a1, a2}
    Cancellers = {c1, c2}
    RoleSets <- MCRoleSets
    Streamed = TRUE
    MaxFaults = 0
    MaxCrashes = 0
SYMMETRY RequestSymmetry
INVARIANTS
    TypeOK
    ApprovedSqlRunsAtMostOnce
    CompletedMeansWorkDone
    OutcomeEventsMatchRow
    CancellationClaimedOnce
    WaitingRunIsResumable
PROPERTIES
    CancelledIsFinal
    ImplementsContract
CHECK_DEADLOCK FALSE
