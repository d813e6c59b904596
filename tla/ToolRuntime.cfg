SPECIFICATION Spec
CONSTANTS
    Streams = {r1, r2}
    Requests = {r1, r2}
    MaxWorkers = 1
    MaxPending = 0
    Tools = {read, write}
    RefusedTool = refused
    IdempotentTools = {read}
    MaxAttempts = 2
    MaxCalls = 1
    PoolSize = 1
    CallBound = 2
INVARIANTS
    TypeOK
    PermitsConserved
    LateAnswersAreDropped
    WorkIsNotRepeated
    BudgetBoundsCalls
PROPERTIES
    RequestsEnd
