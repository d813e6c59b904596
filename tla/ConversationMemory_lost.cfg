SPECIFICATION Spec
CONSTANTS
    Adders = {a1, a2, a3}
    Readers = {}
    MaxTurns = 1
    MaxSummary = 2
    MaxFaults = 0
INVARIANTS
    EveryTurnIsRemembered
CHECK_DEADLOCK FALSE
