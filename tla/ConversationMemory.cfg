SPECIFICATION Spec
CONSTANTS
    Adders = {a1, a2, a3}
    Readers = {r1}
    MaxTurns = 1
    MaxSummary = 2
    MaxFaults = 1
SYMMETRY CallSymmetry
INVARIANTS
    TypeOK
    HistoryNeverRepeats
    CompactionCatchesUp
    OnlyLateTurnsAreSkipped
PROPERTIES
    ImplementsLog
CHECK_DEADLOCK FALSE
