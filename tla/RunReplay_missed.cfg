SPECIFICATION Spec
CONSTANTS
    Writers = {worker, canceller}
    MaxEvents = 2
    MaxDrops = 1
INVARIANTS
    NoEventIsMissed
CHECK_DEADLOCK FALSE
