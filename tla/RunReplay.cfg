SPECIFICATION Spec
CONSTANTS
    Writers = {worker, canceller}
    MaxEvents = 4
    MaxDrops = 2
INVARIANTS
    TypeOK
    ReplayIsOrdered
    OnlyLateEventsAreMissed
PROPERTIES
    EndedRunEndsStream
CHECK_DEADLOCK FALSE
