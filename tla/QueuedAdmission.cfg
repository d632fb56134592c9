SPECIFICATION FairAdmission
CONSTANTS
    Requests = {r1}
    Callers = {r1, c2, c3, c4}
    Capacity = 1
    WaiterLimit = 2
    FrameSizes = {1}
    MaxFrames = 2
    Multiplier = 2
    HighWater = 1
    MaxUse = 1
CHECK_DEADLOCK FALSE
INVARIANTS
    GateSound
    RequestExact
PROPERTIES
    ServedInTurn
    ImplementsSemaphore
    QueuedIsAnswered
