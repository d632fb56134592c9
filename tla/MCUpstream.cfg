SPECIFICATION MCSpec
CONSTANTS
    o1 = o1  o2 = o2
    a1 = a1  a2 = a2  a3 = a3
    Ops = {o1, o2}
    Cleaners = {o1, o2}
    Outside = {o2}
    Readers = {o1, o2}
    Attempts = {a1, a2, a3}
    FdRoom = 3
    MaxCount = 4
    MaxTasks = 1
    ChunkSizes = {1, 2}
    BodyLimit = 1
    Multiplier = 2
    Envelope = 3
    Modes = {"resource", "legacy"}
    PoolSize = 1
    WaiterLimit = 1
    Refreshers = {"c1", "c2", "c3"}
    MaxTokens = 3
    Searches = {"s1", "s2", "s3", "s4"}
    SessionOf <- MCSessionOf
    ModelOf <- MCModelOf
    Sources = {"p", "q"}
    MaxBindings = 1
CHECK_DEADLOCK FALSE
INVARIANTS
    PoolSound
    SessionsSound
PROPERTIES
    HeadroomRespected
    CloseIsFinal
    EvictedStreamReturns
    TokensKept
