SPECIFICATION PipelineSpec
CONSTANTS
    s1 = s1  s2 = s2
    Streams = {s1, s2}
    Buffers = {"precommit"}
    Sizes = {1, 2}
    Capacity = 3
    MaxItems = 2
    MaxBytes = 3
    MaxBuffer = 1
    MaxEvent = 3
    MaxPerFeed = 2
    ParserBudget = 5
    MaxFed = 5
    MaxOutputItems = 2
    MaxOutputBytes = 4
    MaxCollected = 6
    MaxEvents = 4
    MaxAttempts = 2
    MaxScript = 3
    MaxPrimed = 2
    RawWeight = 1
    TokenWeight = 2
    MaxDepth = 2
    MaxScalar = 2
    MaxEstimate = 13
    MaxScan = 6
    Parsers = {p1, p2}
    PhaseLimit = 1
    ConnectionMemory = 2
    ActiveMemory = 3
    FdReserveMin = 2
    FdReservePct = 5
    OutboundFds = 2
    HeadroomMin = 1
    HeadroomPct = 10
    PortPct = 80
    ControlPct = 12
    MinimumTotal = 5
    BurstPct = 200
    BaseActive = 2
    ReferenceCpu = 500
    ReferenceWeight = 50
CHECK_DEADLOCK FALSE
SYMMETRY MCSymmetry
INVARIANTS
    EstimateExact
    JsonPaid
    EnvelopeFits
    QueueExact
    ParserExact
    CompletionFaithful
    ProxySound
