SPECIFICATION MCSpec
CONSTANTS
    MaxChunks = 1
    MaxCancels = 0
    s1 = s1
    Streams = {s1}
    Buffers = {"precommit", "prime"}
    Sizes = {1}
    Capacity = 3
    MaxItems = 2
    MaxBytes = 2
    MaxBuffer = 2
    MaxTries = 2
    RawWeight = 1
    TokenWeight = 2
    MaxDepth = 2
    MaxScalar = 2
    MaxEstimate = 13
    Frames <- MCFrames
    MaxFrames = 2
    MaxBody = 3
    Window = 2
    PlainWeight = 2
CHECK_DEADLOCK FALSE
INVARIANT LeasesReturned
