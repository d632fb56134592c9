SPECIFICATION MCSpec
CONSTANTS
    r1 = r1  r2 = r2  r3 = r3  A = A  B = B
    Requests = {r1, r2, r3}
    ResourceOnly = {}
    Queued = {r3}
    Deferring = {}
    Tenants = {A}
    TenantOf <- MCOneTenant
    QueueLimit = 2
    Temps = {}
    BodyChunks = {1, 2}
    ResponseChunks = {}
    MaxBody = 2
    MaxResponse = 0
    MaxRetained = 2
    Budget = 3
    SmallThreshold = 1
    SmallReserve = 1
    LargeThreshold = 1
    LargeLimit = 1
    MaxRotation = 2
    Parts = {"memory"}
    f1 = f1  f2 = f2  f3 = f3  k1 = k1  k2 = k2  k3 = k3  NoKey = NoKey
    FrontRequests = {f1, f2, f3}
    Identities <- MCIdentities
    MaxUpload = 1
    DiskRoom = 2
    MemoryRoom = 2
    MemoryPerChunk = 1
    EntryLimit = 2
    StoredLimit = 1
    KeepLimit = 1
    FlightLimit = 1
SYMMETRY MCSymmetry
INVARIANTS
    BodyWaitSound
