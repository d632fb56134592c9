SPECIFICATION MCSpec
CONSTANTS
    r1 = r1  r2 = r2  r3 = r3  A = A  B = B
    Requests = {r1, r2}
    ResourceOnly = {}
    Queued = {r1}
    Deferring = {r1}
    Tenants = {A, B}
    TenantOf <- MCTwoTenants
    QueueLimit = 2
    Temps = {t1}
    BodyChunks = {2}
    ResponseChunks = {1}
    MaxBody = 2
    MaxResponse = 2
    MaxRetained = 3
    Budget = 4
    SmallThreshold = 1
    SmallReserve = 1
    LargeThreshold = 1
    LargeLimit = 2
    MaxRotation = 1
    Parts = {"memory", "front"}
    f1 = f1  f2 = f2  f3 = f3  k1 = k1  k2 = k2  k3 = k3  NoKey = NoKey
    FrontRequests = {f1, f2, f3}
    Identities <- MCIdentities
    MaxUpload = 1
    DiskRoom = 2
    MemoryRoom = 2
    MemoryPerChunk = 1
    EntryLimit = 2
    StoredLimit = 1
    KeepLimit = 1
    FlightLimit = 1
INVARIANTS
    LedgerSound
    FrontSound
PROPERTIES
    ChargedWhileOwned
