SPECIFICATION MCSpec
CONSTANTS
    r1 = r1
    r2 = r2
    Requests = {r1, r2}
    Providers = {"a", "b"}
    MaxTime = 2
    KeyList <- MCKeyList
    Rules <- MCRules
    KeysFixed = FALSE
    RequestModel = "m"
    OriginalModel <- MCOtherName
    Cooldown <- MCCooldown
    Threshold = 2
    Window = 2
    OpenFor = 2
    Order <- MCOrder
    Weight <- MCWeight
    Scheduling = "weighted_round_robin"
    RetryCap = 1
    AutoRetry = TRUE
    Failures = {"missing", "blocked", "down", "local", "quota"}
    PlainCooling = 0
    LimitCooling = 1
    QuotaCooling = 2
    Callers = {r1, r2}
    Ring <- MCOrder
    KeysOf <- MCKeyList
    Codex = {"a"}
    Limits <- MCLimits
    ChannelSeconds = 1
    CircuitLimit = 2
    CircuitSeconds = 1
    OpenSeconds = 1
    KeySeconds <- MCKeySeconds
    Upstream = {"forbidden", "limited", "down", "scoped"}
    MaxRetries = 1
    Retries = TRUE
    LastTick = 1
    Revisions = {"c1", "c2", "bad"}
    Invalid = {"bad"}
    MaxPublished = 3
    MaxAttempts = 2
    MaxFaults = 1
    Plans = {"opaque", "guarded", "rewrite", "rewrite_open", "whole"}
    MaxFrames = 3
    MaxChunk = 2
    MaxPrecommit = 2
    MaxCapture = 5
    MaxTasks = 3
    Clients = {"k1", "k2"}
    Calls = {r1, r2}
    MaxRoutes = 1
    RouteLife = 1
    MaxClock = 2
CHECK_DEADLOCK FALSE
SYMMETRY Symmetry
PROPERTIES SkipsWhatItExcluded
