SPECIFICATION MCFairSpec
CONSTANTS
    a1 = a1  a2 = a2  x1 = x1  b1 = b1  A = A  B = B  None = None
    Requests = {a1, a2, x1, b1}
    Keys = {A, B}
    KeyOf <- MCKeyOf
    HashOf <- MCHashOf
    MaxEntries = 1
    MaxStored = 1
    MaxResponse = 1
    MaxBody = 1
    Kinds = {"chat", "chat_stream", "messages", "messages_stream", "video", "lingjing", "responses"}
    MaxAttempts = 2
    Holds = {"h1"}
    MaxGrown = 1
    HistoryLimit = 1
    Capacity = 2
    StatWorkers = {"w1", "w2"}
    MaxMarks = 4
CHECK_DEADLOCK FALSE
INVARIANTS
    TableSound
    AttemptsAccounted
    StatsAccounted
PROPERTIES
    WaiterIsReleased
