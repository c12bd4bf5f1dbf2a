SPECIFICATION Resources
CONSTANTS
    Requests = {r1, r2, r3}
    c1 = c1
    c2 = c2
    c3 = c3
    c4 = c4
    c5 = c5
    Calls <- MCCalls
    MemoryOf <- MCMemoryOf
    MaxPerCall = 3
    MaxTotal = 4
    MaxConcurrent = 2
    Clients = {k1, k2, k3, k4}
    MaxConnections = 2
    bronze = bronze
    silver = silver
    Callers = {s1, s2}
    Tiers = {bronze, silver}
    Rate <- MCRate
    Burst <- MCBurst
    Cost = 3
    MaxIdle = 2
    MaxTick = 4
    CacheCallers = {a, b}
    CacheKeys = {x, y, z}
    MaxEntries = 2
    CacheTtl = 1
    MaxAge = 2
    PromptTokens = {1, 2}
    MaxPromptLen = 2
    MaxPrompts = 2
    MaxAccesses = 5
    Tasks = {a, b}
    ArenaSize = 3
    MaxArenas = 1
    ArenaIds = 2
    Layouts <- MCLayouts
    GpuMax = 3
    BufferIds = 2
    PoolJobs = {j1, j2}
    PoolThreads = 2
    PoolQueueSizes = {1, 2}
    JobPriorities = {1, 2}
    KvCallers = {a, b}
    KvMaxPages = 2
    PageTokens = 2
    KvKeep = 1
    KvMaxSeqLen = 2
    KvMaxSeqs = 2
    KvMaxLen = 3
INVARIANTS
    OnlyRacersOutlive
    MemoryAccounted
    SlotsWithinLimit
    DoorHolds
    CachesHold
    MemoryIsExclusive
    TasksInOrder
PROPERTIES
    DrainEnds
    
\* Everything comes to an end at a shutdown or at a bound.
CHECK_DEADLOCK FALSE
