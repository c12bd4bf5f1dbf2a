SPECIFICATION Models
CONSTANTS
    ModelIds = {m1, m2}
    MaxHandle = 3
    Callers = {c1, c2}
    NoCaller = NoCaller
    Routed = {m1}
    Swaps = {s1, s2}
    Requests = {r1, r2}
    Gets = {g1, g2}
    Preloads = {p1}
    MaxLoads = 1
    PoolTasks = {a, b}
    PoolMaxModels = 1
    PoolMaxBytes = 1
    PoolMaxUses = 1
    PoolMaxIdle = 1
    PoolWord = 100
    TierIds = {m1, m2}
    Registrars = {g1, g2}
    TierRequests = {r1}
    PathNames = {"..", "models", "base", "other"}
    MaxPathLen = 3
    MaxInstalls = 3
    Savers = {a, b}
    MaxSaves = 4
    StoreVersions = {1, 2}
    MaxHistory = 3
INVARIANTS
    InSync
    
    SwapLeavesOrder
    OnlyRacersRunUnregistered
    EntriesAreHonest
    
    ModeFollowsTiers
    
PROPERTIES
    SwapEnds
    GetReturns
\* Loads, swaps and requests come to an end with the handles.
CHECK_DEADLOCK FALSE
