SPECIFICATION PoolSpec
CONSTANTS
    ModelIds = {m1, m2, m3}
    MaxHandle = 3
    PoolTasks = {a}
    PoolMaxModels = 2
    PoolMaxBytes = 2
    PoolMaxUses = 1
    PoolMaxIdle = 1
    PoolWord = 100
INVARIANT EvictsLowestTier
CHECK_DEADLOCK FALSE
