------------------------------ MODULE ModelPool ------------------------------
(***************************************************************************)
(* The pool of preloaded models (models/pool.rs).  The models are behind   *)
(* one lock and the active model behind another.  preload gives the models *)
(* up whenever it has to evict and takes them again without repeating its  *)
(* earlier tests; switch_to sets the active model after giving them up.    *)
(* A caller registers its model before it preloads it.                     *)
(***************************************************************************)
EXTENDS ModelRegistry, FiniteSets, FiniteSetsExt

CONSTANTS
    PoolTasks,
    PoolMaxModels,   \* PoolConfig.max_models
    PoolMaxBytes,    \* PoolConfig.max_memory_bytes
    PoolMaxUses,     \* the cap on use_count in a score (1000)
    PoolMaxIdle,     \* the cap on the idle seconds in a score (999)
    PoolWord         \* 2^64, scaled with the weights of a score

ASSUME PoolAssumption ==
    /\ IsFiniteSet(PoolTasks) /\ PoolTasks # {}
    /\ PoolMaxModels \in Nat /\ PoolMaxBytes \in Nat

ModelTiers == 0 .. 2    \* Testing, Default, Quality
TierWeight == PoolMaxUses + PoolMaxIdle + 1
NoModel == "none"

VARIABLES
    pool,        \* ModelPool.models: a partial map of PooledModels
    poolActive,  \* ModelPool.active_model
    poolAt,      \* where each task is
    poolVictims  \* history: evictions, with the tier evicted and the tiers passed over

modelPoolVars == <<pool, poolActive, poolAt, poolVictims>>

PoolIdle == [at |-> "idle", id |-> NoModel, handle |-> None, tier |-> 0, bytes |-> 0]

PoolInit ==
    /\ pool = Empty /\ poolActive = NoModel
    /\ poolAt = [t \in PoolTasks |-> PoolIdle]
    /\ poolVictims = {}

PoolBytes == MapThenSumSet(LAMBDA id : pool[id].bytes, DOMAIN pool)
PoolFits(bytes) == PoolBytes + bytes <= PoolMaxBytes
PoolGo(t, at) == poolAt' = [poolAt EXCEPT ![t].at = at]
PoolReturn(t) == poolAt' = [poolAt EXCEPT ![t] = PoolIdle]

\* insert puts the model in, over one of the same id that came in between.
PoolInsert(call) ==
    pool' = Put(pool, call.id, [handle |-> call.handle, tier |-> call.tier, bytes |-> call.bytes,
                                idle |-> 0, uses |-> 0, warm |-> FALSE])

\* preload up to the first place where it may give the lock up.
PreloadModel(t, id, tier, bytes) ==
    LET call == [at |-> "idle", id |-> id, handle |-> nextId, tier |-> tier, bytes |-> bytes] IN
    /\ poolAt[t].at = "idle" /\ RegisterOutside
    /\ \/ /\ id \in DOMAIN pool
          /\ UNCHANGED <<pool, poolAt>>
       \/ /\ id \notin DOMAIN pool /\ Cardinality(DOMAIN pool) >= PoolMaxModels
          /\ poolAt' = [poolAt EXCEPT ![t] = [call EXCEPT !.at = "makeRoom"]]
          /\ UNCHANGED pool
       \/ /\ id \notin DOMAIN pool /\ Cardinality(DOMAIN pool) < PoolMaxModels /\ ~PoolFits(bytes)
          /\ poolAt' = [poolAt EXCEPT ![t] = [call EXCEPT !.at = "measure"]]
          /\ UNCHANGED pool
       \/ /\ id \notin DOMAIN pool /\ Cardinality(DOMAIN pool) < PoolMaxModels /\ PoolFits(bytes)
          /\ PoolInsert(call) /\ UNCHANGED poolAt
    /\ UNCHANGED <<poolActive, poolVictims>>

\* eviction_score: the subtraction is of unsigned words and wraps.
EvictionScore(m) == (m.tier * TierWeight + m.uses + PoolWord - m.idle) % PoolWord

\* A slip: the model leaves the registry and stays in the pool.
PoolEvictRegistryOnly(t, next) ==
    \E id \in DOMAIN pool \ {poolActive} :
        /\ UnregisterModel(pool[id].handle) /\ PoolGo(t, next)
        /\ UNCHANGED <<pool, poolActive, poolVictims>>

\* evict_one under the models' lock: the lowest score that is not active
\* leaves the pool and the registry; without one the preload fails.
PoolEvictOne(t, next) ==
    LET choice == DOMAIN pool \ {poolActive} IN
    \/ /\ choice = {}
       /\ PoolReturn(t) /\ UNCHANGED <<registryVars, pool, poolActive, poolVictims>>
    \/ \E id \in choice :
       /\ \A other \in choice : EvictionScore(pool[id]) <= EvictionScore(pool[other])
       /\ pool' = Drop(pool, id)
       /\ UnregisterModel(pool[id].handle)
       /\ PoolGo(t, next)
       /\ poolVictims' = poolVictims \union {<<pool[id].tier, {pool[o].tier : o \in choice}>>}
       /\ UNCHANGED poolActive

PoolMakeRoom(t) == poolAt[t].at = "makeRoom" /\ PoolEvictOne(t, "locked")

\* preload takes the lock again: the memory is summed now, the id and the
\* number of models are not looked at again.
PoolLocked(t) ==
    /\ poolAt[t].at = "locked"
    /\ IF PoolFits(poolAt[t].bytes)
       THEN PoolInsert(poolAt[t]) /\ PoolReturn(t)
       ELSE UNCHANGED pool /\ PoolGo(t, "measure")
    /\ UNCHANGED <<registryVars, poolActive, poolVictims>>

\* evict_for_memory: sum under a read lock, evict, and again.
PoolMeasure(t) ==
    /\ poolAt[t].at = "measure"
    /\ PoolGo(t, IF PoolFits(poolAt[t].bytes) THEN "insert" ELSE "evict")
    /\ UNCHANGED <<registryVars, pool, poolActive, poolVictims>>
PoolEvictForMemory(t) == poolAt[t].at = "evict" /\ PoolEvictOne(t, "measure")
PoolFinish(t) ==
    /\ poolAt[t].at = "insert" /\ PoolInsert(poolAt[t]) /\ PoolReturn(t)
    /\ UNCHANGED <<registryVars, poolActive, poolVictims>>

\* switch_to: touch the model, then make it the active one.
SwitchTo(t, id) ==
    /\ poolAt[t].at = "idle" /\ id \in DOMAIN pool
    /\ pool' = [pool EXCEPT ![id].idle = 0,
                            ![id].uses = IF @ < PoolMaxUses THEN @ + 1 ELSE @]
    /\ poolAt' = [poolAt EXCEPT ![t].at = "switch", ![t].id = id]
    /\ UNCHANGED <<registryVars, poolActive, poolVictims>>
SetActive(t) ==
    /\ poolAt[t].at = "switch" /\ poolActive' = poolAt[t].id /\ PoolReturn(t)
    /\ UNCHANGED <<registryVars, pool, poolVictims>>

MarkWarmed(id) ==
    /\ id \in DOMAIN pool /\ pool' = [pool EXCEPT ![id].warm = TRUE]
    /\ UNCHANGED <<registryVars, poolActive, poolAt, poolVictims>>

\* remove hands the handle back, still registered.
PoolRemove(id) ==
    /\ id \in DOMAIN pool /\ pool' = Drop(pool, id)
    /\ poolActive' = IF poolActive = id THEN NoModel ELSE poolActive
    /\ UNCHANGED <<registryVars, poolAt, poolVictims>>

PoolSecond ==
    /\ pool' = [id \in DOMAIN pool |->
                   [pool[id] EXCEPT !.idle = IF @ < PoolMaxIdle THEN @ + 1 ELSE @]]
    /\ UNCHANGED <<registryVars, poolActive, poolAt, poolVictims>>

PoolNext ==
    \/ \E t \in PoolTasks :
          \/ \E id \in ModelIds, tier \in ModelTiers, bytes \in 1 .. PoolMaxBytes + 1 :
                PreloadModel(t, id, tier, bytes)
          \/ PoolMakeRoom(t) \/ PoolLocked(t) \/ PoolMeasure(t) \/ PoolEvictForMemory(t)
          \/ PoolFinish(t) \/ SetActive(t)
          \/ \E id \in ModelIds : SwitchTo(t, id)
    \/ \E id \in ModelIds : MarkWarmed(id) \/ PoolRemove(id)
    \/ PoolSecond

PoolSpec == RegistryInit(0) /\ PoolInit /\ [][PoolNext]_<<registryVars, modelPoolVars>>

-----------------------------------------------------------------------------
(* Properties *)

PoolArriving == {t \in PoolTasks : poolAt[t].at \in {"locked", "measure", "evict", "insert"}}

\* Whatever preloads, evictions, switches and removals race, a pooled model
\* is one the registry serves, under a handle of its own, and the preloads
\* that gave the lock up to evict overfill the pool by at most one each but
\* the last (pool.rs, preload and evict_one).
PoolConsistent ==
    /\ \A id \in DOMAIN pool : pool[id].handle \in registered
    /\ \A i, j \in DOMAIN pool : pool[i].handle = pool[j].handle => i = j
    /\ Cardinality(DOMAIN pool) + Cardinality(PoolArriving)
          <= PoolMaxModels + Cardinality(PoolTasks) - 1

\* "Evict lowest-priority model from pool": no model of a lower tier is passed
\* over for the one evicted.
EvictsLowestTier == \A v \in poolVictims : \A tier \in v[2] : v[1] <= tier
=============================================================================
