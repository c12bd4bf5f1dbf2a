----------------------------- MODULE ServingProofs -----------------------------
(***************************************************************************)
(* Proofs about the gates a request passes and about what decides which    *)
(* model serves it, for any number of clients, callers, models, tasks,     *)
(* registrations, requests and calls and any limits.                       *)
(*                                                                         *)
(* SmartLoader: an entry says what is so.  ModelPool: a pooled model is    *)
(* registered under a handle of its own, and the pool is overfilled by no  *)
(* more than the preloads that race.  TierSynergy: the mode is the best    *)
(* pair of the tiers once the registrations are over, and a request that   *)
(* read it earlier finds both of its models.                               *)
(*                                                                         *)
(* ShutdownCoordinator: the counter counts the guards that exist, and a    *)
(* shutdown reported as complete leaves only the requests that raced with  *)
(* its beginning.  ResourceLimits: no more than max_concurrent guards      *)
(* exist, they hold no more memory than max_total_memory, and the counters *)
(* are what was added and not returned.  Door: the connections counted are *)
(* the connections served, and no caller is admitted above its burst and   *)
(* rate.                                                                   *)
(***************************************************************************)
EXTENDS Sequences, SmartLoader, ModelPool, TierSynergy, ShutdownCoordinator, ResourceLimits, Door,
        FiniteSetTheorems, TLAPS

-----------------------------------------------------------------------------
(* The smart loader *)

USE LoaderAssumption DEF registryVars

\* What the proof needs of the types; a task that has started has its model.
TaskInv ==
    /\ entry \in [ModelIds -> [state : LoadState, handle : Handles \union {None}]]
    /\ nextId \in Nat \ {0}
    /\ task \in [Tasks -> TaskStage] /\ DOMAIN model = Tasks
    /\ loaded \in [Tasks -> Handles \union {None}]
    /\ \A t \in Tasks : task[t] # "new" => model[t] \in ModelIds

LoaderInv == TaskInv /\ ReadyHasHandle /\ LoadingHasLoader

-----------------------------------------------------------------------------
LEMMA LoaderInitial ==
    ASSUME RegistryInit(0), LoaderInit
    PROVE  LoaderInv
BY DEF RegistryInit, LoaderInit, LoaderInv, TaskInv, ReadyHasHandle, LoadingHasLoader, LoadState,
       TaskStage

\* A task moves on without touching the entries: LoadingHasLoader needs only that
\* no loader stops loading.
LEMMA EntriesSame ==
    ASSUME LoaderInv, UNCHANGED entry, TaskInv',
           \A t \in Tasks : LoadingNow(t)
               => task'[t] \in {"load", "apply"} /\ model'[t] = model[t]
    PROVE  LoaderInv'
<1>1. ReadyHasHandle'
  BY DEF LoaderInv, ReadyHasHandle
<1>2. LoadingHasLoader'
  BY DEF LoaderInv, LoadingHasLoader, LoadingNow
<1> QED
  BY <1>1, <1>2 DEF LoaderInv

LEMMA EntryKeeps ==
    ASSUME LoaderInv, NEW m \in ModelIds, RegisterEntry(m) \/ UnloadEntry(m)
    PROVE  LoaderInv'
<1>1. /\ entry' = [entry EXCEPT ![m] = [state |-> "Registered", handle |-> None]]
      /\ UNCHANGED <<task, model, loaded, nextId>>
  BY DEF RegisterEntry, UnloadEntry
<1>2. entry \in [ModelIds -> [state : LoadState, handle : Handles \union {None}]]
  BY DEF LoaderInv, TaskInv
<1>3. /\ entry' \in [ModelIds -> [state : LoadState, handle : Handles \union {None}]]
      /\ entry'[m].state = "Registered" /\ \A n \in ModelIds : n # m => entry'[n] = entry[n]
  BY <1>1, <1>2 DEF LoadState
<1>4. TaskInv'
  BY <1>1, <1>3 DEF LoaderInv, TaskInv
<1>5. ReadyHasHandle'
  BY <1>3 DEF LoaderInv, ReadyHasHandle
<1>6. LoadingHasLoader'
  BY <1>1, <1>3 DEF LoaderInv, LoadingHasLoader, LoadingNow
<1> QED
  BY <1>4, <1>5, <1>6 DEF LoaderInv

\* Steps of a task that leave the entries alone.
LEMMA AsideKeeps ==
    ASSUME LoaderInv, NEW t \in Tasks,
           \/ CheckReady(t) \/ Acquire(t) \/ Callback(t) \/ Fetch(t) \/ Hint(t)
    PROVE  LoaderInv'
<1> USE DEF LoaderInv
<1>1. UNCHANGED entry
  BY DEF CheckReady, Acquire, Callback, Fetch, Hint
<1>2. \E s \in {"wait", "permit", "apply", "end"} : task' = [task EXCEPT ![t] = s]
  BY DEF CheckReady, Acquire, Callback, Fetch, Hint, TaskTo
<1>3. LoadingNow(t) => \E s \in {"apply"} : task' = [task EXCEPT ![t] = s]
  BY DEF CheckReady, Acquire, Callback, Fetch, Hint, TaskTo, LoadingNow
<1>4. \/ UNCHANGED model /\ task[t] # "new"
      \/ task[t] = "new" /\ \E m \in ModelIds : model' = [model EXCEPT ![t] = m]
  BY DEF CheckReady, Acquire, Callback, Fetch, Hint
<1>5. nextId' \in Nat \ {0} /\ loaded' \in [Tasks -> Handles \union {None}]
  <2>1. CASE UNCHANGED <<nextId, loaded>>
    BY <2>1 DEF TaskInv
  <2>2. CASE Callback(t)
    BY <2>2 DEF Callback, RegisterOutside, RegisterModel, TaskInv, Handles
  <2> QED
    BY <2>1, <2>2 DEF CheckReady, Acquire, Fetch, Hint
<1>6. task' \in [Tasks -> TaskStage]
  BY <1>2 DEF TaskInv, TaskStage
<1>7. /\ DOMAIN model' = Tasks
      /\ \A u \in Tasks : u # t => model'[u] = model[u] /\ task'[u] = task[u]
      /\ model'[t] \in ModelIds /\ (task[t] # "new" => model'[t] = model[t])
  BY <1>2, <1>4 DEF TaskInv
<1>8. TaskInv'
  BY <1>1, <1>5, <1>6, <1>7 DEF TaskInv
<1>9. \A u \in Tasks : LoadingNow(u) => task'[u] \in {"load", "apply"} /\ model'[u] = model[u]
  <2> SUFFICES ASSUME NEW u \in Tasks, LoadingNow(u)
               PROVE  task'[u] \in {"load", "apply"} /\ model'[u] = model[u]
    OBVIOUS
  <2>1. CASE u # t
    BY <1>7, <2>1 DEF LoadingNow
  <2>2. CASE u = t
    BY <1>3, <1>7, <2>2 DEF LoadingNow, TaskInv
  <2> QED
    BY <2>1, <2>2
<1> QED
  BY <1>1, <1>8, <1>9, EntriesSame

\* Marking: nothing to load, or the entry and the task go to loading together.
LEMMA MarkKeeps ==
    ASSUME LoaderInv, NEW t \in Tasks, MarkLoading(t) \/ MarkPreload(t)
    PROVE  LoaderInv'
<1> USE DEF LoaderInv
<1>0. UNCHANGED <<model, loaded, nextId>> /\ task[t] = "permit" /\ model[t] \in ModelIds
  BY DEF MarkLoading, MarkPreload, TaskInv
<1>1. CASE UNCHANGED entry /\ (TaskTo(t, "end") \/ TaskTo(t, "fetch"))
  <2>1. task' \in [Tasks -> TaskStage] /\ \A u \in Tasks : u # t => task'[u] = task[u]
    BY <1>1 DEF TaskTo, TaskInv, TaskStage
  <2>2. TaskInv'
    BY <1>0, <1>1, <2>1 DEF TaskInv
  <2>3. \A u \in Tasks : LoadingNow(u) => u # t
    BY <1>0 DEF LoadingNow
  <2> QED
    BY <1>0, <1>1, <2>1, <2>2, <2>3, EntriesSame DEF LoadingNow
<1>2. CASE SetState(model[t], "Loading") /\ TaskTo(t, "load")
  <2> DEFINE m == model[t]
  <2>1. /\ task' \in [Tasks -> TaskStage] /\ task'[t] = "load"
        /\ \A u \in Tasks : u # t => task'[u] = task[u]
    BY <1>2 DEF TaskTo, TaskInv, TaskStage
  <2>2. /\ entry' \in [ModelIds -> [state : LoadState, handle : Handles \union {None}]]
        /\ entry'[m].state = "Loading" /\ \A n \in ModelIds : n # m => entry'[n] = entry[n]
    BY <1>0, <1>2 DEF SetState, TaskInv, LoadState
  <2>3. TaskInv'
    BY <1>0, <2>1, <2>2 DEF TaskInv
  <2>4. ReadyHasHandle'
    BY <1>0, <2>2 DEF ReadyHasHandle
  <2>5. LoadingHasLoader'
    <3> SUFFICES ASSUME NEW n \in ModelIds, entry'[n].state = "Loading"
                 PROVE  \E u \in Tasks : task'[u] \in {"load", "apply"} /\ model'[u] = n
      BY DEF LoadingHasLoader, LoadingNow
    <3>1. CASE n = m
      BY <1>0, <2>1, <3>1
    <3>2. CASE n # m
      <4>1. PICK u \in Tasks : LoadingNow(u) /\ model[u] = n
        BY <2>2, <3>2 DEF LoadingHasLoader
      <4> QED
        BY <1>0, <2>1, <3>2, <4>1 DEF LoadingNow
    <3> QED
      BY <3>1, <3>2
  <2> QED
    BY <2>3, <2>4, <2>5
<1> QED
  BY <1>1, <1>2 DEF MarkLoading, MarkPreload

\* Writing back ends the loading of that entry, whoever else was loading it.
LEMMA ApplyKeeps ==
    ASSUME LoaderInv, NEW t \in Tasks, Apply(t) \/ ApplyPreload(t)
    PROVE  LoaderInv'
<1> USE DEF LoaderInv
<1> DEFINE m == model[t]
           h == loaded[t]
<1>0. /\ UNCHANGED <<model, loaded, nextId>> /\ task[t] = "apply" /\ m \in ModelIds
      /\ WriteBack(m, h) /\ h \in Handles \union {None}
  BY DEF Apply, ApplyPreload, TaskInv
<1>1. \E s \in {"end", "fetch"} : task' = [task EXCEPT ![t] = s]
  BY DEF Apply, ApplyPreload, TaskTo
<1>2. task' \in [Tasks -> TaskStage] /\ \A u \in Tasks : u # t => task'[u] = task[u]
  BY <1>1 DEF TaskInv, TaskStage
<1> HIDE DEF m, h
<1>3. entry' \in [ModelIds -> [state : LoadState, handle : Handles \union {None}]]
  BY <1>0 DEF WriteBack, TaskInv, LoadState
<1>4. /\ entry'[m].state = "Failed" \/ (entry'[m].state = "Ready" /\ entry'[m].handle # None)
      /\ \A n \in ModelIds : n # m => entry'[n] = entry[n]
  BY <1>0 DEF WriteBack, TaskInv
<1>5. TaskInv'
  BY <1>0, <1>2, <1>3 DEF TaskInv
<1>6. ReadyHasHandle'
  BY <1>4 DEF ReadyHasHandle
<1>7. LoadingHasLoader'
  <2> SUFFICES ASSUME NEW n \in ModelIds, entry'[n].state = "Loading"
               PROVE  \E u \in Tasks : task'[u] \in {"load", "apply"} /\ model'[u] = n
    BY DEF LoadingHasLoader, LoadingNow
  <2>1. n # m
    BY <1>4
  <2>2. PICK u \in Tasks : LoadingNow(u) /\ model[u] = n
    BY <1>4, <2>1 DEF LoadingHasLoader
  <2>3. u # t
    BY <2>1, <2>2 DEF m
  <2> QED
    BY <1>0, <1>2, <2>2, <2>3 DEF LoadingNow
<1> QED
  BY <1>5, <1>6, <1>7

-----------------------------------------------------------------------------
LEMMA LoaderStepKeeps ==
    ASSUME LoaderInv, [LoaderNext]_<<registryVars, loaderVars>>
    PROVE  LoaderInv'
<1>1. CASE UNCHANGED <<registryVars, loaderVars>>
  BY <1>1 DEF loaderVars, LoaderInv, TaskInv, ReadyHasHandle, LoadingHasLoader, LoadingNow
<1>2. Gets \subseteq Tasks /\ Preloads \subseteq Tasks
  BY DEF Tasks
<1>3. ASSUME NEW m \in ModelIds, RegisterEntry(m) \/ UnloadEntry(m)
      PROVE  LoaderInv'
  BY <1>3, EntryKeeps
<1>4. ASSUME NEW g \in Gets, CheckReady(g) \/ GetStep(g)
      PROVE  LoaderInv'
  BY <1>2, <1>4, AsideKeeps, MarkKeeps, ApplyKeeps DEF GetStep
<1>5. ASSUME NEW p \in Preloads, Hint(p) \/ PreloadStep(p)
      PROVE  LoaderInv'
  BY <1>2, <1>5, AsideKeeps, MarkKeeps, ApplyKeeps DEF PreloadStep
<1> QED
  BY <1>1, <1>3, <1>4, <1>5 DEF LoaderNext

LEMMA LoaderInductive == LoaderSpec => []LoaderInv
BY LoaderInitial, LoaderStepKeeps, PTL DEF LoaderSpec

\* models/smart_loader.rs get and load_sync, smart_loader_ops.rs: however loads,
\* preloads, failures, unloads and registrations of one model overlap, a ready entry
\* has a handle and a loading entry has a task that will write back.
THEOREM EntriesCorrect == LoaderSpec => []EntriesAreHonest
<1>1. LoaderInv => EntriesAreHonest
  BY DEF LoaderInv, EntriesAreHonest
<1> QED
  BY LoaderInductive, <1>1, PTL

-----------------------------------------------------------------------------
(* The pool of preloaded models *)

\* The stages at which a preload carries a model that is registered and not pooled.
CarryStage == {"makeRoom", "locked", "measure", "evict", "insert"}
Carries(t) == poolAt[t].at \in CarryStage

PooledType == [handle : Nat, tier : ModelTiers, bytes : Nat, idle : Nat, uses : Nat, warm : BOOLEAN]
PoolCallType == [at : CarryStage \union {"idle", "switch"}, id : ModelIds \union {NoModel},
                 handle : Nat, tier : ModelTiers, bytes : Nat]

PoolTypeInv ==
    /\ nextId \in Nat \ {0} /\ registered \subseteq 1 .. nextId - 1
    /\ IsFiniteSet(DOMAIN pool) /\ \A id \in DOMAIN pool : pool[id] \in PooledType
    /\ poolAt \in [PoolTasks -> PoolCallType]

\* Every model in the pool or carried to it is registered, under a handle of its own.
HandleInv ==
    /\ \A id \in DOMAIN pool : pool[id].handle \in registered
    /\ \A i, j \in DOMAIN pool : pool[i].handle = pool[j].handle => i = j
    /\ \A t \in PoolTasks : Carries(t) =>
          /\ poolAt[t].handle \in registered
          /\ \A id \in DOMAIN pool : poolAt[t].handle # pool[id].handle
    /\ \A t, u \in PoolTasks : Carries(t) /\ Carries(u) /\ poolAt[t].handle = poolAt[u].handle => t = u

\* A preload that gave the lock up made or found room for one model, and every
\* other task may have done so too.
RoomInv ==
    Cardinality(DOMAIN pool) + Cardinality(PoolArriving) <= PoolMaxModels + Cardinality(PoolTasks) - 1

PoolInv == PoolTypeInv /\ HandleInv /\ RoomInv

-----------------------------------------------------------------------------
(* Numbers *)

LEMMA ArrivingFinite ==
  /\ IsFiniteSet(PoolArriving) /\ Cardinality(PoolArriving) \in Nat
  /\ Cardinality(PoolTasks) \in Nat /\ Cardinality(PoolArriving) <= Cardinality(PoolTasks)
  <1>1. PoolArriving \subseteq PoolTasks BY DEF PoolArriving
  <1> QED BY <1>1, PoolAssumption, FS_Subset, FS_CardinalityType

\* A task that is not arriving leaves room for one more.
LEMMA NotAllArriving ==
  ASSUME NEW t \in PoolTasks, t \notin PoolArriving
  PROVE  Cardinality(PoolArriving) + 1 <= Cardinality(PoolTasks)
  <1>1. PoolArriving \union {t} \subseteq PoolTasks BY DEF PoolArriving
  <1>2. Cardinality(PoolArriving \union {t}) = Cardinality(PoolArriving) + 1
    BY ArrivingFinite, FS_AddElement
  <1> QED BY <1>1, <1>2, PoolAssumption, FS_Subset

\* A task that moves changes the number arriving by its own share.
LEMMA ArrivingMoves ==
  ASSUME PoolTypeInv, NEW t \in PoolTasks, NEW job \in PoolCallType,
         poolAt' = [poolAt EXCEPT ![t] = job]
  PROVE  LET there == t \in PoolArriving
             then == job.at \in {"locked", "measure", "evict", "insert"}
         IN  /\ there = then => Cardinality(PoolArriving') = Cardinality(PoolArriving)
             /\ there /\ ~then => Cardinality(PoolArriving') = Cardinality(PoolArriving) - 1
             /\ ~there /\ then => Cardinality(PoolArriving') = Cardinality(PoolArriving) + 1
  <1> DEFINE then == job.at \in {"locked", "measure", "evict", "insert"}
  <1>1. then => PoolArriving' = PoolArriving \union {t} BY DEF PoolTypeInv, PoolArriving
  <1>2. ~then => PoolArriving' = PoolArriving \ {t} BY DEF PoolTypeInv, PoolArriving
  <1> HIDE DEF then
  <1>3. CASE t \in PoolArriving /\ then
    <2>1. PoolArriving' = PoolArriving BY <1>1, <1>3
    <2> QED BY <1>3, <2>1 DEF then
  <1>4. CASE t \notin PoolArriving /\ ~then
    <2>1. PoolArriving' = PoolArriving BY <1>2, <1>4
    <2> QED BY <1>4, <2>1 DEF then
  <1>5. CASE t \in PoolArriving /\ ~then
    <2>1. Cardinality(PoolArriving \ {t}) = Cardinality(PoolArriving) - 1
      BY <1>5, ArrivingFinite, FS_RemoveElement
    <2> QED BY <1>2, <1>5, <2>1 DEF then
  <1>6. CASE t \notin PoolArriving /\ then
    <2>1. Cardinality(PoolArriving \union {t}) = Cardinality(PoolArriving) + 1
      BY <1>6, ArrivingFinite, FS_AddElement
    <2> QED BY <1>1, <1>6, <2>1 DEF then
  <1> QED BY <1>3, <1>4, <1>5, <1>6

LEMMA PoolGrows ==
  ASSUME IsFiniteSet(DOMAIN pool), NEW id, NEW m, pool' = Put(pool, id, m)
  PROVE  /\ IsFiniteSet(DOMAIN pool')
         /\ Cardinality(DOMAIN pool') <= Cardinality(DOMAIN pool) + 1
         /\ Cardinality(DOMAIN pool) \in Nat /\ Cardinality(DOMAIN pool') \in Nat
  <1>1. DOMAIN pool' = DOMAIN pool \union {id} BY DEF Put
  <1>2. /\ IsFiniteSet(DOMAIN pool \union {id})
        /\ \/ Cardinality(DOMAIN pool \union {id}) = Cardinality(DOMAIN pool)
           \/ Cardinality(DOMAIN pool \union {id}) = Cardinality(DOMAIN pool) + 1
    BY FS_AddElement
  <1>3. Cardinality(DOMAIN pool) \in Nat BY FS_CardinalityType
  <1> QED BY <1>1, <1>2, <1>3

LEMMA PoolShrinks ==
  ASSUME IsFiniteSet(DOMAIN pool), NEW id \in DOMAIN pool, pool' = Drop(pool, id)
  PROVE  /\ IsFiniteSet(DOMAIN pool')
         /\ Cardinality(DOMAIN pool') = Cardinality(DOMAIN pool) - 1
         /\ Cardinality(DOMAIN pool) \in Nat /\ Cardinality(DOMAIN pool') \in Nat
  <1>1. DOMAIN pool' = DOMAIN pool \ {id} BY DEF Drop
  <1> QED BY <1>1, FS_RemoveElement, FS_CardinalityType

-----------------------------------------------------------------------------
\* The room left is enough when as many come as go.
LEMMA RoomKept ==
  ASSUME PoolTypeInv, RoomInv, NEW p \in Nat, NEW a \in Nat,
         Cardinality(DOMAIN pool') = p, Cardinality(PoolArriving') = a,
         p + a <= Cardinality(DOMAIN pool) + Cardinality(PoolArriving)
  PROVE  RoomInv'
  <1>1. Cardinality(DOMAIN pool) \in Nat BY FS_CardinalityType DEF PoolTypeInv
  <1>2. Cardinality(PoolArriving) \in Nat /\ Cardinality(PoolTasks) \in Nat BY ArrivingFinite
  <1>3. Cardinality(DOMAIN pool) + Cardinality(PoolArriving) <= PoolMaxModels + Cardinality(PoolTasks) - 1
    BY DEF RoomInv
  <1>4. p + a <= PoolMaxModels + Cardinality(PoolTasks) - 1 BY <1>1, <1>2, <1>3, PoolAssumption
  <1> QED BY <1>4 DEF RoomInv

\* Handles stay apart when no task comes to carry one.
LEMMA HandlesKept ==
  ASSUME HandleInv, pool' = pool, registered' = registered,
         \A u \in PoolTasks : Carries(u)' => Carries(u) /\ poolAt'[u].handle = poolAt[u].handle
  PROVE  HandleInv'
  <1>1. \A u \in PoolTasks : Carries(u)' =>
          /\ poolAt'[u].handle \in registered'
          /\ \A j \in DOMAIN pool' : poolAt'[u].handle # pool'[j].handle
    BY DEF HandleInv
  <1>2. \A u, v \in PoolTasks :
          Carries(u)' /\ Carries(v)' /\ poolAt'[u].handle = poolAt'[v].handle => u = v
    BY DEF HandleInv
  <1> QED BY <1>1, <1>2 DEF HandleInv

LEMMA IdleCall == PoolIdle \in PoolCallType /\ PoolIdle.at = "idle"
  BY DEF PoolIdle, PoolCallType, None, ModelTiers

LEMMA PoolInitial == RegistryInit(0) /\ PoolInit => PoolInv
  <1> SUFFICES ASSUME RegistryInit(0), PoolInit PROVE PoolInv OBVIOUS
  <1>1. DOMAIN pool = {} BY DEF PoolInit, Empty
  <1>2. PoolArriving = {} BY DEF PoolInit, PoolIdle, PoolArriving
  <1>3. IsFiniteSet({}) /\ Cardinality({}) = 0 BY FS_EmptySet
  <1>4. Cardinality(PoolTasks) \in Nat \ {0} BY PoolAssumption, FS_EmptySet, FS_CardinalityType
  <1>5. PoolIdle \in PoolCallType BY IdleCall
  <1>6. PoolTypeInv BY <1>1, <1>3, <1>5 DEF RegistryInit, PoolInit, PoolTypeInv
  <1>7. HandleInv BY <1>1 DEF PoolInit, PoolIdle, HandleInv, Carries, CarryStage
  <1>8. RoomInv BY <1>1, <1>2, <1>3, <1>4, PoolAssumption DEF RoomInv
  <1> QED BY <1>6, <1>7, <1>8 DEF PoolInv

\* A model that is touched keeps its handle.
LEMMA PoolTouched ==
  ASSUME PoolInv, DOMAIN pool' = DOMAIN pool,
         \A id \in DOMAIN pool : pool'[id] \in PooledType /\ pool'[id].handle = pool[id].handle,
         UNCHANGED registryVars
  PROVE  /\ poolAt' = poolAt => PoolInv'
         /\ \A t \in PoolTasks : \A job \in PoolCallType :
               /\ poolAt' = [poolAt EXCEPT ![t] = job]
               /\ poolAt[t].at = "idle" /\ job.at = "switch"
               => PoolInv'
  <1>1. ASSUME poolAt' = poolAt PROVE PoolInv'
    <2>1. PoolArriving' = PoolArriving BY <1>1 DEF PoolArriving
    <2> QED BY <1>1, <2>1 DEF PoolInv, PoolTypeInv, HandleInv, RoomInv, Carries, registryVars
  <1>2. ASSUME NEW t \in PoolTasks, NEW job \in PoolCallType, poolAt' = [poolAt EXCEPT ![t] = job],
               poolAt[t].at = "idle", job.at = "switch"
        PROVE  PoolInv'
    <2>1. PoolArriving' = PoolArriving BY <1>2 DEF PoolArriving, PoolInv, PoolTypeInv
    <2>2. PoolTypeInv' BY <1>2 DEF PoolInv, PoolTypeInv, registryVars
    <2>3. \A u \in PoolTasks : Carries(u)' => Carries(u) /\ poolAt'[u] = poolAt[u]
      BY <1>2 DEF PoolInv, PoolTypeInv, Carries, CarryStage
    <2>4. HandleInv' BY <2>3 DEF PoolInv, HandleInv, registryVars
    <2> QED BY <2>1, <2>2, <2>4 DEF PoolInv, RoomInv
  <1> QED BY <1>1, <1>2

\* evict_one: the victim leaves the pool and the registry together.
LEMMA EvictStep ==
  ASSUME PoolInv, NEW t \in PoolTasks, NEW goal \in {"locked", "measure"},
         poolAt[t].at \in {"makeRoom", "evict"},
         PoolEvictOne(t, goal)
  PROVE  PoolInv'
  <1>1. poolAt[t] \in PoolCallType /\ Carries(t) BY DEF PoolInv, PoolTypeInv, Carries, CarryStage
  <1>2. CASE PoolReturn(t) /\ UNCHANGED <<registryVars, pool>>
    <2>1. PoolIdle \in PoolCallType /\ PoolIdle.at = "idle" BY IdleCall
    <2>2. poolAt' = [poolAt EXCEPT ![t] = PoolIdle] BY <1>2 DEF PoolReturn
    <2>3. PoolTypeInv' BY <1>2, <2>1, <2>2 DEF PoolInv, PoolTypeInv, registryVars
    <2>4. \A u \in PoolTasks : Carries(u)' => Carries(u) /\ poolAt'[u] = poolAt[u]
      BY <2>1, <2>2 DEF PoolInv, PoolTypeInv, Carries, CarryStage
    <2>5. HandleInv' BY <1>2, <2>4, HandlesKept DEF PoolInv, registryVars
    <2>6. PoolArriving' \subseteq PoolArriving BY <2>1, <2>2 DEF PoolInv, PoolTypeInv, PoolArriving
    <2>7. Cardinality(PoolArriving') <= Cardinality(PoolArriving) /\ Cardinality(PoolArriving') \in Nat
      BY <2>6, ArrivingFinite, FS_Subset, FS_CardinalityType
    <2>8. Cardinality(DOMAIN pool) \in Nat BY FS_CardinalityType DEF PoolInv, PoolTypeInv
    <2>9. RoomInv' BY <1>2, <2>7, <2>8, RoomKept, ArrivingFinite DEF PoolInv
    <2> QED BY <2>3, <2>5, <2>9 DEF PoolInv
  <1>3. CASE \E id \in DOMAIN pool : /\ pool' = Drop(pool, id) /\ UnregisterModel(pool[id].handle)
                                     /\ PoolGo(t, goal)
    <2>1. PICK id \in DOMAIN pool : /\ pool' = Drop(pool, id) /\ UnregisterModel(pool[id].handle)
                                    /\ PoolGo(t, goal)
      BY <1>3
    <2> DEFINE job == [poolAt[t] EXCEPT !.at = goal]
    <2>2. job \in PoolCallType /\ job.at = goal /\ job.handle = poolAt[t].handle
      BY <1>1 DEF PoolCallType, CarryStage
    <2>3. poolAt' = [poolAt EXCEPT ![t] = job] BY <2>1 DEF PoolGo
    <2> HIDE DEF job
    <2>4. /\ DOMAIN pool' = DOMAIN pool \ {id}
          /\ \A j \in DOMAIN pool \ {id} : pool'[j] = pool[j]
      BY <2>1 DEF Drop
    <2>5. /\ IsFiniteSet(DOMAIN pool')
          /\ Cardinality(DOMAIN pool') = Cardinality(DOMAIN pool) - 1
          /\ Cardinality(DOMAIN pool) \in Nat /\ Cardinality(DOMAIN pool') \in Nat
      BY <2>1, PoolShrinks DEF PoolInv, PoolTypeInv
    <2>6. registered' = registered \ {pool[id].handle} /\ nextId' = nextId
      BY <2>1 DEF UnregisterModel
    <2>7. PoolTypeInv' BY <2>2, <2>3, <2>4, <2>5, <2>6 DEF PoolInv, PoolTypeInv
    <2>8. \A u \in PoolTasks : Carries(u)' => Carries(u) /\ poolAt'[u].handle = poolAt[u].handle
      BY <1>1, <2>2, <2>3 DEF PoolInv, PoolTypeInv, Carries
    <2>9. HandleInv'
      <3>1. \A j \in DOMAIN pool' : j \in DOMAIN pool /\ j # id /\ pool'[j].handle = pool[j].handle
        BY <2>4
      <3>2. \A j \in DOMAIN pool' : pool'[j].handle \in registered'
        BY <2>6, <3>1 DEF PoolInv, HandleInv
      <3>3. \A u \in PoolTasks : Carries(u)' =>
              /\ poolAt'[u].handle \in registered'
              /\ \A j \in DOMAIN pool' : poolAt'[u].handle # pool'[j].handle
        <4> SUFFICES ASSUME NEW u \in PoolTasks, Carries(u)'
                     PROVE  /\ poolAt'[u].handle \in registered'
                            /\ \A j \in DOMAIN pool' : poolAt'[u].handle # pool'[j].handle
          OBVIOUS
        <4>1. Carries(u) /\ poolAt'[u].handle = poolAt[u].handle BY <2>8
        <4>2. /\ poolAt[u].handle \in registered
              /\ \A j \in DOMAIN pool : poolAt[u].handle # pool[j].handle
          BY <4>1 DEF PoolInv, HandleInv
        <4> QED BY <2>6, <3>1, <4>1, <4>2
      <3> QED BY <2>8, <3>1, <3>2, <3>3 DEF PoolInv, HandleInv
    <2>10. \/ Cardinality(PoolArriving') = Cardinality(PoolArriving)
           \/ Cardinality(PoolArriving') = Cardinality(PoolArriving) + 1
      <3>1. PoolArriving' = PoolArriving \union {t}
        BY <2>2, <2>3 DEF PoolInv, PoolTypeInv, PoolArriving
      <3> QED BY <3>1, ArrivingFinite, FS_AddElement
    <2>11. RoomInv'
      <3>1. /\ Cardinality(PoolArriving') \in Nat
            /\ Cardinality(PoolArriving') <= Cardinality(PoolArriving) + 1
        BY <2>10, ArrivingFinite
      <3> QED BY <2>5, <3>1, RoomKept, ArrivingFinite DEF PoolInv
    <2> QED BY <2>7, <2>9, <2>11 DEF PoolInv
  <1> QED BY <1>2, <1>3 DEF PoolEvictOne

\* insert: what a preload carried is in the pool, and the task goes home.
LEMMA InsertStep ==
  ASSUME PoolInv, NEW t \in PoolTasks, poolAt[t].at \in {"locked", "insert"},
         PoolInsert(poolAt[t]), PoolReturn(t), UNCHANGED registryVars
  PROVE  PoolInv'
  <1> DEFINE id == poolAt[t].id
             m == [handle |-> poolAt[t].handle, tier |-> poolAt[t].tier, bytes |-> poolAt[t].bytes,
                   idle |-> 0, uses |-> 0, warm |-> FALSE]
  <1>1. poolAt[t] \in PoolCallType /\ Carries(t) /\ t \in PoolArriving
    BY DEF PoolInv, PoolTypeInv, Carries, CarryStage, PoolArriving
  <1>2. m \in PooledType /\ m.handle = poolAt[t].handle BY <1>1 DEF PoolCallType, PooledType
  <1>3. pool' = Put(pool, id, m) BY DEF PoolInsert
  <1> HIDE DEF id, m
  <1>4. /\ DOMAIN pool' = DOMAIN pool \union {id} /\ pool'[id] = m
        /\ \A j \in DOMAIN pool \ {id} : pool'[j] = pool[j]
    BY <1>3 DEF Put
  <1>5. PoolIdle \in PoolCallType /\ PoolIdle.at = "idle" BY IdleCall
  <1>6. poolAt' = [poolAt EXCEPT ![t] = PoolIdle] BY DEF PoolReturn
  <1>7. /\ IsFiniteSet(DOMAIN pool')
        /\ Cardinality(DOMAIN pool') <= Cardinality(DOMAIN pool) + 1
        /\ Cardinality(DOMAIN pool) \in Nat /\ Cardinality(DOMAIN pool') \in Nat
    BY <1>3, PoolGrows DEF PoolInv, PoolTypeInv
  <1>8. PoolTypeInv' BY <1>2, <1>4, <1>5, <1>6, <1>7 DEF PoolInv, PoolTypeInv, registryVars
  <1>9. \A u \in PoolTasks : Carries(u)' => u # t /\ Carries(u) /\ poolAt'[u] = poolAt[u]
    BY <1>5, <1>6 DEF PoolInv, PoolTypeInv, Carries, CarryStage
  <1>10. \A j \in DOMAIN pool' : \/ j = id /\ pool'[j].handle = poolAt[t].handle
                                 \/ j # id /\ j \in DOMAIN pool /\ pool'[j].handle = pool[j].handle
    BY <1>2, <1>4
  <1>11. HandleInv' BY <1>1, <1>9, <1>10 DEF PoolInv, HandleInv, registryVars
  <1>12. Cardinality(PoolArriving') = Cardinality(PoolArriving) - 1
    BY <1>1, <1>5, <1>6, ArrivingMoves DEF PoolInv
  <1>13. RoomInv' BY <1>7, <1>12, ArrivingFinite, PoolAssumption DEF PoolInv, RoomInv
  <1> QED BY <1>8, <1>11, <1>13 DEF PoolInv

\* A look at the memory moves the task and nothing else.
LEMMA LookStep ==
  ASSUME PoolInv, NEW t \in PoolTasks, NEW goal \in {"measure", "evict", "insert"},
         poolAt[t].at \in {"locked", "measure"}, PoolGo(t, goal), UNCHANGED <<registryVars, pool>>
  PROVE  PoolInv'
  <1> DEFINE job == [poolAt[t] EXCEPT !.at = goal]
  <1>1. poolAt[t] \in PoolCallType BY DEF PoolInv, PoolTypeInv
  <1>2. job \in PoolCallType /\ job.at = goal /\ job.handle = poolAt[t].handle
    BY <1>1 DEF PoolCallType, CarryStage
  <1>3. poolAt' = [poolAt EXCEPT ![t] = job] BY DEF PoolGo
  <1> HIDE DEF job
  <1>4. PoolTypeInv' BY <1>2, <1>3 DEF PoolInv, PoolTypeInv, registryVars
  <1>5. \A u \in PoolTasks : Carries(u)' => Carries(u) /\ poolAt'[u].handle = poolAt[u].handle
    BY <1>2, <1>3 DEF PoolInv, PoolTypeInv, Carries, CarryStage
  <1>6. HandleInv' BY <1>5 DEF PoolInv, HandleInv, registryVars
  <1>7. PoolArriving' = PoolArriving BY <1>2, <1>3 DEF PoolInv, PoolTypeInv, PoolArriving
  <1> QED BY <1>4, <1>6, <1>7 DEF PoolInv, RoomInv

\* preload: the model is registered first, so its handle is new.
LEMMA PreloadKeeps ==
  ASSUME PoolInv, NEW t \in PoolTasks, NEW id \in ModelIds, NEW tier \in ModelTiers,
         NEW bytes \in 1 .. PoolMaxBytes + 1, PreloadModel(t, id, tier, bytes)
  PROVE  PoolInv'
  <1> DEFINE job == [at |-> "idle", id |-> id, handle |-> nextId, tier |-> tier, bytes |-> bytes]
             size == Cardinality(DOMAIN pool)
  <1>1. /\ nextId \in Nat \ {0} /\ registered' = registered \union {nextId} /\ nextId' = nextId + 1
        /\ registered' \subseteq 1 .. nextId' - 1 /\ nextId' \in Nat \ {0}
        /\ nextId \notin registered
    <2>1. nextId \in Nat \ {0} /\ registered \subseteq 1 .. nextId - 1 BY DEF PoolInv, PoolTypeInv
    <2>2. registered' = registered \union {nextId} /\ nextId' = nextId + 1
      BY DEF PreloadModel, RegisterOutside, RegisterModel
    <2> QED BY <2>1, <2>2
  <1>2. bytes \in Nat BY PoolAssumption
  <1>3. t \notin PoolArriving /\ poolAt[t].at = "idle" BY DEF PreloadModel, PoolArriving
  <1>4. Cardinality(PoolArriving) + 1 <= Cardinality(PoolTasks) BY <1>3, NotAllArriving
  <1>5. size \in Nat BY FS_CardinalityType DEF PoolInv, PoolTypeInv
  <1>6. CASE UNCHANGED <<pool, poolAt>>
    <2>1. PoolArriving' = PoolArriving BY <1>6 DEF PoolArriving
    <2> QED BY <1>1, <1>6, <2>1 DEF PoolInv, PoolTypeInv, HandleInv, RoomInv, Carries
  <1>7. ASSUME NEW goal \in {"makeRoom", "measure"}, goal = "measure" => size < PoolMaxModels,
               poolAt' = [poolAt EXCEPT ![t] = [job EXCEPT !.at = goal]], UNCHANGED pool
        PROVE  PoolInv'
    <2> DEFINE new == [job EXCEPT !.at = goal]
    <2>1. new \in PoolCallType /\ new.at = goal /\ new.handle = nextId
      BY <1>1, <1>2 DEF PoolCallType, CarryStage
    <2> HIDE DEF new
    <2>2. poolAt' = [poolAt EXCEPT ![t] = new] BY <1>7 DEF new
    <2>3. PoolTypeInv' BY <1>1, <1>7, <2>1, <2>2 DEF PoolInv, PoolTypeInv
    <2>4. \A u \in PoolTasks : Carries(u)' =>
            \/ u = t /\ poolAt'[u].handle = nextId
            \/ u # t /\ Carries(u) /\ poolAt'[u] = poolAt[u]
      BY <2>1, <2>2 DEF PoolInv, PoolTypeInv, Carries
    <2>5. HandleInv'
      <3>1. \A j \in DOMAIN pool : pool[j].handle \in registered /\ pool[j].handle # nextId
        BY <1>1 DEF PoolInv, HandleInv
      <3>2. \A u \in PoolTasks : Carries(u) => poolAt[u].handle \in registered /\ poolAt[u].handle # nextId
        BY <1>1 DEF PoolInv, HandleInv
      <3>3. \A u \in PoolTasks : Carries(u)' =>
              /\ poolAt'[u].handle \in registered'
              /\ \A j \in DOMAIN pool' : poolAt'[u].handle # pool'[j].handle
        <4> SUFFICES ASSUME NEW u \in PoolTasks, Carries(u)'
                     PROVE  /\ poolAt'[u].handle \in registered'
                            /\ \A j \in DOMAIN pool' : poolAt'[u].handle # pool'[j].handle
          OBVIOUS
        <4>1. CASE u = t /\ poolAt'[u].handle = nextId BY <1>1, <1>7, <3>1, <4>1
        <4>2. CASE Carries(u) /\ poolAt'[u] = poolAt[u]
          BY <1>1, <1>7, <3>2, <4>2 DEF PoolInv, HandleInv
        <4> QED BY <2>4, <4>1, <4>2
      <3>4. \A u, v \in PoolTasks :
              Carries(u)' /\ Carries(v)' /\ poolAt'[u].handle = poolAt'[v].handle => u = v
        BY <2>4, <3>2 DEF PoolInv, HandleInv
      <3> QED BY <1>1, <1>7, <3>1, <3>3, <3>4 DEF PoolInv, HandleInv
    <2>6. RoomInv'
      <3>1. CASE goal = "makeRoom"
        <4>1. Cardinality(PoolArriving') = Cardinality(PoolArriving)
          <5>1. PoolArriving' = PoolArriving
            BY <1>3, <2>1, <2>2, <3>1 DEF PoolInv, PoolTypeInv, PoolArriving
          <5> QED BY <5>1
        <4> QED BY <1>7, <4>1 DEF PoolInv, RoomInv
      <3>2. CASE goal = "measure"
        <4>1. Cardinality(PoolArriving') = Cardinality(PoolArriving) + 1
          BY <1>3, <2>1, <2>2, <3>2, ArrivingMoves DEF PoolInv
        <4> QED BY <1>4, <1>5, <1>7, <3>2, <4>1, ArrivingFinite, PoolAssumption DEF RoomInv
      <3> QED BY <3>1, <3>2
    <2> QED BY <2>3, <2>5, <2>6 DEF PoolInv
  <1>8. ASSUME id \notin DOMAIN pool, size < PoolMaxModels, PoolInsert(job), UNCHANGED poolAt
        PROVE  PoolInv'
    <2> DEFINE m == [handle |-> nextId, tier |-> tier, bytes |-> bytes, idle |-> 0, uses |-> 0, warm |-> FALSE]
    <2>1. m \in PooledType /\ m.handle = nextId BY <1>1, <1>2 DEF PooledType
    <2>2. pool' = Put(pool, id, m) BY <1>8 DEF PoolInsert
    <2> HIDE DEF m
    <2>3. /\ DOMAIN pool' = DOMAIN pool \union {id} /\ pool'[id] = m
          /\ \A j \in DOMAIN pool : pool'[j] = pool[j]
      BY <1>8, <2>2 DEF Put
    <2>4. /\ IsFiniteSet(DOMAIN pool') /\ Cardinality(DOMAIN pool') <= size + 1
          /\ Cardinality(DOMAIN pool') \in Nat
      BY <2>2, PoolGrows DEF PoolInv, PoolTypeInv
    <2>5. PoolTypeInv' BY <1>1, <1>8, <2>1, <2>3, <2>4 DEF PoolInv, PoolTypeInv
    <2>6. HandleInv' BY <1>1, <1>8, <2>1, <2>3 DEF PoolInv, HandleInv, Carries
    <2>7. PoolArriving' = PoolArriving BY <1>8 DEF PoolArriving
    <2>8. RoomInv' BY <1>4, <1>5, <1>8, <2>4, <2>7, ArrivingFinite, PoolAssumption DEF RoomInv
    <2> QED BY <2>5, <2>6, <2>8 DEF PoolInv
  <1> QED BY <1>6, <1>7, <1>8 DEF PreloadModel

LEMMA SetActiveStep ==
  ASSUME PoolInv, NEW t \in PoolTasks, SetActive(t)
  PROVE  PoolInv'
  <1>1. PoolIdle \in PoolCallType /\ PoolIdle.at = "idle" BY IdleCall
  <1>2. poolAt' = [poolAt EXCEPT ![t] = PoolIdle] /\ UNCHANGED <<registryVars, pool>>
    BY DEF SetActive, PoolReturn
  <1>3. PoolTypeInv' BY <1>1, <1>2 DEF PoolInv, PoolTypeInv, registryVars
  <1>4. \A u \in PoolTasks : Carries(u)' => Carries(u) /\ poolAt'[u] = poolAt[u]
    BY <1>1, <1>2 DEF PoolInv, PoolTypeInv, Carries, CarryStage
  <1>5. HandleInv' BY <1>2, <1>4 DEF PoolInv, HandleInv, registryVars
  <1>6. PoolArriving' = PoolArriving BY <1>1, <1>2 DEF PoolInv, PoolTypeInv, PoolArriving, SetActive
  <1> QED BY <1>2, <1>3, <1>5, <1>6 DEF PoolInv, RoomInv

\* remove: the handle stays registered.
LEMMA RemoveStep ==
  ASSUME PoolInv, NEW id, PoolRemove(id)
  PROVE  PoolInv'
  <1>1. id \in DOMAIN pool /\ pool' = Drop(pool, id) /\ UNCHANGED <<registryVars, poolAt>>
    BY DEF PoolRemove
  <1>2. DOMAIN pool' = DOMAIN pool \ {id} /\ \A j \in DOMAIN pool \ {id} : pool'[j] = pool[j]
    BY <1>1 DEF Drop
  <1>3. /\ IsFiniteSet(DOMAIN pool')
        /\ Cardinality(DOMAIN pool') = Cardinality(DOMAIN pool) - 1
        /\ Cardinality(DOMAIN pool) \in Nat /\ Cardinality(DOMAIN pool') \in Nat
    BY <1>1, PoolShrinks DEF PoolInv, PoolTypeInv
  <1>4. PoolArriving' = PoolArriving BY <1>1 DEF PoolArriving
  <1>5. PoolTypeInv' BY <1>1, <1>2, <1>3 DEF PoolInv, PoolTypeInv, registryVars
  <1>6. HandleInv' BY <1>1, <1>2 DEF PoolInv, HandleInv, Carries, registryVars
  <1>7. RoomInv' BY <1>3, <1>4, ArrivingFinite, PoolAssumption DEF PoolInv, RoomInv
  <1> QED BY <1>5, <1>6, <1>7 DEF PoolInv

LEMMA TouchStep ==
  ASSUME PoolInv,
         \/ \E id \in ModelIds : MarkWarmed(id) \/ \E t \in PoolTasks : SwitchTo(t, id)
         \/ PoolSecond
  PROVE  PoolInv'
  <1>1. \A i \in DOMAIN pool : pool[i] \in PooledType BY DEF PoolInv, PoolTypeInv
  <1>2. ASSUME NEW id \in ModelIds, MarkWarmed(id) PROVE PoolInv'
    <2>1. /\ DOMAIN pool' = DOMAIN pool
          /\ \A i \in DOMAIN pool : pool'[i] = IF i = id THEN [pool[id] EXCEPT !.warm = TRUE] ELSE pool[i]
      BY <1>2 DEF MarkWarmed
    <2>2. \A i \in DOMAIN pool : pool'[i] \in PooledType /\ pool'[i].handle = pool[i].handle
      BY <1>1, <2>1, ZenonT(40) DEF PooledType
    <2> QED BY <1>2, <2>1, <2>2, PoolTouched DEF MarkWarmed
  <1>3. ASSUME NEW id \in ModelIds, NEW t \in PoolTasks, SwitchTo(t, id) PROVE PoolInv'
    <2> DEFINE n == IF pool[id].uses < PoolMaxUses THEN pool[id].uses + 1 ELSE pool[id].uses
               m == [pool[id] EXCEPT !.idle = 0, !.uses = n]
               job == [poolAt[t] EXCEPT !.at = "switch", !.id = id]
    <2>1. id \in DOMAIN pool /\ pool' = [pool EXCEPT ![id] = m] BY <1>3 DEF SwitchTo
    <2>2. m \in PooledType /\ m.handle = pool[id].handle
      <3>1. pool[id] \in PooledType BY <1>1, <2>1
      <3>2. n \in Nat BY <3>1 DEF PooledType
      <3> HIDE DEF n
      <3> QED BY <3>1, <3>2 DEF PooledType
    <2> HIDE DEF m
    <2>3. DOMAIN pool' = DOMAIN pool /\ \A i \in DOMAIN pool : pool'[i] = IF i = id THEN m ELSE pool[i]
      BY <2>1
    <2>4. \A i \in DOMAIN pool : pool'[i] \in PooledType /\ pool'[i].handle = pool[i].handle
      BY <1>1, <2>2, <2>3
    <2>5. poolAt[t] \in PoolCallType BY DEF PoolInv, PoolTypeInv
    <2>6. job \in PoolCallType /\ job.at = "switch" BY <2>5 DEF PoolCallType
    <2>7. poolAt' = [poolAt EXCEPT ![t] = job] /\ poolAt[t].at = "idle" /\ UNCHANGED registryVars
      BY <1>3 DEF SwitchTo
    <2> HIDE DEF job
    <2> QED BY <2>3, <2>4, <2>6, <2>7, PoolTouched
  <1>4. CASE PoolSecond
    <2>1. /\ DOMAIN pool' = DOMAIN pool
          /\ \A i \in DOMAIN pool :
                pool'[i] = [pool[i] EXCEPT !.idle = IF @ < PoolMaxIdle THEN @ + 1 ELSE @]
      BY <1>4 DEF PoolSecond
    <2>2. \A i \in DOMAIN pool : pool'[i] \in PooledType /\ pool'[i].handle = pool[i].handle
      BY <1>1, <2>1 DEF PooledType
    <2> QED BY <1>4, <2>1, <2>2, PoolTouched DEF PoolSecond
  <1> QED BY <1>2, <1>3, <1>4

LEMMA PoolStep == PoolInv /\ [PoolNext]_<<registryVars, modelPoolVars>> => PoolInv'
  <1> SUFFICES ASSUME PoolInv, [PoolNext]_<<registryVars, modelPoolVars>> PROVE PoolInv' OBVIOUS
  <1>1. ASSUME NEW t \in PoolTasks, PoolMakeRoom(t) \/ PoolEvictForMemory(t) PROVE PoolInv'
    BY <1>1, EvictStep DEF PoolMakeRoom, PoolEvictForMemory
  <1>2. ASSUME NEW t \in PoolTasks, PoolLocked(t) PROVE PoolInv'
    BY <1>2, InsertStep, LookStep DEF PoolLocked
  <1>3. ASSUME NEW t \in PoolTasks, PoolMeasure(t) PROVE PoolInv'
    BY <1>3, LookStep DEF PoolMeasure
  <1>4. ASSUME NEW t \in PoolTasks, PoolFinish(t) PROVE PoolInv'
    BY <1>4, InsertStep DEF PoolFinish
  <1>5. CASE UNCHANGED <<registryVars, modelPoolVars>>
    BY <1>5, PoolTouched DEF modelPoolVars, PoolInv, PoolTypeInv
  <1> QED
    BY <1>1, <1>2, <1>3, <1>4, <1>5, PreloadKeeps, SetActiveStep, TouchStep, RemoveStep DEF PoolNext

\* For any number of tasks, models and any limits: a pooled model is registered
\* under a handle no other pooled model has, whatever preloads, evictions, switches
\* and removals race; and the pool is overfilled by at most one model for every task
\* but one (ModelPool::preload and evict_one).
THEOREM PoolCorrect == PoolSpec => []PoolConsistent
  <1>1. PoolInv => PoolConsistent BY DEF PoolInv, HandleInv, RoomInv, PoolConsistent
  <1> QED BY PoolInitial, PoolStep, <1>1, PTL DEF PoolSpec

-----------------------------------------------------------------------------
(* Tier synergy *)

CallType == [at : {"idle", "lock", "serve", "draft", "done", "failed"}, hint : SynHints,
             mode : SUBSET SynTiers, primary : TierIds \union {NoId}, draft : TierIds \union {NoId}]

SynergyType ==
    /\ tierModel \in [SynTiers -> TierIds \union {NoId}]
    /\ synergyMode \in SUBSET SynTiers
    /\ registrar \in [Registrars -> {"idle", "detect"}]
    /\ synergy \in [TierRequests -> CallType]

\* A mode is made of tiers that are registered: tiers are replaced and never
\* removed, so this outlives every later registration.
ModeInv ==
    /\ synergyMode \subseteq Available
    /\ (\A g \in Registrars : registrar[g] = "idle") => synergyMode = BestPair(Available)

\* What a call knows of the tiers holds of them still, and a call that goes for a
\* draft model has its primary.
CallInv(job) ==
    /\ job.mode \subseteq Available
    /\ job.at \in {"idle", "lock", "serve", "draft", "failed"} => job.draft = NoId
    /\ job.at \in {"serve", "draft"} => job.primary # NoId
    /\ job.draft # NoId => job.primary # NoId

SynergyInv ==
    /\ SynergyType
    /\ ModeInv
    /\ \A r \in TierRequests : CallInv(synergy[r])

-----------------------------------------------------------------------------
(* The operators *)

\* A pair is found among the tiers there are.
LEMMA PairIsThere ==
  ASSUME NEW tiers \in SUBSET SynTiers
  PROVE  /\ BestPair(tiers) \subseteq tiers
         /\ BestPair(tiers) \in {{}, LightQuality, LightBalanced, BalancedQuality}
  BY DEF BestPair, LightQuality, LightBalanced, BalancedQuality

LEMMA AvailableTiers == Available \in SUBSET SynTiers
  BY DEF Available

\* The tier chosen is one of those offered, when the order names one of them.
LEMMA FirstOfIsThere ==
  ASSUME NEW tiers, NEW order \in Seq(SynTiers), Len(order) \in 1 .. 3,
         \E i \in DOMAIN order : order[i] \in tiers
  PROVE  FirstOf(order, tiers) \in tiers /\ FirstOf(order, tiers) \in SynTiers
  <1> DEFINE First(i) == order[i] \in tiers /\ \A j \in 1 .. i - 1 : order[j] \notin tiers
  <1>1. DOMAIN order = 1 .. Len(order) OBVIOUS
  <1>2. \E i \in DOMAIN order : First(i)
    <2>1. CASE 1 \in DOMAIN order /\ order[1] \in tiers BY <1>1, <2>1
    <2>2. CASE /\ ~(1 \in DOMAIN order /\ order[1] \in tiers)
               /\ 2 \in DOMAIN order /\ order[2] \in tiers
      BY <1>1, <2>2
    <2>3. CASE /\ ~(1 \in DOMAIN order /\ order[1] \in tiers)
               /\ ~(2 \in DOMAIN order /\ order[2] \in tiers)
      <3>1. 3 \in DOMAIN order /\ order[3] \in tiers BY <1>1, <2>3
      <3>2. order[1] \notin tiers /\ order[2] \notin tiers BY <1>1, <2>3, <3>1
      <3> QED BY <3>1, <3>2
    <2> QED BY <2>1, <2>2, <2>3
  <1>3. FirstOf(order, tiers) = order[CHOOSE i \in DOMAIN order : First(i)] BY DEF FirstOf
  <1>4. /\ (CHOOSE i \in DOMAIN order : First(i)) \in DOMAIN order
        /\ First(CHOOSE i \in DOMAIN order : First(i))
    <2> HIDE DEF First
    <2> QED BY <1>2
  <1> QED BY <1>1, <1>3, <1>4

\* An order of preference names every tier.
LEMMA PreferenceNamesAll ==
  ASSUME NEW tier \in SynTiers
  PROVE  /\ Preference(tier) \in Seq(SynTiers) /\ Len(Preference(tier)) = 3
         /\ \A t \in SynTiers : \E i \in DOMAIN Preference(tier) : Preference(tier)[i] = t
  <1>1. ASSUME NEW a, NEW b, NEW c, SynTiers = {a, b, c}
        PROVE  /\ <<a, b, c>> \in Seq(SynTiers) /\ Len(<<a, b, c>>) = 3
               /\ \A t \in SynTiers : \E i \in DOMAIN <<a, b, c>> : <<a, b, c>>[i] = t
    <2> DEFINE s == <<a, b, c>>
    <2>1. s \in Seq(SynTiers) /\ DOMAIN s = 1 .. 3 /\ Len(s) = 3 BY <1>1
    <2>2. s[1] = a /\ s[2] = b /\ s[3] = c OBVIOUS
    <2> HIDE DEF s
    <2>3. \A t \in SynTiers : \E i \in DOMAIN s : s[i] = t BY <1>1, <2>1, <2>2
    <2> QED BY <2>1, <2>3 DEF s
  <1>2. CASE tier = "Light"
    <2>1. Preference(tier) = <<"Light", "Balanced", "Quality">> BY <1>2 DEF Preference
    <2> QED BY <1>1, <2>1 DEF SynTiers
  <1>3. CASE tier = "Balanced"
    <2>1. Preference(tier) = <<"Balanced", "Quality", "Light">> BY <1>3 DEF Preference
    <2>2. SynTiers = {"Balanced", "Quality", "Light"} BY DEF SynTiers
    <2> QED BY <1>1, <2>1, <2>2
  <1>4. CASE tier = "Quality"
    <2>1. Preference(tier) = <<"Quality", "Balanced", "Light">> BY <1>4 DEF Preference
    <2>2. SynTiers = {"Quality", "Balanced", "Light"} BY DEF SynTiers
    <2> QED BY <1>1, <2>1, <2>2
  <1> QED BY <1>2, <1>3, <1>4 DEF SynTiers

\* A registration replaces a model or adds one.
LEMMA TiersStay ==
  ASSUME SynergyType, NEW tier \in SynTiers, NEW id \in TierIds,
         tierModel' = [tierModel EXCEPT ![tier] = id]
  PROVE  Available \subseteq Available'
  BY TierIdsAssumption DEF SynergyType, Available

-----------------------------------------------------------------------------
LEMMA SynergyInitial == SynergyInit => SynergyInv
  <1> SUFFICES ASSUME SynergyInit PROVE SynergyInv OBVIOUS
  <1>1. Available = {} BY DEF SynergyInit, Available
  <1>2. BestPair({}) = {} BY PairIsThere
  <1>3. SynIdle \in CallType BY DEF SynIdle, CallType, SynHints
  <1>4. SynergyType BY <1>3 DEF SynergyInit, SynergyType
  <1> QED BY <1>1, <1>2, <1>4 DEF SynergyInit, SynergyInv, ModeInv, CallInv, SynIdle

\* A step of one request that leaves the tiers and the mode alone.
LEMMA RequestMoves ==
  ASSUME SynergyInv, NEW r \in TierRequests, NEW job \in CallType, CallInv(job),
         synergy' = [synergy EXCEPT ![r] = job],
         UNCHANGED <<tierModel, synergyMode, registrar>>
  PROVE  SynergyInv'
  <1>1. Available' = Available BY DEF Available
  <1>2. SynergyType' BY DEF SynergyInv, SynergyType
  <1>3. ModeInv' BY <1>1 DEF SynergyInv, ModeInv
  <1>4. ASSUME NEW q \in TierRequests PROVE CallInv(synergy[q])'
    <2>1. synergy'[q] = IF q = r THEN job ELSE synergy[q] BY DEF SynergyInv, SynergyType
    <2> QED BY <1>1, <2>1 DEF SynergyInv, CallInv
  <1> QED BY <1>2, <1>3, <1>4 DEF SynergyInv

LEMMA ServeStep ==
  ASSUME SynergyInv, NEW r \in TierRequests, ServePrimary(r)
  PROVE  SynergyInv'
  <1> DEFINE job == synergy[r]
             tier == IF Speculates(job) THEN "Quality"
                     ELSE FirstOf(Preference(HintTier(job.hint)), Candidates(job))
  <1>1. job \in CallType /\ CallInv(job) BY DEF SynergyInv, SynergyType
  <1>2. job.at = "lock" /\ UNCHANGED <<tierModel, synergyMode, registrar>> BY DEF ServePrimary
  <1>3. CASE SynFail(r)
    <2> DEFINE new == [SynIdle EXCEPT !.at = "failed"]
    <2>1. new \in CallType BY DEF SynIdle, CallType, SynHints
    <2>2. CallInv(new) BY DEF SynIdle, CallInv
    <2> QED BY <1>2, <1>3, <2>1, <2>2, RequestMoves DEF SynFail
  <1>4. CASE ~SynFail(r)
    <2>1. Speculates(job) \/ Candidates(job) # {} BY <1>4 DEF ServePrimary
    <2>2. tier \in Available
      <3>1. CASE Speculates(job) BY <1>1, <3>1 DEF Speculates, LightQuality, CallInv
      <3>2. CASE ~Speculates(job)
        <4> DEFINE order == Preference(HintTier(job.hint))
        <4>1. HintTier(job.hint) \in SynTiers BY <1>1 DEF HintTier, SynTiers
        <4>2. /\ order \in Seq(SynTiers) /\ Len(order) = 3
              /\ \A t \in SynTiers : \E i \in DOMAIN order : order[i] = t
          BY <4>1, PreferenceNamesAll DEF order
        <4>3. Candidates(job) \subseteq Available BY DEF Candidates
        <4> HIDE DEF order
        <4>4. \E i \in DOMAIN order : order[i] \in Candidates(job)
          BY <2>1, <3>2, <4>2, <4>3, AvailableTiers
        <4>5. FirstOf(order, Candidates(job)) \in Candidates(job) BY <4>2, <4>4, FirstOfIsThere
        <4> QED BY <3>2, <4>3, <4>5 DEF order
      <3> QED BY <3>1, <3>2
    <2> HIDE DEF tier
    <2>3. tierModel[tier] \in TierIds /\ tierModel[tier] # NoId
      BY <2>2 DEF Available, SynergyInv, SynergyType
    <2> DEFINE stage == IF Speculates(job) THEN "serve" ELSE "done"
               new == [job EXCEPT !.primary = tierModel[tier], !.at = stage]
    <2>4. synergy' = [synergy EXCEPT ![r].primary = tierModel[tier], ![r].at = stage]
      BY <1>4 DEF ServePrimary, tier
    <2>5. synergy' = [synergy EXCEPT ![r] = new] BY <2>4 DEF SynergyInv, SynergyType
    <2>6. new \in CallType BY <1>1, <2>3 DEF CallType
    <2>7. CallInv(new) BY <1>1, <1>2, <2>3 DEF CallInv, CallType
    <2> HIDE DEF new
    <2> QED BY <1>2, <2>5, <2>6, <2>7, RequestMoves
  <1> QED BY <1>3, <1>4

\* A plan has a primary when it has a draft.
LEMMA PlanStep ==
  ASSUME SynergyInv, NEW r \in TierRequests, NEW hint \in SynTiers, NEW gpu \in BOOLEAN,
         NEW speculate \in BOOLEAN, SelectPlan(r, hint, gpu, speculate)
  PROVE  SynergyInv'
  <1> DEFINE best == BestPair(Available)
             pair == IF speculate /\ (best = BalancedQuality => gpu) THEN best ELSE {}
             primary == IF pair = {} THEN BestSingleTier(Available, hint)
                        ELSE FirstOf(<<"Quality", "Balanced">>, pair)
             first == FirstOf(<<"Light", "Balanced">>, pair)
             draft == IF pair = {} THEN NoId ELSE tierModel[first]
             new == [SynIdle EXCEPT !.at = "done", !.mode = pair, !.primary = tierModel[primary], !.draft = draft]
  <1>1. synergy' = [synergy EXCEPT ![r] = new] /\ UNCHANGED <<tierModel, synergyMode, registrar>>
    BY DEF SelectPlan
  <1>2. /\ pair \in {{}, LightQuality, LightBalanced, BalancedQuality}
        /\ pair \subseteq Available /\ pair \subseteq SynTiers
    BY PairIsThere, AvailableTiers
  <1> HIDE DEF pair, best
  <1>3. pair # {} => first \in pair /\ primary \in pair
    <2> SUFFICES ASSUME pair # {} PROVE first \in pair /\ primary \in pair OBVIOUS
    <2> DEFINE lower == <<"Light", "Balanced">>
               upper == <<"Quality", "Balanced">>
    <2>1. /\ lower \in Seq(SynTiers) /\ Len(lower) = 2 /\ DOMAIN lower = 1 .. 2
          /\ upper \in Seq(SynTiers) /\ Len(upper) = 2 /\ DOMAIN upper = 1 .. 2
      BY DEF SynTiers
    <2>2. (lower[1] \in pair \/ lower[2] \in pair) /\ (upper[1] \in pair \/ upper[2] \in pair)
      BY <1>2 DEF LightQuality, LightBalanced, BalancedQuality
    <2> HIDE DEF lower, upper
    <2>3. FirstOf(lower, pair) \in pair BY <2>1, <2>2, FirstOfIsThere
    <2>4. FirstOf(upper, pair) \in pair BY <2>1, <2>2, FirstOfIsThere
    <2> QED BY <2>3, <2>4 DEF lower, upper
  <1>4. primary \in SynTiers
    <2>1. CASE pair # {} BY <1>2, <1>3, <2>1
    <2>2. CASE pair = {}
      <3> DEFINE order == <<"Quality", "Balanced", "Light">>
      <3>1. /\ order \in Seq(SynTiers) /\ Len(order) = 3
            /\ \A t \in SynTiers : \E i \in DOMAIN order : order[i] = t
        BY DEF SynTiers
      <3> HIDE DEF order
      <3>2. Available # {} => FirstOf(order, Available) \in SynTiers
        BY <3>1, AvailableTiers, FirstOfIsThere
      <3>3. BestSingleTier(Available, hint) \in SynTiers
        BY <3>2 DEF BestSingleTier, order, SynTiers
      <3> QED BY <2>2, <3>3
    <2> QED BY <2>1, <2>2
  <1> HIDE DEF primary, first
  <1>5. tierModel[primary] \in TierIds \union {NoId} /\ draft \in TierIds \union {NoId}
    BY <1>2, <1>3, <1>4 DEF SynergyInv, SynergyType
  <1>6. draft # NoId => tierModel[primary] # NoId BY <1>2, <1>3 DEF Available
  <1> HIDE DEF draft
  <1>7. new \in CallType BY <1>2, <1>5 DEF SynIdle, CallType, SynHints
  <1>8. CallInv(new) BY <1>2, <1>6 DEF SynIdle, CallInv
  <1> HIDE DEF new
  <1> QED BY <1>1, <1>7, <1>8, RequestMoves

LEMMA AskStep ==
  ASSUME SynergyInv, NEW r \in TierRequests, NEW hint \in SynHints, SynergyRequest(r, hint)
  PROVE  SynergyInv'
  <1> DEFINE new == [SynIdle EXCEPT !.at = "lock", !.hint = hint, !.mode = synergyMode]
  <1>1. new \in CallType BY DEF SynIdle, CallType, SynergyInv, SynergyType
  <1>2. CallInv(new) BY DEF SynIdle, CallInv, SynergyInv, ModeInv
  <1> QED BY <1>1, <1>2, RequestMoves DEF SynergyRequest

LEMMA DraftStep ==
  ASSUME SynergyInv, NEW r \in TierRequests, ServeDraft(r) \/ GetDraft(r) \/ NextSynergyRequest(r)
  PROVE  SynergyInv'
  <1>1. synergy[r] \in CallType /\ CallInv(synergy[r]) BY DEF SynergyInv, SynergyType
  <1>2. UNCHANGED <<tierModel, synergyMode, registrar>>
    BY DEF ServeDraft, GetDraft, NextSynergyRequest
  <1>3. CASE ServeDraft(r)
    <2>1. PICK stage \in {"done", "draft"} : synergy' = [synergy EXCEPT ![r].at = stage]
      BY <1>3 DEF ServeDraft
    <2> DEFINE new == [synergy[r] EXCEPT !.at = stage]
    <2>2. synergy' = [synergy EXCEPT ![r] = new] BY <2>1
    <2>3. new \in CallType BY <1>1 DEF CallType
    <2>4. CallInv(new) BY <1>1, <1>3 DEF CallInv, CallType, ServeDraft
    <2> HIDE DEF new
    <2> QED BY <1>2, <2>2, <2>3, <2>4, RequestMoves
  <1>4. CASE GetDraft(r)
    <2>1. CASE SynFail(r)
      <3> DEFINE new == [SynIdle EXCEPT !.at = "failed"]
      <3>1. new \in CallType BY DEF SynIdle, CallType, SynHints
      <3>2. CallInv(new) BY DEF SynIdle, CallInv
      <3> QED BY <1>2, <2>1, <3>1, <3>2, RequestMoves DEF SynFail
    <2>2. CASE ~SynFail(r)
      <3> DEFINE new == [synergy[r] EXCEPT !.at = "done", !.draft = tierModel["Light"]]
      <3>1. synergy' = [synergy EXCEPT ![r] = new] BY <1>4, <2>2 DEF GetDraft
      <3>2. tierModel["Light"] \in TierIds \union {NoId} BY DEF SynergyInv, SynergyType, SynTiers
      <3>3. new \in CallType BY <1>1, <3>2 DEF CallType
      <3>4. CallInv(new) BY <1>1, <1>4 DEF CallInv, CallType, GetDraft
      <3> HIDE DEF new
      <3> QED BY <1>2, <3>1, <3>3, <3>4, RequestMoves
    <2> QED BY <2>1, <2>2
  <1>5. CASE NextSynergyRequest(r)
    <2>1. SynIdle \in CallType BY DEF SynIdle, CallType, SynHints
    <2>2. CallInv(SynIdle) BY DEF SynIdle, CallInv
    <2> QED BY <1>2, <1>5, <2>1, <2>2, RequestMoves DEF NextSynergyRequest
  <1> QED BY <1>3, <1>4, <1>5

LEMMA SynergyStep == SynergyInv /\ [SynergyNext]_synergyVars => SynergyInv'
  <1> SUFFICES ASSUME SynergyInv, [SynergyNext]_synergyVars PROVE SynergyInv' OBVIOUS
  <1>1. ASSUME NEW g \in Registrars, NEW tier \in SynTiers, NEW id \in TierIds, RegisterTier(g, tier, id)
        PROVE  SynergyInv'
    <2>1. Available \subseteq Available' BY <1>1, TiersStay DEF RegisterTier, SynergyInv
    <2>2. SynergyType' BY <1>1 DEF RegisterTier, SynergyInv, SynergyType
    <2>3. registrar'[g] = "detect" BY <1>1 DEF RegisterTier, SynergyInv, SynergyType
    <2>4. ModeInv' BY <1>1, <2>1, <2>3 DEF RegisterTier, SynergyInv, ModeInv
    <2>5. \A r \in TierRequests : CallInv(synergy[r])'
      BY <1>1, <2>1 DEF RegisterTier, SynergyInv, CallInv
    <2> QED BY <2>2, <2>4, <2>5 DEF SynergyInv
  <1>2. ASSUME NEW g \in Registrars, DetectOptimalMode(g) PROVE SynergyInv'
    <2>1. Available' = Available BY <1>2 DEF DetectOptimalMode, Available
    <2>2. synergyMode' = BestPair(Available) BY <1>2 DEF DetectOptimalMode
    <2>3. synergyMode' \subseteq Available BY <2>2, PairIsThere, AvailableTiers
    <2>4. SynergyType' BY <1>2, <2>3, AvailableTiers DEF DetectOptimalMode, SynergyInv, SynergyType
    <2>5. ModeInv' BY <2>1, <2>2, <2>3 DEF ModeInv
    <2>6. \A r \in TierRequests : CallInv(synergy[r])'
      BY <1>2, <2>1 DEF DetectOptimalMode, SynergyInv, CallInv
    <2> QED BY <2>4, <2>5, <2>6 DEF SynergyInv
  <1>3. ASSUME NEW r \in TierRequests, NEW service \in ServiceTiers, ServiceRequest(r, service)
        PROVE  SynergyInv'
    <2>1. TierToLoadHint(service) \in SynHints BY DEF TierToLoadHint, ServiceTiers, SynHints
    <2> QED BY <1>3, <2>1, AskStep DEF ServiceRequest
  <1>4. CASE (\E id \in TierIds : LoaderUnloads(id)) \/ UNCHANGED synergyVars
    <2>1. UNCHANGED <<tierModel, synergyMode, registrar, synergy>>
      BY <1>4 DEF LoaderUnloads, synergyVars
    <2>2. Available' = Available BY <2>1 DEF Available
    <2> QED BY <2>1, <2>2 DEF SynergyInv, SynergyType, ModeInv, CallInv
  <1> QED
    BY <1>1, <1>2, <1>3, <1>4, AskStep, PlanStep, ServeStep, DraftStep DEF SynergyNext

\* For any number of registrations and requests: when no registration is under way
\* the mode is the best pair of the tiers registered; every request's mode names
\* registered tiers to its end, so the models it unwraps are there; and a draft
\* never comes without a primary (TierSynergy::register_tier, request).
THEOREM ModeCorrect == SynergySpec => []ModeFollowsTiers
  <1>1. SynergyInv => ModeFollowsTiers BY DEF SynergyInv, ModeInv, CallInv, ModeFollowsTiers
  <1> QED BY SynergyInitial, SynergyStep, <1>1, PTL DEF SynergySpec

-----------------------------------------------------------------------------
(* Shutdown *)

USE RequestsAssumption

\* The counter is the number of guards.
CountInv == inFlight = Cardinality(Holding)

\* Once draining began, a request between the test and the count was there at the
\* beginning; and there is no result before the beginning.
RaceInv ==
    /\ drain = "idle" => result = "none"
    /\ drain # "idle" =>
         /\ state # "Running"
         /\ \A r \in Requests : request[r] = "accepted" => r \in raced

ShutdownInv == ShutdownTypeOK /\ CountInv /\ RaceInv /\ OnlyRacersOutlive

-----------------------------------------------------------------------------
\* The guards are finitely many, and taking or dropping one changes their number by one.
LEMMA HoldingFinite == IsFiniteSet(Holding) /\ Cardinality(Holding) \in Nat
  <1>1. Holding \subseteq Requests BY DEF Holding
  <1> QED BY <1>1, FS_Subset, FS_CardinalityType

LEMMA OneMore ==
  ASSUME NEW r \in Requests, request[r] # "tracked", request \in [Requests -> RequestStage],
         request' = [request EXCEPT ![r] = "tracked"]
  PROVE  Holding' = Holding \union {r} /\ Cardinality(Holding') = Cardinality(Holding) + 1
  <1>1. Holding' = Holding \union {r} /\ r \notin Holding BY DEF Holding
  <1> QED BY <1>1, HoldingFinite, FS_AddElement

LEMMA OneLess ==
  ASSUME NEW r \in Requests, request[r] = "tracked", request \in [Requests -> RequestStage],
         request' = [request EXCEPT ![r] = "leaving"]
  PROVE  /\ Holding' = Holding \ {r}
         /\ Cardinality(Holding') = Cardinality(Holding) - 1
         /\ Cardinality(Holding) > 0
  <1>1. Holding' = Holding \ {r} /\ r \in Holding BY DEF Holding
  <1>2. Cardinality(Holding') = Cardinality(Holding) - 1
    BY <1>1, HoldingFinite, FS_RemoveElement
  <1>3. Cardinality(Holding) > 0 BY <1>1, HoldingFinite, FS_EmptySet
  <1> QED BY <1>1, <1>2, <1>3

-----------------------------------------------------------------------------
LEMMA ShutdownInitial == ShutdownInit => ShutdownInv
  <1> SUFFICES ASSUME ShutdownInit PROVE ShutdownInv OBVIOUS
  <1>1. Holding = {} BY DEF ShutdownInit, Holding
  <1>2. Cardinality(Holding) = 0 BY <1>1, FS_EmptySet
  <1> QED
    BY <1>1, <1>2 DEF ShutdownInit, ShutdownInv, ShutdownTypeOK, CountInv, RaceInv, OnlyRacersOutlive, RequestStage

LEMMA ShutdownStep == ShutdownInv /\ [ShutdownNext]_shutdownVars => ShutdownInv'
  <1> SUFFICES ASSUME ShutdownInv, [ShutdownNext]_shutdownVars PROVE ShutdownInv' OBVIOUS
  <1> USE DEF ShutdownInv, ShutdownTypeOK, CountInv, RaceInv, OnlyRacersOutlive, RequestStage
  <1>1. ASSUME NEW r \in Requests, IsAccepting(r) PROVE ShutdownInv'
    <2>1. Holding' = Holding BY <1>1 DEF IsAccepting, RequestTo, Holding
    <2> QED BY <1>1, <2>1 DEF IsAccepting, RequestTo
  <1>2. ASSUME NEW r \in Requests, Track(r) PROVE ShutdownInv'
    <2>1. Holding' = Holding \union {r} /\ Cardinality(Holding') = Cardinality(Holding) + 1
      BY <1>2, OneMore DEF Track, RequestTo
    <2> QED BY <1>2, <2>1 DEF Track, RequestTo
  <1>3. ASSUME NEW r \in Requests, Uncount(r) PROVE ShutdownInv'
    <2>1. /\ Holding' = Holding \ {r} /\ Cardinality(Holding') = Cardinality(Holding) - 1
          /\ Cardinality(Holding) > 0
      BY <1>3, OneLess DEF Uncount, RequestTo
    <2>2. inFlight' \in Nat BY <1>3, <2>1 DEF Uncount
    <2> QED BY <1>3, <2>1, <2>2 DEF Uncount, RequestTo
  <1>4. ASSUME NEW r \in Requests, NotifyDrain(r) PROVE ShutdownInv'
    <2>1. Holding' = Holding BY <1>4 DEF NotifyDrain, RequestTo, Holding
    <2> QED BY <1>4, <2>1 DEF NotifyDrain, RequestTo
  <1>5. CASE Initiate
    <2>1. Holding' = Holding BY <1>5 DEF Initiate, Holding
    <2> QED BY <1>5, <2>1 DEF Initiate
  <1>6. CASE CheckCount \/ TimeIsUp
    \* With a count of zero there is no guard.
    <2>1. Holding' = Holding BY <1>6 DEF CheckCount, TimeIsUp, Holding
    <2>2. inFlight = 0 => Holding = {} BY HoldingFinite, FS_EmptySet
    <2>3. ShutdownInv' \/ ~(CheckCount) BY <2>1, <2>2 DEF CheckCount, Finish
    <2>4. ShutdownInv' \/ ~(TimeIsUp) BY <2>1, <2>2 DEF TimeIsUp, Finish
    <2> QED BY <1>6, <2>3, <2>4
  <1>7. CASE Notified \/ Stop
    <2>1. Holding' = Holding BY <1>7 DEF Notified, Stop, Holding
    <2> QED BY <1>7, <2>1 DEF Notified, Stop
  <1>8. CASE UNCHANGED shutdownVars
    <2>1. Holding' = Holding BY <1>8 DEF shutdownVars, Holding
    <2> QED BY <1>8, <2>1 DEF shutdownVars
  <1> QED
    BY <1>1, <1>2, <1>3, <1>4, <1>5, <1>6, <1>7, <1>8 DEF ShutdownNext, RequestStep, Drain

\* For any number of requests: a shutdown that ShutdownCoordinator reports as
\* complete has drained every request counted before it began, and admitted none
\* after; what is still in flight was between track's test and its count.
THEOREM DrainedCorrect == ShutdownSpec => []OnlyRacersOutlive
  <1>1. ShutdownInv => OnlyRacersOutlive BY DEF ShutdownInv
  <1> QED BY ShutdownInitial, ShutdownStep, <1>1, PTL DEF ShutdownSpec

\* The atomic counter of ShutdownCoordinator never goes below zero and all its
\* state stays within its types.
THEOREM ShutdownTypeCorrect == ShutdownSpec => []ShutdownTypeOK
  <1>1. ShutdownInv => ShutdownTypeOK BY DEF ShutdownInv
  <1> QED BY ShutdownInitial, ShutdownStep, <1>1, PTL DEF ShutdownSpec

-----------------------------------------------------------------------------
(* Slots *)

USE LimitsAssumption

\* The calls that have added a slot to the counter, and those among them that were
\* within the limit when they did.
Slots == {c \in Calls : call[c] \in {"overSlots", "held", "dropping"}}
Within == {c \in Calls : call[c] \in {"held", "dropping"}}

\* The counter is the number of slots added and not yet given back, which is at
\* least the number within the limit: a call that reads less than max_concurrent
\* finds room among them.
SlotInv ==
    /\ call \in [Calls -> CallStage]
    /\ concurrent = Cardinality(Slots)
    /\ Cardinality(Within) <= MaxConcurrent

-----------------------------------------------------------------------------
\* The sets are finite, one within the other.
LEMMA SlotsFinite ==
  /\ IsFiniteSet(Slots) /\ Cardinality(Slots) \in Nat
  /\ IsFiniteSet(Within) /\ Cardinality(Within) \in Nat
  /\ Cardinality(Within) <= Cardinality(Slots)
  <1>1. Slots \subseteq Calls /\ Within \subseteq Slots BY DEF Slots, Within
  <1>2. IsFiniteSet(Slots) /\ Cardinality(Slots) \in Nat BY <1>1, FS_Subset, FS_CardinalityType
  <1> QED BY <1>1, <1>2, FS_Subset, FS_CardinalityType

\* A call that moves within or outside the slots changes neither set's size.
LEMMA SameSlots ==
  ASSUME SlotInv, NEW c \in Calls, NEW s \in CallStage, CallTo(c, s),
         call[c] \notin {"overSlots", "held", "dropping"},
         s \notin {"overSlots", "held", "dropping"},
         concurrent' = concurrent
  PROVE  SlotInv'
  <1>1. Slots' = Slots /\ Within' = Within BY DEF SlotInv, CallTo, Slots, Within
  <1> QED BY <1>1 DEF SlotInv, CallTo

LEMMA SlotsInit == LimitsInit => SlotInv
  <1> SUFFICES ASSUME LimitsInit PROVE SlotInv OBVIOUS
  <1>1. Slots = {} /\ Within = {} BY DEF LimitsInit, Slots, Within
  <1>2. Cardinality(Slots) = 0 /\ Cardinality(Within) = 0 BY <1>1, FS_EmptySet
  <1> QED BY <1>2 DEF LimitsInit, SlotInv, CallStage

LEMMA SlotsStep == SlotInv /\ [LimitsNext]_limitsVars => SlotInv'
  <1> SUFFICES ASSUME SlotInv, [LimitsNext]_limitsVars PROVE SlotInv' OBVIOUS
  <1>1. ASSUME NEW c \in Calls, RefusePerCall(c) PROVE SlotInv'
    <2>1. Slots' = Slots /\ Within' = Within BY <1>1 DEF RefusePerCall, limitsVars, Slots, Within
    <2> QED BY <1>1, <2>1 DEF SlotInv, RefusePerCall, limitsVars
  <1>2. ASSUME NEW c \in Calls, ReserveMemory(c) PROVE SlotInv'
    BY <1>2, SameSlots DEF ReserveMemory, CallStage
  <1>3. ASSUME NEW c \in Calls, GiveBackMemory(c) PROVE SlotInv'
    BY <1>3, SameSlots DEF GiveBackMemory, CallStage
  <1>4. ASSUME NEW c \in Calls, ReserveSlot(c) PROVE SlotInv'
    <2>1. call[c] = "reserved" /\ concurrent' = concurrent + 1
      BY <1>4 DEF ReserveSlot
    <2>2. Slots' = Slots \union {c} /\ c \notin Slots
      BY <1>4 DEF ReserveSlot, CallTo, SlotInv, Slots
    <2>3. Cardinality(Slots') = Cardinality(Slots) + 1 BY <2>2, SlotsFinite, FS_AddElement
    <2>4. CASE concurrent >= MaxConcurrent
      <3>1. Within' = Within BY <1>4, <2>4 DEF ReserveSlot, CallTo, SlotInv, Within
      <3> QED BY <1>4, <2>1, <2>3, <3>1, <2>4 DEF ReserveSlot, CallTo, SlotInv, CallStage
    <2>5. CASE ~(concurrent >= MaxConcurrent)
      <3>1. Within' = Within \union {c} /\ c \notin Within
        BY <1>4, <2>5 DEF ReserveSlot, CallTo, SlotInv, Within
      <3>2. Cardinality(Within') = Cardinality(Within) + 1 BY <3>1, SlotsFinite, FS_AddElement
      <3>3. Cardinality(Within) + 1 <= MaxConcurrent
        BY <2>5, SlotsFinite DEF SlotInv
      <3> QED BY <1>4, <2>1, <2>3, <3>2, <3>3, <2>5 DEF ReserveSlot, CallTo, SlotInv, CallStage
    <2> QED BY <2>4, <2>5
  <1>5. ASSUME NEW c \in Calls, GiveBackSlot(c) PROVE SlotInv'
    <2>1. Slots' = Slots \ {c} /\ c \in Slots /\ Within' = Within
      BY <1>5 DEF GiveBackSlot, CallTo, SlotInv, Slots, Within
    <2>2. Cardinality(Slots') = Cardinality(Slots) - 1 BY <2>1, SlotsFinite, FS_RemoveElement
    <2> QED BY <1>5, <2>1, <2>2 DEF GiveBackSlot, CallTo, SlotInv, CallStage
  <1>6. ASSUME NEW c \in Calls, DropMemory(c) PROVE SlotInv'
    <2>1. Slots' = Slots /\ Within' = Within
      BY <1>6 DEF DropMemory, CallTo, SlotInv, Slots, Within
    <2> QED BY <1>6, <2>1 DEF DropMemory, CallTo, SlotInv, CallStage
  <1>7. ASSUME NEW c \in Calls, DropSlot(c) PROVE SlotInv'
    <2>1. /\ Slots' = Slots \ {c} /\ c \in Slots
          /\ Within' = Within \ {c} /\ c \in Within
      BY <1>7 DEF DropSlot, CallTo, SlotInv, Slots, Within
    <2>2. /\ Cardinality(Slots') = Cardinality(Slots) - 1
          /\ Cardinality(Within') = Cardinality(Within) - 1
      BY <2>1, SlotsFinite, FS_RemoveElement
    <2>3. Cardinality(Within') <= MaxConcurrent BY <2>2, SlotsFinite DEF SlotInv
    <2> QED BY <1>7, <2>2, <2>3 DEF DropSlot, CallTo, SlotInv, CallStage
  <1>8. CASE UNCHANGED limitsVars
    <2>1. Slots' = Slots /\ Within' = Within BY <1>8 DEF limitsVars, Slots, Within
    <2> QED BY <1>8, <2>1 DEF SlotInv, limitsVars
  <1> QED
    BY <1>1, <1>2, <1>3, <1>4, <1>5, <1>6, <1>7, <1>8 DEF LimitsNext, TryAcquire, Release

\* For any number of callers and any limits, ResourceLimits never lets more than
\* max_concurrent guards exist, although the counter it tests overshoots.
THEOREM SlotsCorrect == LimitsSpec => []SlotsWithinLimit
  <1>1. SlotInv => SlotsWithinLimit
    <2> SUFFICES ASSUME SlotInv PROVE SlotsWithinLimit OBVIOUS
    <2>1. In({"held"}) \subseteq Within BY DEF In, Within
    <2>2. /\ Cardinality(In({"held"})) <= Cardinality(Within)
          /\ Cardinality(In({"held"})) \in Nat
      BY <2>1, SlotsFinite, FS_Subset, FS_CardinalityType
    <2> QED BY <2>2, SlotsFinite DEF SlotsWithinLimit, SlotInv
  <1> QED BY SlotsInit, SlotsStep, <1>1, PTL DEF LimitsSpec

-----------------------------------------------------------------------------
(* Memory *)

\* The calls whose memory the counter contains, and those among them that were
\* within the limit when they added it.
Reserved == {c \in Calls : call[c] \in {"reserved", "overMemory", "overSlots", "slotBack", "held"}}
Granted == {c \in Calls : call[c] \in {"reserved", "overSlots", "slotBack", "held"}}

\* The counter is the memory added and not yet given back, which is at least what
\* was granted: a call that reads no more than max_total_memory fits beside it.
MemInv ==
    /\ call \in [Calls -> CallStage]
    /\ \A c \in Reserved : MemoryOf[c] <= MaxPerCall
    /\ memory = MemoryHeld(Reserved)
    /\ MemoryHeld(Granted) <= MaxTotal

\* The memory of a set of calls is finite, grows with the set, and by a call's own
\* share when the call joins.
LEMMA HeldFinite ==
  ASSUME NEW S \in SUBSET Calls, \A c \in S : MemoryOf[c] <= MaxPerCall
  PROVE  IsFiniteSet(Bytes(S)) /\ MemoryHeld(S) \in Nat
  <1>1. IsFiniteSet(1 .. MaxPerCall) BY FS_Interval
  <1>2. IsFiniteSet(Calls \X (1 .. MaxPerCall)) BY <1>1, FS_Product
  <1>3. Bytes(S) \subseteq Calls \X (1 .. MaxPerCall)
    <2> SUFFICES ASSUME NEW c \in S, NEW x \in {c} \X (1 .. MemoryOf[c])
                 PROVE  x \in Calls \X (1 .. MaxPerCall)
      BY DEF Bytes
    <2>1. 1 .. MemoryOf[c] \subseteq 1 .. MaxPerCall OBVIOUS
    <2> QED BY <2>1
  <1> QED BY <1>2, <1>3, FS_Subset, FS_CardinalityType DEF MemoryHeld

LEMMA HeldGrows ==
  ASSUME NEW S \in SUBSET Calls, NEW T \in SUBSET S, \A c \in S : MemoryOf[c] <= MaxPerCall
  PROVE  MemoryHeld(T) <= MemoryHeld(S)
  <1>1. Bytes(T) \subseteq Bytes(S) BY DEF Bytes
  <1> QED BY <1>1, HeldFinite, FS_Subset DEF MemoryHeld

LEMMA HeldJoins ==
  ASSUME NEW S \in SUBSET Calls, NEW c \in Calls, c \notin S,
         \A d \in S \union {c} : MemoryOf[d] <= MaxPerCall
  PROVE  MemoryHeld(S \union {c}) = MemoryHeld(S) + MemoryOf[c]
  <1> DEFINE B == {c} \X (1 .. MemoryOf[c])
  <1>1. Bytes(S \union {c}) = Bytes(S) \union B BY DEF Bytes
  <1>2. Bytes(S) \intersect B = {} BY DEF Bytes
  <1>3. IsFiniteSet(B) /\ Cardinality(B) = MemoryOf[c]
    <2>1. MemoryOf[c] \in Nat OBVIOUS
    <2>2. IsFiniteSet(1 .. MemoryOf[c]) /\ Cardinality(1 .. MemoryOf[c]) = MemoryOf[c]
      BY <2>1, FS_Interval
    <2>3. IsFiniteSet({c}) /\ Cardinality({c}) = 1 BY FS_Singleton
    <2>4. IsFiniteSet(B) /\ Cardinality(B) = 1 * MemoryOf[c] BY <2>2, <2>3, FS_Product, ZenonT(40)
    <2> QED BY <2>1, <2>4
  <1>4. IsFiniteSet(Bytes(S)) /\ Cardinality(Bytes(S)) \in Nat BY HeldFinite DEF MemoryHeld
  <1>5. Cardinality(Bytes(S) \union B)
          = Cardinality(Bytes(S)) + Cardinality(B) - Cardinality(Bytes(S) \intersect B)
    <2> HIDE DEF B
    <2> QED BY <1>3, <1>4, FS_Union
  <1>6. Cardinality(Bytes(S) \intersect B) = 0 BY <1>2, FS_EmptySet
  <1>7. MemoryOf[c] \in Nat OBVIOUS
  <1> HIDE DEF B
  <1>8. Cardinality(Bytes(S \union {c})) = Cardinality(Bytes(S) \union B) BY <1>1
  <1>9. Cardinality(Bytes(S) \union B) = Cardinality(Bytes(S)) + MemoryOf[c] - 0
    BY <1>3, <1>5, <1>6
  <1>10. Cardinality(Bytes(S)) + MemoryOf[c] - 0 = Cardinality(Bytes(S)) + MemoryOf[c]
    BY <1>4, <1>7
  <1> QED BY <1>8, <1>9, <1>10 DEF MemoryHeld

LEMMA HeldLeaves ==
  ASSUME NEW S \in SUBSET Calls, NEW c \in S, \A d \in S : MemoryOf[d] <= MaxPerCall
  PROVE  MemoryHeld(S \ {c}) = MemoryHeld(S) - MemoryOf[c]
  <1>1. S = (S \ {c}) \union {c} OBVIOUS
  <1>2. MemoryHeld(S) = MemoryHeld(S \ {c}) + MemoryOf[c] BY <1>1, HeldJoins
  <1>3. MemoryHeld(S \ {c}) \in Nat /\ MemoryOf[c] \in Nat BY HeldFinite
  <1> QED BY <1>2, <1>3

LEMMA GrantedReserved == Granted \subseteq Reserved /\ Reserved \subseteq Calls
  BY DEF Granted, Reserved

LEMMA MemInit == LimitsInit => MemInv
  <1> SUFFICES ASSUME LimitsInit PROVE MemInv OBVIOUS
  <1>1. Reserved = {} /\ Granted = {} BY DEF LimitsInit, Reserved, Granted
  <1>2. Bytes({}) = {} BY DEF Bytes
  <1>3. MemoryHeld(Reserved) = 0 /\ MemoryHeld(Granted) = 0
    BY <1>1, <1>2, FS_EmptySet DEF MemoryHeld
  <1> QED BY <1>1, <1>3 DEF LimitsInit, MemInv, CallStage

\* A call that keeps its memory, or has none, changes nothing.
LEMMA SameMemory ==
  ASSUME MemInv, call' \in [Calls -> CallStage], Reserved' = Reserved, Granted' = Granted,
         memory' = memory
  PROVE  MemInv'
  <1>1. MemoryHeld(Reserved') = MemoryHeld(Reserved) /\ MemoryHeld(Granted') = MemoryHeld(Granted)
    OBVIOUS
  <1> QED BY <1>1 DEF MemInv

LEMMA MemStep == MemInv /\ [LimitsNext]_limitsVars => MemInv'
  <1> SUFFICES ASSUME MemInv, [LimitsNext]_limitsVars PROVE MemInv' OBVIOUS
  <1>0. /\ MemoryHeld(Reserved) \in Nat /\ MemoryHeld(Granted) \in Nat
        /\ MemoryHeld(Granted) <= MemoryHeld(Reserved)
    BY HeldFinite, HeldGrows, GrantedReserved DEF MemInv
  <1>1. ASSUME NEW c \in Calls, ReserveMemory(c) PROVE MemInv'
    <2>1. c \notin Reserved /\ c \notin Granted /\ Reserved' = Reserved \union {c}
      BY <1>1 DEF ReserveMemory, CallTo, MemInv, Reserved, Granted
    <2>2. call' \in [Calls -> CallStage] /\ memory' = memory + MemoryOf[c]
      BY <1>1 DEF ReserveMemory, CallTo, MemInv, CallStage
    <2>3. \A d \in Reserved \union {c} : MemoryOf[d] <= MaxPerCall
      BY <1>1 DEF ReserveMemory, MemInv
    <2>4. MemoryHeld(Reserved') = MemoryHeld(Reserved) + MemoryOf[c]
      BY <2>1, <2>3, HeldJoins, GrantedReserved
    <2>5. MemoryHeld(Granted') <= MaxTotal
      <3>1. CASE memory + MemoryOf[c] > MaxTotal
        <4>1. Granted' = Granted BY <1>1, <3>1 DEF ReserveMemory, CallTo, MemInv, Granted
        <4> QED BY <4>1 DEF MemInv
      <3>2. CASE ~(memory + MemoryOf[c] > MaxTotal)
        <4>1. Granted' = Granted \union {c}
          BY <1>1, <3>2 DEF ReserveMemory, CallTo, MemInv, Granted
        <4>2. MemoryHeld(Granted') = MemoryHeld(Granted) + MemoryOf[c]
          BY <2>1, <2>3, <4>1, HeldJoins, GrantedReserved
        <4>3. memory = MemoryHeld(Reserved) BY DEF MemInv
        <4>4. MemoryOf[c] \in Nat OBVIOUS
        <4> QED BY <1>0, <3>2, <4>2, <4>3, <4>4
      <3> QED BY <3>1, <3>2
    <2> QED BY <2>1, <2>2, <2>3, <2>4, <2>5 DEF MemInv
  <1>2. ASSUME NEW c \in Calls, GiveBackMemory(c) \/ DropMemory(c) PROVE MemInv'
    <2>1. c \in Reserved /\ Reserved' = Reserved \ {c}
      BY <1>2 DEF GiveBackMemory, DropMemory, CallTo, MemInv, Reserved
    <2>2. call' \in [Calls -> CallStage] /\ memory' = memory - MemoryOf[c]
      BY <1>2 DEF GiveBackMemory, DropMemory, CallTo, MemInv, CallStage
    <2>3. Granted' \subseteq Granted
      BY <1>2 DEF GiveBackMemory, DropMemory, CallTo, MemInv, Granted
    <2>4. MemoryHeld(Reserved') = MemoryHeld(Reserved) - MemoryOf[c]
      BY <2>1, HeldLeaves, GrantedReserved DEF MemInv
    <2>5. MemoryHeld(Granted') <= MemoryHeld(Granted) /\ MemoryHeld(Granted') \in Nat
      BY <2>3, HeldGrows, HeldFinite, GrantedReserved DEF MemInv
    <2>6. MemoryHeld(Granted') <= MaxTotal BY <1>0, <2>5 DEF MemInv
    <2> QED BY <2>1, <2>2, <2>4, <2>6 DEF MemInv
  <1>3. ASSUME NEW c \in Calls, RefusePerCall(c) \/ ReserveSlot(c) \/ GiveBackSlot(c) \/ DropSlot(c)
        PROVE  MemInv'
    <2>1. call' \in [Calls -> CallStage] /\ memory' = memory
      BY <1>3 DEF RefusePerCall, ReserveSlot, GiveBackSlot, DropSlot, CallTo, MemInv, CallStage, limitsVars
    <2>2. Reserved' = Reserved /\ Granted' = Granted
      BY <1>3 DEF RefusePerCall, ReserveSlot, GiveBackSlot, DropSlot, CallTo, MemInv, limitsVars,
                  Reserved, Granted
    <2> QED BY <2>1, <2>2, SameMemory
  <1>4. CASE UNCHANGED limitsVars
    <2>1. Reserved' = Reserved /\ Granted' = Granted BY <1>4 DEF limitsVars, Reserved, Granted
    <2> QED BY <1>4, <2>1, SameMemory DEF MemInv, limitsVars
  <1> QED BY <1>1, <1>2, <1>3, <1>4 DEF LimitsNext, TryAcquire, Release

\* memory/limits.rs try_acquire and the guard's drop: the guards never hold more
\* than max_total_memory together, and both counters are exactly what the calls
\* between reservation and return have added, so nothing leaks on any path.
THEOREM MemoryCorrect == LimitsSpec => []MemoryAccounted
  <1>1. SlotInv /\ MemInv => MemoryAccounted
    <2> SUFFICES ASSUME SlotInv, MemInv PROVE MemoryAccounted OBVIOUS
    <2>1. In({"held"}) \subseteq Granted BY DEF In, Granted
    <2>2. MemoryHeld(In({"held"})) <= MemoryHeld(Granted) /\ MemoryHeld(In({"held"})) \in Nat
      BY <2>1, HeldGrows, HeldFinite, GrantedReserved DEF MemInv
    <2>3. MemoryHeld(Granted) \in Nat BY HeldFinite, GrantedReserved DEF MemInv
    <2>4. MemoryWithinLimit BY <2>2, <2>3 DEF MemoryWithinLimit, MemInv
    <2>5. /\ In({"reserved", "overMemory", "overSlots", "slotBack", "held"}) = Reserved
          /\ In({"overSlots", "held", "dropping"}) = Slots
      BY DEF In, Reserved, Slots
    <2>6. NothingLeaks BY <2>5 DEF NothingLeaks, MemInv, SlotInv
    <2> QED BY <2>4, <2>6 DEF MemoryAccounted
  <1> QED BY SlotsInit, SlotsStep, MemInit, MemStep, <1>1, PTL DEF LimitsSpec

-----------------------------------------------------------------------------
(* The pool of connections *)

Served == {c \in Clients : client[c] = "served"}

\* The count is the number of clients served; an acquisition that has read the
\* count read one below the limit, so that exchanging what it read is safe.
ConnectionInv ==
    /\ client \in [Clients -> {"away", "acquiring", "exchanging", "served"}]
    /\ seen \in [Clients -> Nat]
    /\ active = Cardinality(Served) /\ active <= MaxConnections
    /\ \A c \in Clients : client[c] = "exchanging" => seen[c] < MaxConnections

LEMMA ServedFinite == IsFiniteSet(Served) /\ Cardinality(Served) \in Nat
  <1>1. Served \subseteq Clients BY DEF Served
  <1> QED BY <1>1, ConnectionAssumption, FS_Subset, FS_CardinalityType

LEMMA ConnectionsInit == ConnectionInit => ConnectionInv
  <1> SUFFICES ASSUME ConnectionInit PROVE ConnectionInv OBVIOUS
  <1>1. Served = {} BY DEF ConnectionInit, Served
  <1>2. Cardinality(Served) = 0 BY <1>1, FS_EmptySet
  <1> QED BY <1>2, ConnectionAssumption DEF ConnectionInit, ConnectionInv

LEMMA ConnectionsStep == ConnectionInv /\ [ConnectionNext]_poolVars => ConnectionInv'
  <1> SUFFICES ASSUME ConnectionInv, [ConnectionNext]_poolVars PROVE ConnectionInv' OBVIOUS
  <1> USE DEF ConnectionInv
  <1>1. MaxConnections \in Nat /\ active \in Nat BY ConnectionAssumption, ServedFinite
  <1>2. ASSUME NEW c \in Clients, Accept(c) \/ LoadActive(c) PROVE ConnectionInv'
    <2>1. Served' = Served BY <1>2 DEF Accept, LoadActive, Served
    <2>2. CASE Accept(c) BY <1>1, <2>1, <2>2 DEF Accept
    <2>3. CASE LoadActive(c) BY <1>1, <2>1, <2>3 DEF LoadActive
    <2> QED BY <1>2, <2>2, <2>3
  <1>3. ASSUME NEW c \in Clients, ExchangeActive(c) PROVE ConnectionInv'
    <2>1. CASE active = seen[c]
      <3>1. Served' = Served \union {c} /\ c \notin Served BY <1>3, <2>1 DEF ExchangeActive, Served
      <3>2. Cardinality(Served') = active + 1 BY <3>1, ServedFinite, FS_AddElement
      <3>3. active' = active + 1 /\ active < MaxConnections BY <1>3, <2>1 DEF ExchangeActive
      <3> QED BY <1>1, <1>3, <2>1, <3>2, <3>3 DEF ExchangeActive
    <2>2. CASE active # seen[c]
      <3>1. Served' = Served BY <1>3, <2>2 DEF ExchangeActive, Served
      <3> QED BY <1>1, <1>3, <2>2, <3>1 DEF ExchangeActive
    <2> QED BY <2>1, <2>2
  <1>4. ASSUME NEW c \in Clients, ReleaseConnection(c) PROVE ConnectionInv'
    <2>1. Served' = Served \ {c} /\ c \in Served BY <1>4 DEF ReleaseConnection, Served
    <2>2. Cardinality(Served') = active - 1 BY <2>1, ServedFinite, FS_RemoveElement
    <2> QED BY <1>1, <1>4, <2>2 DEF ReleaseConnection
  <1>5. CASE StopListening \/ UNCHANGED poolVars
    <2>1. Served' = Served BY <1>5 DEF StopListening, poolVars, Served
    <2> QED BY <1>5, <2>1 DEF StopListening, poolVars
  <1> QED BY <1>2, <1>3, <1>4, <1>5 DEF ConnectionNext

-----------------------------------------------------------------------------
(* The token buckets *)

BucketType == [live : BOOLEAN, tokens : Nat, last : Nat, tier : Tiers, since : Nat]

\* What a bucket has given out and what it holds came from its burst and from the
\* time up to the last look.
Balanced(b, n) ==
    /\ b.since <= b.last /\ b.last <= tick
    /\ n * Cost + b.tokens <= Burst[b.tier] + (b.last - b.since) * Rate[b.tier]

BucketInv ==
    /\ tick \in Nat
    /\ bucket \in [Callers -> BucketType]
    /\ admitted \in [Callers -> Nat]
    /\ \A c \in Callers : bucket[c].live => Balanced(bucket[c], admitted[c])

\* Time passes in two pieces and brings what it brings in one.
LEMMA TimeAddsUp ==
  ASSUME NEW a \in Nat, NEW b \in Nat, NEW c \in Nat, NEW r \in Nat, a <= b, b <= c
  PROVE  /\ (c - a) * r = (c - b) * r + (b - a) * r
         /\ (c - b) * r \in Nat /\ (b - a) * r \in Nat /\ (c - a) * r \in Nat
  <1>1. ASSUME NEW x \in Nat, NEW y \in Nat PROVE (x + y) * r = x * r + y * r /\ x * r \in Nat
    OBVIOUS
  <1>2. c - b \in Nat /\ b - a \in Nat /\ c - a \in Nat /\ (c - b) + (b - a) = c - a OBVIOUS
  <1> QED BY <1>1, <1>2

LEMMA EmptyBucket == NoBucket \in BucketType /\ ~NoBucket.live
  <1>1. (CHOOSE t \in Tiers : TRUE) \in Tiers BY BucketAssumption
  <1> QED BY <1>1 DEF NoBucket, BucketType

\* A look at a bucket keeps it balanced, and brings it to the present.
LEMMA LookKeepsBalance ==
  ASSUME tick \in Nat, NEW b \in BucketType, NEW n \in Nat, Balanced(b, n)
  PROVE  /\ Refilled(b) \in BucketType
         /\ Balanced(Refilled(b), n)
         /\ Refilled(b).live = b.live
  <1> DEFINE r == Rate[b.tier]
             w == Burst[b.tier]
             k == Lesser(b.tokens + (tick - b.last) * r, w)
             g == n * Cost
  <1>1. b.tokens \in Nat /\ b.last \in Nat /\ b.since \in Nat /\ b.tier \in Tiers BY DEF BucketType
  <1>2. r \in Nat /\ w \in Nat /\ Cost \in Nat BY <1>1, BucketAssumption
  <1>3. /\ (tick - b.since) * r = (tick - b.last) * r + (b.last - b.since) * r
        /\ (tick - b.last) * r \in Nat /\ (b.last - b.since) * r \in Nat
    <2>1. b.since <= b.last /\ b.last <= tick BY DEF Balanced
    <2> HIDE DEF r
    <2> QED BY <1>1, <1>2, <2>1, TimeAddsUp
  <1>4. g \in Nat BY <1>2
  <1>5. k \in Nat BY <1>1, <1>2, <1>3 DEF Lesser
  <1>6. g + b.tokens <= w + (b.last - b.since) * r BY DEF Balanced
  <1>7. g + k <= w + (tick - b.since) * r
    <2> DEFINE p == (tick - b.last) * r
               q == (b.last - b.since) * r
    <2> HIDE DEF p, q, g, w
    <2>1. p \in Nat /\ q \in Nat /\ (tick - b.since) * r = p + q BY <1>3 DEF p, q
    <2>2. g + b.tokens <= w + q BY <1>6 DEF q
    <2>3. k = Lesser(b.tokens + p, w) BY DEF p
    <2> HIDE DEF k
    <2>4. CASE k = b.tokens + p BY <1>1, <1>2, <1>4, <2>1, <2>2, <2>4
    <2>5. CASE k = w /\ w <= b.tokens + p BY <1>1, <1>2, <1>4, <2>1, <2>2, <2>5
    <2> QED BY <2>3, <2>4, <2>5, <1>1, <1>2, <2>1 DEF Lesser
  <1>8. Refilled(b) = [live |-> b.live, tokens |-> k, last |-> tick, tier |-> b.tier, since |-> b.since]
    <2> HIDE DEF k
    <2>1. Refilled(b) = [b EXCEPT !.tokens = k, !.last = tick] BY DEF Refilled, k
    <2> QED BY <2>1 DEF BucketType
  <1>9. b.live \in BOOLEAN BY DEF BucketType
  <1>10. b.since <= tick BY <1>1 DEF Balanced
  <1> HIDE DEF k
  <1> QED BY <1>1, <1>5, <1>7, <1>8, <1>9, <1>10 DEF BucketType, Balanced

\* A fresh bucket holds its burst.
LEMMA FreshBucket ==
  ASSUME tick \in Nat, NEW t \in Tiers
  PROVE  NewBucket(t) \in BucketType /\ Balanced(NewBucket(t), 0) /\ NewBucket(t).live
  <1>1. Burst[t] \in Nat /\ Rate[t] \in Nat /\ Cost \in Nat BY BucketAssumption
  <1>2. 0 * Cost = 0 /\ (tick - tick) * Rate[t] = 0 BY <1>1
  <1> QED BY <1>1, <1>2 DEF NewBucket, BucketType, Balanced

\* A token taken is a request admitted.
LEMMA TakeKeepsBalance ==
  ASSUME tick \in Nat, NEW b \in BucketType, NEW n \in Nat, Balanced(b, n), b.tokens >= Cost
  PROVE  /\ [b EXCEPT !.tokens = @ - Cost] \in BucketType
         /\ Balanced([b EXCEPT !.tokens = @ - Cost], n + 1)
         /\ [b EXCEPT !.tokens = @ - Cost].live = b.live
  <1>1. b.tokens \in Nat /\ Cost \in Nat BY BucketAssumption DEF BucketType
  <1>2. (n + 1) * Cost = n * Cost + Cost /\ n * Cost \in Nat BY <1>1
  <1>3. b.tokens - Cost \in Nat BY <1>1
  <1>4. (n + 1) * Cost + (b.tokens - Cost) = n * Cost + b.tokens BY <1>1, <1>2
  <1>5. [b EXCEPT !.tokens = @ - Cost]
          = [live |-> b.live, tokens |-> b.tokens - Cost, last |-> b.last, tier |-> b.tier, since |-> b.since]
    BY DEF BucketType
  <1> QED BY <1>3, <1>4, <1>5 DEF BucketType, Balanced

LEMMA BucketsInit == BucketInit => BucketInv
  BY EmptyBucket DEF BucketInit, BucketInv

LEMMA BucketsStep == BucketInv /\ [BucketNext]_bucketVars => BucketInv'
  <1> SUFFICES ASSUME BucketInv, [BucketNext]_bucketVars PROVE BucketInv' OBVIOUS
  <1>1. ASSUME NEW c \in Callers, NEW t \in Tiers, Check(c, t) PROVE BucketInv'
    <2> DEFINE old == IF bucket[c].live THEN bucket[c] ELSE NewBucket(t)
               n == IF bucket[c].live THEN admitted[c] ELSE 0
               b == Refilled(old)
               ok == b.tokens >= Cost
               new == IF ok THEN [b EXCEPT !.tokens = @ - Cost] ELSE b
               m == n + (IF ok THEN 1 ELSE 0)
    <2>1. old \in BucketType /\ n \in Nat /\ Balanced(old, n)
      BY FreshBucket DEF BucketInv
    <2>2. b \in BucketType /\ Balanced(b, n) BY <2>1, LookKeepsBalance DEF BucketInv
    <2>3. new \in BucketType /\ Balanced(new, m) /\ m \in Nat
      <3> HIDE DEF b, n
      <3>1. CASE ok BY <2>1, <2>2, <3>1, TakeKeepsBalance DEF BucketInv
      <3>2. CASE ~ok
        <4>1. m = n BY <2>1, <3>2
        <4> QED BY <2>1, <2>2, <3>2, <4>1
      <3> QED BY <3>1, <3>2
    <2>4. bucket' = [bucket EXCEPT ![c] = new] /\ admitted' = [admitted EXCEPT ![c] = m] /\ tick' = tick
      BY <1>1 DEF Check, BucketInv
    <2> HIDE DEF new, m
    <2>5. \A d \in Callers : /\ bucket'[d] = IF d = c THEN new ELSE bucket[d]
                             /\ admitted'[d] = IF d = c THEN m ELSE admitted[d]
      BY <2>4 DEF BucketInv
    <2> QED BY <2>3, <2>4, <2>5 DEF BucketInv, Balanced
  <1>2. ASSUME NEW c \in Callers, RemoveSession(c) PROVE BucketInv'
    BY <1>2, EmptyBucket DEF RemoveSession, BucketInv, Balanced
  <1>3. CASE Cleanup
    <2>1. bucket' \in [Callers -> BucketType] BY <1>3, EmptyBucket DEF Cleanup, BucketInv
    <2>2. \A c \in Callers : bucket'[c].live => bucket'[c] = bucket[c]
      BY <1>3, EmptyBucket DEF Cleanup
    <2> QED BY <1>3, <2>1, <2>2 DEF Cleanup, BucketInv, Balanced
  <1>4. CASE Advance
    <2>1. \A c \in Callers : bucket[c].last \in Nat BY DEF BucketInv, BucketType
    <2> QED BY <1>4, <2>1 DEF Advance, BucketInv, Balanced
  <1>5. CASE UNCHANGED bucketVars BY <1>5 DEF bucketVars, BucketInv, Balanced
  <1> QED BY <1>1, <1>2, <1>3, <1>4, <1>5 DEF BucketNext

\* What a bucket gave out is covered by the time up to the last look, so by the
\* time up to now.
LEMMA BucketsSafe == BucketInv => BurstAndRate
  <1> SUFFICES ASSUME BucketInv, NEW c \in Callers, bucket[c].live
               PROVE  admitted[c] * Cost + bucket[c].tokens
                        <= Burst[bucket[c].tier] + (tick - bucket[c].since) * Rate[bucket[c].tier]
    BY DEF BurstAndRate
  <1> DEFINE b == bucket[c]
             r == Rate[b.tier]
             w == Burst[b.tier]
             g == admitted[c] * Cost
  <1>1. b \in BucketType /\ admitted[c] \in Nat /\ tick \in Nat /\ Balanced(b, admitted[c])
    BY DEF BucketInv
  <1>2. b.tokens \in Nat /\ b.last \in Nat /\ b.since \in Nat /\ b.tier \in Tiers BY <1>1 DEF BucketType
  <1>3. r \in Nat /\ w \in Nat /\ Cost \in Nat BY <1>2, BucketAssumption
  <1>4. /\ (tick - b.since) * r = (tick - b.last) * r + (b.last - b.since) * r
        /\ (tick - b.last) * r \in Nat /\ (b.last - b.since) * r \in Nat
    BY <1>1, <1>2, <1>3, TimeAddsUp DEF Balanced
  <1>5. g \in Nat BY <1>1, <1>3
  <1>6. g + b.tokens <= w + (b.last - b.since) * r BY <1>1 DEF Balanced
  <1> DEFINE p == (tick - b.last) * r
             q == (b.last - b.since) * r
  <1>7. p \in Nat /\ q \in Nat /\ (tick - b.since) * r = p + q /\ g + b.tokens <= w + q BY <1>4, <1>6
  <1> HIDE DEF p, q, g, w
  <1>8. g + b.tokens <= w + (p + q) BY <1>2, <1>3, <1>5, <1>7
  <1> QED BY <1>7, <1>8 DEF g, w

-----------------------------------------------------------------------------
\* For any number of clients, callers and tiers: the connections served are the
\* connections counted and never above the limit, whatever acquisitions and drops
\* interleave, and no caller is admitted above its burst and what its rate has
\* brought, though a bucket is filled only when somebody looks at it
\* (ConnectionPool::try_acquire, RateLimiter::check).
THEOREM DoorCorrect == DoorSpec => []DoorHolds
  <1> DEFINE Inv == ConnectionInv /\ BucketInv
  <1>1. DoorInit => Inv BY ConnectionsInit, BucketsInit DEF DoorInit
  <1>2. Inv /\ [DoorNext]_doorVars => Inv'
    <2>1. [DoorNext]_doorVars => [ConnectionNext]_poolVars /\ [BucketNext]_bucketVars
      BY DEF DoorNext, doorVars
    <2> QED BY <2>1, ConnectionsStep, BucketsStep
  <1>3. Inv => DoorHolds
    BY BucketsSafe DEF DoorHolds, ConnectionsBounded, ConnectionInv, Served
  <1> QED BY <1>1, <1>2, <1>3, PTL DEF DoorSpec
===============================================================================
