----------------------------- MODULE SmartLoader -----------------------------
(***************************************************************************)
(* On-demand loading of models (models/smart_loader.rs and                 *)
(* smart_loader_ops.rs): concurrent calls of get, background preloads      *)
(* started by hints, and unload.                                           *)
(*                                                                         *)
(* The map of entries is locked only to mark an entry and to write a       *)
(* result back; the load callback runs in between.  Only get takes a       *)
(* permit of the semaphore.  Metrics and use counts are left out.          *)
(***************************************************************************)
EXTENDS ModelRegistry, FiniteSets

CONSTANTS
    Gets,          \* calls of get
    Preloads,      \* background tasks that hints can spawn
    MaxLoads       \* max_concurrent_loads

ASSUME LoaderAssumption ==
    /\ IsFiniteSet(Gets)
    /\ Gets \intersect Preloads = {}
    /\ MaxLoads \in Nat \ {0}
    /\ MaxHandle \in Nat

Tasks == Gets \union Preloads

VARIABLES
    entry,      \* [ModelIds -> its state ("Absent" before register) and handle]
    permits,    \* the semaphore's free permits
    task,       \* [Tasks -> stage]
    model,      \* [Tasks -> the model asked for]
    loaded,     \* [Tasks -> what the callback returned, None for an error]
    answer      \* [Gets -> the handle returned, None before and after an error]

loaderVars == <<entry, permits, task, model, loaded, answer>>

LoadState == {"Absent", "Registered", "Loading", "Ready", "Failed"}
TaskStage == {"new", "wait", "permit", "load", "apply", "fetch", "end"}

LoaderTypeOK ==
    /\ entry \in [ModelIds -> [state : LoadState, handle : Handles \union {None}]]
    /\ permits \in 0 .. MaxLoads
    /\ task \in [Tasks -> TaskStage]
    /\ model \in [Tasks -> ModelIds]
    /\ loaded \in [Tasks -> Handles \union {None}]
    /\ answer \in [Gets -> Handles \union {None}]

LoaderInit ==
    /\ entry = [m \in ModelIds |-> [state |-> "Absent", handle |-> None]]
    /\ permits = MaxLoads
    /\ task = [t \in Tasks |-> "new"]
    /\ model = [t \in Tasks |-> AnyModel]
    /\ loaded = [t \in Tasks |-> None]
    /\ answer = [g \in Gets |-> None]

TaskTo(t, s) == task' = [task EXCEPT ![t] = s]
SetState(m, s) == entry' = [entry EXCEPT ![m].state = s]
StateOf(t) == entry[model[t]].state

-----------------------------------------------------------------------------
\* register (again) replaces the entry.
RegisterEntry(m) ==
    /\ entry' = [entry EXCEPT ![m] = [state |-> "Registered", handle |-> None]]
    /\ UNCHANGED <<permits, task, model, loaded, answer, registryVars>>

\* Mutant of UnloadEntry: the state is forgotten.
UnloadHandleOnly(m) ==
    /\ entry[m].state # "Absent"
    /\ entry' = [entry EXCEPT ![m].handle = None]
    /\ UNCHANGED <<permits, task, model, loaded, answer, registryVars>>

\* unload resets the entry, whatever is going on; the registry keeps the handle.
UnloadEntry(m) ==
    /\ entry[m].state # "Absent"
    /\ entry' = [entry EXCEPT ![m] = [state |-> "Registered", handle |-> None]]
    /\ UNCHANGED <<permits, task, model, loaded, answer, registryVars>>

\* get answers at once from an entry that is ready, and has to load otherwise.
CheckReady(g) ==
    /\ task[g] = "new"
    /\ \E m \in ModelIds :
         /\ model' = [model EXCEPT ![g] = m]
         /\ \/ /\ entry[m].state = "Ready" /\ entry[m].handle # None
               /\ answer' = [answer EXCEPT ![g] = entry[m].handle]
               /\ TaskTo(g, "end")
            \/ /\ entry[m].state # "Ready" \/ entry[m].handle = None
               /\ TaskTo(g, "wait") /\ UNCHANGED answer
    /\ UNCHANGED <<entry, permits, loaded, registryVars>>

\* load_sync: a permit ...
Acquire(g) ==
    /\ task[g] = "wait" /\ permits > 0
    /\ permits' = permits - 1
    /\ TaskTo(g, "permit")
    /\ UNCHANGED <<entry, model, loaded, answer, registryVars>>

\* Mutant of MarkLoading: the permit is not returned when there is nothing to do.
MarkLoadingKeepPermit(g) ==
    /\ task[g] = "permit"
    /\ \/ StateOf(g) \in {"Absent", "Ready"}
          /\ TaskTo(g, IF StateOf(g) = "Ready" THEN "fetch" ELSE "end") /\ UNCHANGED <<entry, permits>>
       \/ StateOf(g) \notin {"Absent", "Ready"}
          /\ SetState(model[g], "Loading") /\ TaskTo(g, "load") /\ UNCHANGED permits
    /\ UNCHANGED <<model, loaded, answer, registryVars>>

\* ... and the entry marked: NotRegistered, or ready in the meantime, or to load,
\* also when another task is loading it already.
MarkLoading(g) ==
    /\ task[g] = "permit"
    /\ \/ StateOf(g) = "Absent" /\ TaskTo(g, "end") /\ permits' = permits + 1 /\ UNCHANGED entry
       \/ StateOf(g) = "Ready" /\ TaskTo(g, "fetch") /\ permits' = permits + 1 /\ UNCHANGED entry
       \/ /\ StateOf(g) \in {"Registered", "Loading", "Failed"}
          /\ SetState(model[g], "Loading") /\ TaskTo(g, "load") /\ UNCHANGED permits
    /\ UNCHANGED <<model, loaded, answer, registryVars>>

\* The callback fails, or registers the model in the registry.
Callback(t) ==
    /\ task[t] = "load"
    /\ \/ loaded' = [loaded EXCEPT ![t] = None] /\ UNCHANGED registryVars
       \/ RegisterOutside /\ loaded' = [loaded EXCEPT ![t] = nextId]
    /\ TaskTo(t, "apply")
    /\ UNCHANGED <<entry, permits, model, answer>>

\* Ready with the handle, or Failed with the handle that was there.
WriteBack(m, h) ==
    entry' = IF h = None THEN [entry EXCEPT ![m].state = "Failed"]
             ELSE [entry EXCEPT ![m] = [state |-> "Ready", handle |-> h]]

\* load_sync writes the result back and drops its permit.
Apply(g) ==
    /\ task[g] = "apply"
    /\ WriteBack(model[g], loaded[g])
    /\ permits' = permits + 1
    /\ TaskTo(g, IF loaded[g] = None THEN "end" ELSE "fetch")
    /\ UNCHANGED <<model, loaded, answer, registryVars>>

\* get reads the entry once more for its handle; there may be none any more.
Fetch(g) ==
    /\ task[g] = "fetch"
    /\ answer' = [answer EXCEPT ![g] = entry[model[g]].handle]
    /\ TaskTo(g, "end")
    /\ UNCHANGED <<entry, permits, model, loaded, registryVars>>

\* A hint predicts a model that has an entry and spawns a preload, unless no permit
\* is free.
Hint(p) ==
    /\ task[p] = "new"
    /\ \E m \in ModelIds : entry[m].state # "Absent" /\ model' = [model EXCEPT ![p] = m]
    /\ TaskTo(p, IF permits = 0 THEN "end" ELSE "permit")
    /\ UNCHANGED <<entry, permits, loaded, answer, registryVars>>

\* Mutant of MarkPreload: an entry is marked that the task does not load.
MarkPreloadAnyway(p) ==
    /\ task[p] = "permit"
    /\ SetState(model[p], "Loading")
    /\ TaskTo(p, IF StateOf(p) = "Registered" THEN "load" ELSE "end")
    /\ UNCHANGED <<permits, model, loaded, answer, registryVars>>

\* The spawned task loads only an entry that is registered and nothing more.
MarkPreload(p) ==
    /\ task[p] = "permit"
    /\ \/ StateOf(p) # "Registered" /\ TaskTo(p, "end") /\ UNCHANGED entry
       \/ StateOf(p) = "Registered" /\ SetState(model[p], "Loading") /\ TaskTo(p, "load")
    /\ UNCHANGED <<permits, model, loaded, answer, registryVars>>

\* The preload writes back too; it never had a permit.
ApplyPreload(p) ==
    /\ task[p] = "apply"
    /\ WriteBack(model[p], loaded[p])
    /\ TaskTo(p, "end")
    /\ UNCHANGED <<permits, model, loaded, answer, registryVars>>

GetStep(g) ==
    Acquire(g) \/ MarkLoading(g) \/ Callback(g) \/ Apply(g) \/ Fetch(g)

PreloadStep(p) == MarkPreload(p) \/ Callback(p) \/ ApplyPreload(p)

LoaderNext ==
    \/ \E m \in ModelIds : RegisterEntry(m) \/ UnloadEntry(m)
    \/ \E g \in Gets : CheckReady(g) \/ GetStep(g)
    \/ \E p \in Preloads : Hint(p) \/ PreloadStep(p)

\* Tasks run on, callbacks return, and the semaphore serves its waiters in turn.
LoaderFairness ==
    /\ \A g \in Gets : /\ WF_<<registryVars, loaderVars>>(GetStep(g))
                        /\ SF_<<registryVars, loaderVars>>(Acquire(g))
    /\ \A p \in Preloads : WF_<<registryVars, loaderVars>>(PreloadStep(p))

LoaderSpec ==
    /\ RegistryInit(0) /\ LoaderInit
    /\ [][LoaderNext]_<<registryVars, loaderVars>>
    /\ LoaderFairness

-----------------------------------------------------------------------------
(* Properties *)

LoadingNow(t) == task[t] \in {"load", "apply"}

\* An entry is ready only with a handle, whatever loads, failures, unloads and
\* repeated registrations overlap: get's fast path never fails.
ReadyHasHandle == \A m \in ModelIds : entry[m].state = "Ready" => entry[m].handle # None

\* An entry that says Loading has a task that is loading it and will write back:
\* no overlap of get, preload and unload leaves an entry in Loading for good.
LoadingHasLoader ==
    \A m \in ModelIds : entry[m].state = "Loading" => \E t \in Tasks : LoadingNow(t) /\ model[t] = m

\* An entry of the smart loader says what is so: ready ones have a handle of the
\* registry and loading ones a load in progress (SmartLoader::get, load_sync).
EntriesAreHonest == ReadyHasHandle /\ LoadingHasLoader

\* Every call of get returns: no early return of load_sync keeps the permit that the
\* next one waits for.
GetReturns == \A g \in Gets : task[g] # "new" ~> task[g] = "end"
=============================================================================
