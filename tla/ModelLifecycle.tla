--------------------------- MODULE ModelLifecycle ---------------------------
(***************************************************************************)
(* Loading and unloading of models (models/lifecycle.rs over               *)
(* models/registry.rs and the model map of engine/inference.rs).           *)
(*                                                                         *)
(* load and unload hold the write lock of the lookup index while they      *)
(* change three maps, each behind a lock of its own, one after the other;  *)
(* inference reads the engine's map without the index lock.  The smart     *)
(* loader's callback registers models past the lifecycle.                  *)
(***************************************************************************)
EXTENDS ModelRegistry

CONSTANTS
    Callers,    \* tasks that load and unload
    NoCaller    \* the index lock is free

ASSUME LifecycleAssumption ==
    /\ NoCaller \notin Callers
    /\ ModelIds # {}
    /\ MaxHandle \in Nat

VARIABLES
    engine,      \* InferenceEngine.models: id -> the load its model came from
    idToHandle,  \* LookupIndex.id_to_handle
    handleToId,  \* LookupIndex.handle_to_id
    writer,      \* holder of the index's write lock
    call,        \* [Callers -> stage of the call in progress]
    target,      \* [Callers -> its model id]
    loading      \* [Callers -> the handle it works on]

mapVars == <<engine, idToHandle, handleToId>>
lifecycleVars == <<mapVars, writer, call, target, loading>>

CallStage == {"idle", "toLoad", "toUnload", "register", "enable", "index",
              "disable", "unregister", "unindex"}

LifecycleTypeOK ==
    /\ RegistryTypeOK
    /\ PartialMap(engine, ModelIds, Handles)
    /\ PartialMap(idToHandle, ModelIds, Handles)
    /\ PartialMap(handleToId, Handles, ModelIds)
    /\ writer \in Callers \union {NoCaller}
    /\ call \in [Callers -> CallStage]
    /\ target \in [Callers -> ModelIds]
    /\ loading \in [Callers -> Handles \union {None}]

LifecycleInit ==
    /\ engine = Empty /\ idToHandle = Empty /\ handleToId = Empty
    /\ writer = NoCaller
    /\ call = [c \in Callers |-> "idle"]
    /\ target = [c \in Callers |-> AnyModel]
    /\ loading = [c \in Callers |-> None]

Enter(c, s) == call' = [call EXCEPT ![c] = s]

-----------------------------------------------------------------------------
\* register_prepared and unload_model call the lifecycle; prepare_model has touched
\* nothing, and its failure ends the call before this point.
BeginCall(c) ==
    /\ call[c] = "idle"
    /\ \E m \in ModelIds, s \in {"toLoad", "toUnload"} :
         target' = [target EXCEPT ![c] = m] /\ Enter(c, s)
    /\ UNCHANGED <<registryVars, mapVars, writer, loading>>

\* Mutant of LockForLoad: the index is only read, not locked.
LockForLoadShared(c) ==
    /\ call[c] = "toLoad"
    /\ target[c] \notin DOMAIN idToHandle
    /\ Enter(c, "register")
    /\ UNCHANGED <<registryVars, mapVars, writer, target, loading>>

\* load takes the index's write lock; an id that is loaded is AlreadyLoaded.
LockForLoad(c) ==
    /\ call[c] = "toLoad" /\ writer = NoCaller
    /\ \/ target[c] \in DOMAIN idToHandle /\ Enter(c, "idle") /\ UNCHANGED writer
       \/ target[c] \notin DOMAIN idToHandle /\ Enter(c, "register") /\ writer' = c
    /\ UNCHANGED <<registryVars, mapVars, target, loading>>

\* load registers the model and keeps its handle.
RegisterLoaded(c) ==
    /\ call[c] = "register"
    /\ RegisterModel
    /\ loading' = [loading EXCEPT ![c] = nextId]
    /\ Enter(c, "enable")
    /\ UNCHANGED <<outside, mapVars, writer, target>>

\* InferenceEngine::register_model: inference can now run on the model.
Enable(c) ==
    /\ call[c] = "enable"
    /\ engine' = Put(engine, target[c], loading[c])
    /\ Enter(c, "index")
    /\ UNCHANGED <<registryVars, idToHandle, handleToId, writer, target, loading>>

\* LookupIndex::insert, and the end of load.
Index(c) ==
    /\ call[c] = "index"
    /\ handleToId' = Put(handleToId, loading[c], target[c])
    /\ idToHandle' = Put(idToHandle, target[c], loading[c])
    /\ writer' = NoCaller
    /\ Enter(c, "idle")
    /\ UNCHANGED <<registryVars, engine, target, loading>>

\* unload takes the lock and looks the handle up; NotLoaded otherwise.
LockForUnload(c) ==
    /\ call[c] = "toUnload" /\ writer = NoCaller
    /\ \/ /\ target[c] \notin DOMAIN idToHandle
          /\ Enter(c, "idle") /\ UNCHANGED <<writer, loading>>
       \/ /\ target[c] \in DOMAIN idToHandle
          /\ loading' = [loading EXCEPT ![c] = idToHandle[target[c]]]
          /\ Enter(c, "disable") /\ writer' = c
    /\ UNCHANGED <<registryVars, mapVars, target>>

\* Mutant of Disable: the engine keeps the model until the registry has dropped it.
DisableLater(c) ==
    /\ call[c] = "disable"
    /\ Enter(c, "unregister")
    /\ UNCHANGED <<registryVars, mapVars, writer, target, loading>>

\* InferenceEngine::unregister_model.
Disable(c) ==
    /\ call[c] = "disable"
    /\ engine' = Drop(engine, target[c])
    /\ Enter(c, "unregister")
    /\ UNCHANGED <<registryVars, idToHandle, handleToId, writer, target, loading>>

\* ModelRegistry::unregister.
UnregisterLoaded(c) ==
    /\ call[c] = "unregister"
    /\ UnregisterModel(loading[c])
    /\ Enter(c, "unindex")
    /\ UNCHANGED <<mapVars, writer, target, loading>>

\* LookupIndex::remove_by_id, and the end of unload.
Unindex(c) ==
    /\ call[c] = "unindex"
    /\ handleToId' = Drop(handleToId, idToHandle[target[c]])
    /\ idToHandle' = Drop(idToHandle, target[c])
    /\ writer' = NoCaller
    /\ Enter(c, "idle")
    /\ UNCHANGED <<registryVars, engine, target, loading>>

\* The smart loader loads a model: its callback registers it, and nothing else.
SmartLoad ==
    /\ RegisterOutside
    /\ UNCHANGED <<mapVars, writer, call, target, loading>>

LoadSteps(c) == LockForLoad(c) \/ RegisterLoaded(c) \/ Enable(c) \/ Index(c)
UnloadSteps(c) == LockForUnload(c) \/ Disable(c) \/ UnregisterLoaded(c) \/ Unindex(c)

LifecycleNext ==
    \/ \E c \in Callers : BeginCall(c) \/ LoadSteps(c) \/ UnloadSteps(c)
    \/ SmartLoad

LifecycleSpec ==
    RegistryInit(0) /\ LifecycleInit /\ [][LifecycleNext]_<<registryVars, lifecycleVars>>

-----------------------------------------------------------------------------
(* Properties *)

\* Whenever no call holds the index, engine, index and registry agree: the engine
\* has exactly the indexed models, and the registry exactly those and the ones that
\* went around the lifecycle ("keep ModelRegistry and InferenceEngine atomically in
\* sync").
InSync ==
    writer = NoCaller =>
        /\ engine = idToHandle
        /\ registered \ outside = {idToHandle[m] : m \in DOMAIN idToHandle}

\* Inference never runs on a model the registry does not know, not even in the
\* middle of a load or an unload: load registers first, unload unregisters last.
ServedIsRegistered == \A m \in DOMAIN engine : engine[m] \in registered

\* The two directions of the index are inverse to each other, so that no handle
\* names a model that is gone and no model has two handles.
IndexIsBijective ==
    /\ \A m \in DOMAIN idToHandle :
         idToHandle[m] \in DOMAIN handleToId /\ handleToId[idToHandle[m]] = m
    /\ \A h \in DOMAIN handleToId :
         handleToId[h] \in DOMAIN idToHandle /\ idToHandle[handleToId[h]] = h
=============================================================================
