---------------------------- MODULE ModelRegistry ----------------------------
(***************************************************************************)
(* The registry of loaded models (models/registry.rs): a map from handles  *)
(* to models behind one lock, and the counter handles are taken from.      *)
(* Lifecycle, hot swap and smart loader all work on it.                    *)
(***************************************************************************)
EXTENDS Naturals

CONSTANTS
    ModelIds,
    MaxHandle    \* bound on the handles given out

Handles == 1 .. MaxHandle
None == 0        \* no handle
AnyModel == CHOOSE m \in ModelIds : TRUE

VARIABLES
    registered,  \* ModelRegistry.models: the handles in it
    nextId,      \* ModelRegistry.next_id
    outside      \* history: the handles registered past the lifecycle

registryVars == <<registered, nextId, outside>>

\* The handles 1 .. n have been given out and are registered.
RegistryInit(n) == registered = 1 .. n /\ nextId = n + 1 /\ outside = 1 .. n

RegistryTypeOK ==
    /\ registered \subseteq Handles /\ outside \subseteq Handles
    /\ nextId \in 1 .. MaxHandle + 1

\* register takes the next handle, nextId, and puts the model in.
RegisterModel ==
    /\ nextId <= MaxHandle
    /\ registered' = registered \union {nextId}
    /\ nextId' = nextId + 1

\* The same by somebody other than the lifecycle.
RegisterOutside == RegisterModel /\ outside' = outside \union {nextId}

UnregisterModel(h) ==
    /\ registered' = registered \ {h}
    /\ UNCHANGED <<nextId, outside>>

-----------------------------------------------------------------------------
(* Maps *)

Empty == [x \in {} |-> x]
Put(f, x, v) == [y \in DOMAIN f \union {x} |-> IF y = x THEN v ELSE f[y]]
Drop(f, x) == [y \in DOMAIN f \ {x} |-> f[y]]

\* f is a partial map from S to T.
PartialMap(f, S, T) == DOMAIN f \subseteq S /\ \A x \in DOMAIN f : f[x] \in T
=============================================================================
