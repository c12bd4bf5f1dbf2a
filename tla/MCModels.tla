------------------------------ MODULE MCModels ------------------------------
(***************************************************************************)
(* The components that keep models, on one instance: a behaviour runs the  *)
(* lifecycle, the hot swap, the smart loader or the tiered pool, all four  *)
(* on the registry, or the tier synergy, a load from a file, the saved     *)
(* state or the version history, and leaves the state of the others alone. *)
(***************************************************************************)
EXTENDS ModelLifecycle, HotSwap, SmartLoader, ModelPool, TierSynergy, ModelStore

VARIABLE part    \* the component that runs

onRegistryVars == <<lifecycleVars, swapVars, loaderVars, modelPoolVars>>
besideVars == <<synergyVars, loadVars, saveVars, versionVars>>
MCVars == <<part, registryVars, onRegistryVars, besideVars>>

MCInit ==
    /\ \/ /\ part \in {"lifecycle", "loader", "pool", "synergy", "load", "save", "versions"}
          /\ RegistryInit(0) /\ SwapInit({})
       \/ part = "swap" /\ RegistryInit(Cardinality(Routed)) /\ SwapInit(Routed)
    /\ LifecycleInit /\ LoaderInit /\ PoolInit /\ SynergyInit /\ SaveInit /\ VersionInit
    /\ \/ part = "load"
       \/ /\ part # "load"
          /\ request = [absolute |-> FALSE, path |-> <<>>] /\ physical = "absent"
          /\ manifest = [kind |-> "absent", bytes |-> 1]
    /\ LoadInit

RegistryStep ==
    \/ part = "lifecycle" /\ LifecycleNext /\ UNCHANGED <<swapVars, loaderVars, modelPoolVars>>
    \/ part = "swap" /\ SwapNext /\ UNCHANGED <<lifecycleVars, loaderVars, modelPoolVars>>
    \/ part = "loader" /\ LoaderNext /\ UNCHANGED <<lifecycleVars, swapVars, modelPoolVars>>
    \/ part = "pool" /\ PoolNext /\ UNCHANGED <<lifecycleVars, swapVars, loaderVars>>

BesideStep ==
    \/ part = "synergy" /\ SynergyNext /\ UNCHANGED <<loadVars, saveVars, versionVars>>
    \/ part = "load" /\ LoadFileNext /\ UNCHANGED <<synergyVars, saveVars, versionVars>>
    \/ part = "save" /\ SaveNext /\ UNCHANGED <<synergyVars, loadVars, versionVars>>
    \/ part = "versions" /\ VersionNext /\ UNCHANGED <<synergyVars, loadVars, saveVars>>

MCNext ==
    \/ RegistryStep /\ UNCHANGED <<part, besideVars>>
    \/ BesideStep /\ UNCHANGED <<part, registryVars, onRegistryVars>>

Models == MCInit /\ [][MCNext]_MCVars /\ SwapFairness /\ LoaderFairness
=============================================================================
