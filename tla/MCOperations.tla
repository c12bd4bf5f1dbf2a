----------------------------- MODULE MCOperations -----------------------------
(***************************************************************************)
(* The components that serve, protect and operate the runtime, on one      *)
(* instance: a behaviour runs one of them and leaves the state of the      *)
(* others alone.  What a component may find when it starts (the devices,   *)
(* the text a model would generate, a configuration) is fixed in the       *)
(* behaviours of the others.                                               *)
(***************************************************************************)
EXTENDS Daemon, Sessions, Batching, GpuWork, Generation,
        Speculative, Security, Keys, Rollout

CONSTANTS probe, other

\* A probe against a command of any other kind.
MCCommandKinds(c) == IF c = probe THEN {"readiness"} ELSE {"unary", "stream", "load", "unload"}
MCAllowedSyscalls == <<1, 3>>

MCWeightSteps == <<10, 50, 100>>

VARIABLE part    \* the component that runs

Parts == {"daemon", "sessions", "batches", "slots", "gpu memory", "gpu devices",
          "parallel", "experts", "generation", "speculation", "security", "keys", "salt", "canary", "split"}

hostVars == <<daemonVars, sessionVars, batchVars>>
engineVars == <<gpuVars, parallelVars, genVars, specVars>>
guardVars == <<secVars, keyVars, saltVars, canaryVars, splitVars>>
MCVars == <<part, hostVars, engineVars, guardVars>>

Only(p, fixed) == part = p \/ (part # p /\ fixed)

MCInit ==
    /\ part \in Parts
    /\ DaemonInit /\ SessionInit /\ BatchInit /\ ParallelInit /\ GenInit
    /\ KeyInit /\ SaltInit /\ CanaryInit
    /\ Only("gpu devices", /\ driver = [backend |-> "Cuda", count |-> 2, open |-> {0, 1}, memory |-> GpuCapacity]
                           /\ gpuConfig = [backend |-> "Cuda", index |-> 0])
    /\ GpuDevicesInit
    /\ Only("speculation", /\ greedy = [i \in 1 .. SpecLength |-> IF i <= SpecPrompt THEN CHOOSE t \in SpecTokens : TRUE ELSE Eos]
                           /\ specActive = FALSE /\ specLookup = FALSE /\ specMax = 0)
    /\ SpecInit
    /\ Only("security", secConfig = (CHOOSE s \in SecConfigs : TRUE) /\ prompt = (CHOOSE p \in Prompts : TRUE))
    /\ SecInit
    /\ Only("split", weights = [l \in VariantLabels |-> -1] /\ sticky = TRUE)
    /\ SplitInit

HostStep ==
    \/ /\ part = "daemon" /\ DaemonNext
       /\ UNCHANGED <<sessionVars, batchVars>>
    \/ /\ part = "sessions" /\ SessionNext
       /\ UNCHANGED <<daemonVars, batchVars>>
    \/ /\ part = "batches" /\ CutNext
       /\ UNCHANGED <<daemonVars, sessionVars>>
    \/ /\ part = "slots" /\ SlotNext
       /\ UNCHANGED <<daemonVars, sessionVars>>

EngineStep ==
    \/ /\ part = "gpu memory" /\ GpuMemoryNext
       /\ UNCHANGED <<parallelVars, genVars, specVars>>
    \/ /\ part = "gpu devices" /\ GpuDeviceNext
       /\ UNCHANGED <<parallelVars, genVars, specVars>>
    \/ /\ part = "parallel" /\ ParallelNext
       /\ UNCHANGED <<gpuVars, genVars, specVars>>
    \/ /\ part = "experts" /\ MoeNext
       /\ UNCHANGED <<gpuVars, genVars, specVars>>
    \/ /\ part = "generation" /\ GenNext
       /\ UNCHANGED <<gpuVars, parallelVars, specVars>>
    \/ /\ part = "speculation" /\ SpecNext
       /\ UNCHANGED <<gpuVars, parallelVars, genVars>>

GuardStep ==
    \/ /\ part = "security" /\ SecNext
       /\ UNCHANGED <<keyVars, saltVars, canaryVars, splitVars>>
    \/ /\ part = "keys" /\ KeyNext
       /\ UNCHANGED <<secVars, saltVars, canaryVars, splitVars>>
    \/ /\ part = "salt" /\ SaltNext
       /\ UNCHANGED <<secVars, keyVars, canaryVars, splitVars>>
    \/ /\ part = "canary" /\ CanaryNext
       /\ UNCHANGED <<secVars, keyVars, saltVars, splitVars>>
    \/ /\ part = "split" /\ SplitNext
       /\ UNCHANGED <<secVars, keyVars, saltVars, canaryVars>>

MCNext ==
    \/ HostStep /\ UNCHANGED <<part, engineVars, guardVars>>
    \/ EngineStep /\ UNCHANGED <<part, hostVars, guardVars>>
    \/ GuardStep /\ UNCHANGED <<part, hostVars, engineVars>>

Operations == MCInit /\ [][MCNext]_MCVars
=============================================================================
