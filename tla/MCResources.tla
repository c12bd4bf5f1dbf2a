----------------------------- MODULE MCResources -----------------------------
(***************************************************************************)
(* The gates a request passes and the resources it draws on, on one        *)
(* instance: a behaviour runs one of the components and leaves the state   *)
(* of the others alone.                                                    *)
(*                                                                         *)
(* Three requests take guards around one shutdown.  Five calls of 1, 2, 3, *)
(* 1 and 5 units meet limits of 3 per call, 4 in all and two at a time:    *)
(* each limit alone can refuse a call.                                     *)
(***************************************************************************)
EXTENDS ShutdownCoordinator, ResourceLimits, Door, Caches, Memory, ThreadPool

CONSTANTS c1, c2, c3, c4, c5, bronze, silver

MCCalls == {c1, c2, c3, c4, c5}
MCMemoryOf == [c \in Calls |-> CASE c \in {c1, c4} -> 1 [] c = c2 -> 2 [] c = c3 -> 3 [] OTHER -> 5]

MCRate == [t \in Tiers |-> IF t = bronze THEN 2 ELSE 3]
MCBurst == [t \in Tiers |-> IF t = bronze THEN 4 ELSE 6]

MCLayouts == {[size |-> 1, align |-> 1], [size |-> 2, align |-> 2]}

VARIABLE part    \* the component that runs

Parts == {"shutdown", "limits", "connections", "rate", "maps", "prompts", "arenas", "buffers", "threads", "kv"}

gateVars == <<shutdownVars, limitsVars, poolVars, bucketVars>>
storeVars == <<mapVars, promptVars, memoryVars, kvVars>>
MCVars == <<part, gateVars, storeVars, threadVars>>

MCInit ==
    /\ part \in Parts
    /\ ShutdownInit /\ LimitsInit /\ ConnectionInit /\ BucketInit
    /\ CacheInit /\ MemoryInit /\ ThreadInit /\ KvInit
    /\ part # "maps" => kind = "context"
    /\ part # "kv" => ~kvQuantised
    /\ part # "threads" => poolSize = 1

GateStep ==
    \/ /\ part = "shutdown" /\ ShutdownNext
       /\ UNCHANGED <<limitsVars, poolVars, bucketVars>>
    \/ /\ part = "limits" /\ LimitsNext
       /\ UNCHANGED <<shutdownVars, poolVars, bucketVars>>
    \/ /\ part = "connections" /\ ConnectionNext
       /\ UNCHANGED <<shutdownVars, limitsVars, bucketVars>>
    \/ /\ part = "rate" /\ BucketNext
       /\ UNCHANGED <<shutdownVars, limitsVars, poolVars>>

StoreStep ==
    \/ /\ part = "maps" /\ MapNext
       /\ UNCHANGED <<promptVars, memoryVars, kvVars>>
    \/ /\ part = "prompts" /\ PromptNext
       /\ UNCHANGED <<mapVars, memoryVars, kvVars>>
    \/ /\ part = "arenas" /\ ArenaNext
       /\ UNCHANGED <<mapVars, promptVars, kvVars>>
    \/ /\ part = "buffers" /\ (BufferNext \/ GpuNext)
       /\ UNCHANGED <<mapVars, promptVars, kvVars>>
    \/ /\ part = "kv" /\ KvNext
       /\ UNCHANGED <<mapVars, promptVars, memoryVars>>

MCNext ==
    \/ GateStep /\ UNCHANGED <<part, storeVars, threadVars>>
    \/ StoreStep /\ UNCHANGED <<part, gateVars, threadVars>>
    \/ part = "threads" /\ ThreadNext /\ UNCHANGED <<part, gateVars, storeVars>>

\* A shutdown need not come, but one that was begun goes on; so do the threads.
Resources ==
    /\ MCInit /\ [][MCNext]_MCVars
    /\ ShutdownFairness
    /\ \A w \in PoolWorkers : WF_threadVars(part = "threads" /\ ThreadStep(w))
    /\ \A j \in PoolJobs : WF_threadVars(part = "threads" /\ JobStep(j))
==============================================================================
