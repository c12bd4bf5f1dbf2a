------------------------------- MODULE HotSwap -------------------------------
(***************************************************************************)
(* Replacing the model behind a route while requests run on it             *)
(* (models/swap.rs over router.rs, drain.rs, preload.rs and registry.rs).  *)
(*                                                                         *)
(* execute_swap takes no lock for its whole duration: its state only keeps *)
(* a second swap out.  Routes, tracker and registry are each read and      *)
(* written in steps of their own, between which requests resolve a route,  *)
(* are counted on a handle, run and leave.                                 *)
(***************************************************************************)
EXTENDS ModelRegistry, FiniteSets

CONSTANTS
    Routed,      \* the models routed at the start
    Swaps,       \* calls of execute_swap
    Requests

ASSUME SwapAssumption ==
    /\ Routed \subseteq ModelIds
    /\ IsFiniteSet(Requests)
    /\ MaxHandle \in Nat
    /\ IsFiniteSet(Routed) /\ Cardinality(Routed) <= MaxHandle

VARIABLES
    state,       \* SwapState
    routes,      \* ModelRouter: a partial map from ModelIds to Handles
    counter,     \* FlightTracker: handle -> the requests that share its counter
    swap,        \* [Swaps -> stage of execute_swap]
    plan,        \* [Swaps -> its model id and its old and new handle]
    stage,       \* [Requests -> stage]
    on,          \* [Requests -> the handle it resolved]
    removed,     \* history: handles an operator took off their route
    raced        \* history: requests that had resolved a handle but were not counted
                 \* on it when its drain ended, or resolved it after that

swapVars == <<state, routes, counter, swap, plan, stage, on, removed, raced>>

SwapStage == {"new", "resolve", "preload", "drain", "abort", "route", "unregister",
              "untrack", "reset", "end"}
RequestStage == {"new", "resolved", "entered", "running", "end"}

SwapTypeOK ==
    /\ state \in {"Idle", "Preparing", "Draining", "Swapping"}
    /\ PartialMap(routes, ModelIds, Handles)
    /\ RegistryTypeOK /\ removed \subseteq Handles
    /\ PartialMap(counter, Handles, SUBSET Requests)
    /\ swap \in [Swaps -> SwapStage]
    /\ plan \in [Swaps -> [model : ModelIds, old : Handles \union {None}, new : Handles \union {None}]]
    /\ stage \in [Requests -> RequestStage]
    /\ on \in [Requests -> Handles \union {None}]
    /\ raced \subseteq Requests

\* Routes exist for the models routed, each to a registered model.
SwapInit(routed) ==
    /\ state = "Idle" /\ removed = {} /\ raced = {}
    /\ \E number \in [routed -> 1 .. Cardinality(routed)] :
         (\A m, n \in routed : number[m] = number[n] => m = n) /\ routes = number
    /\ counter = Empty
    /\ swap = [s \in Swaps |-> "new"]
    /\ plan = [s \in Swaps |-> [model |-> AnyModel, old |-> None, new |-> None]]
    /\ stage = [r \in Requests |-> "new"] /\ on = [r \in Requests |-> None]

SwapTo(s, t) == swap' = [swap EXCEPT ![s] = t]
RequestTo(r, t) == stage' = [stage EXCEPT ![r] = t]

requestVars == <<stage, on>>

-----------------------------------------------------------------------------
(* Requests and their guards *)

\* The requests a drain that is over no longer waits for.
Passed(h) == \E s \in Swaps : swap[s] = "route" /\ plan[s].old = h

Resolve(r) ==
    /\ stage[r] = "new"
    /\ \E m \in ModelIds :
         \/ m \notin DOMAIN routes /\ RequestTo(r, "end") /\ UNCHANGED <<on, raced>>
         \/ /\ m \in DOMAIN routes
            /\ on' = [on EXCEPT ![r] = routes[m]]
            /\ raced' = IF Passed(routes[m]) THEN raced \union {r} ELSE raced
            /\ RequestTo(r, "resolved")
    /\ UNCHANGED <<state, routes, registryVars, counter, swap, plan, removed>>

\* track finds or makes the handle's counter ...
FindCounter(r) ==
    /\ stage[r] = "resolved"
    /\ counter' = Put(counter, on[r],
                      (IF on[r] \in DOMAIN counter THEN counter[on[r]] ELSE {}) \union {r})
    /\ RequestTo(r, "entered")
    /\ UNCHANGED <<state, routes, registryVars, swap, plan, on, removed, raced>>

\* ... and adds one to it.
Track(r) ==
    /\ stage[r] = "entered"
    /\ RequestTo(r, "running")
    /\ UNCHANGED <<state, routes, registryVars, counter, swap, plan, on, removed, raced>>

\* The guard is dropped; the counter goes with the last who shares it.
DropGuard(r) ==
    /\ stage[r] = "running"
    /\ counter' = [h \in DOMAIN counter |-> counter[h] \ {r}]
    /\ RequestTo(r, "end")
    /\ UNCHANGED <<state, routes, registryVars, swap, plan, on, removed, raced>>

\* in_flight_count: zero for a handle without a counter.
InFlightCount(h) ==
    IF h \in DOMAIN counter THEN Cardinality({r \in counter[h] : stage[r] = "running"}) ELSE 0

-----------------------------------------------------------------------------
(* execute_swap *)

\* Under the state's write lock: SwapInProgress unless it is Idle.
BeginSwap(s) ==
    /\ swap[s] = "new"
    /\ \/ state # "Idle" /\ SwapTo(s, "end") /\ UNCHANGED state
       \/ state = "Idle" /\ state' = "Preparing" /\ SwapTo(s, "resolve")
    /\ \E m \in ModelIds : plan' = [plan EXCEPT ![s].model = m]
    /\ UNCHANGED <<routes, registryVars, counter, requestVars, removed, raced>>

\* RouteNotFound ends the swap.
ResolveOld(s) ==
    /\ swap[s] = "resolve"
    /\ \/ plan[s].model \notin DOMAIN routes /\ SwapTo(s, "reset") /\ UNCHANGED plan
       \/ /\ plan[s].model \in DOMAIN routes
          /\ plan' = [plan EXCEPT ![s].old = routes[plan[s].model]]
          /\ SwapTo(s, "preload")
    /\ UNCHANGED <<state, routes, registryVars, counter, requestVars, removed, raced>>

\* The manifest is invalid, or the new model is registered and draining begins.
Preload(s) ==
    /\ swap[s] = "preload"
    /\ \/ SwapTo(s, "reset") /\ UNCHANGED <<state, registryVars, plan>>
       \/ /\ RegisterOutside
          /\ plan' = [plan EXCEPT ![s].new = nextId]
          /\ SwapTo(s, "drain") /\ state' = "Draining"
    /\ UNCHANGED <<routes, counter, requestVars, removed, raced>>

\* The drain of old is over: those that resolved it and do not run are past it.
Drained(s) ==
    /\ raced' = raced \union {r \in Requests : on[r] = plan[s].old /\ stage[r] \in {"resolved", "entered"}}
    /\ state' = "Swapping" /\ SwapTo(s, "route")

\* Mutant of Drain: the new handle is drained instead of the old one.
DrainNew(s) ==
    /\ swap[s] = "drain"
    /\ \/ InFlightCount(plan[s].new) = 0 /\ Drained(s)
       \/ InFlightCount(plan[s].new) > 0 /\ SwapTo(s, "abort") /\ UNCHANGED <<state, raced>>
    /\ UNCHANGED <<routes, registryVars, counter, plan, requestVars, removed>>

\* One poll of drain: done, timed out, or once more after a sleep.
Drain(s) ==
    /\ swap[s] = "drain"
    /\ \/ InFlightCount(plan[s].old) = 0 /\ Drained(s)
       \/ InFlightCount(plan[s].old) > 0 /\ SwapTo(s, "abort") /\ UNCHANGED <<state, raced>>
    /\ UNCHANGED <<routes, registryVars, counter, plan, requestVars, removed>>

\* Mutant of Abort: the preloaded model stays registered.
AbortKeepingModel(s) ==
    /\ swap[s] = "abort"
    /\ SwapTo(s, "reset")
    /\ UNCHANGED <<state, routes, registryVars, counter, plan, requestVars, removed, raced>>

\* DrainTimeout: the preloaded model is unregistered, the route kept.
Abort(s) ==
    /\ swap[s] = "abort"
    /\ UnregisterModel(plan[s].new)
    /\ SwapTo(s, "reset")
    /\ UNCHANGED <<state, routes, counter, plan, requestVars, removed, raced>>

\* Mutant of SwapRoute: the old model goes before the route leads away from it.
SwapRouteLast(s) ==
    /\ swap[s] \in {"route", "untrack"}
    /\ IF swap[s] = "route" THEN UNCHANGED routes ELSE routes' = Put(routes, plan[s].model, plan[s].new)
    /\ SwapTo(s, IF swap[s] = "route" THEN "unregister" ELSE "reset")
    /\ UNCHANGED <<state, registryVars, counter, plan, requestVars, removed, raced>>

\* The route is replaced whether or not it still leads to old.
SwapRoute(s) ==
    /\ swap[s] = "route"
    /\ routes' = Put(routes, plan[s].model, plan[s].new)
    /\ SwapTo(s, "unregister")
    /\ UNCHANGED <<state, registryVars, counter, plan, requestVars, removed, raced>>

UnregisterOld(s) ==
    /\ swap[s] = "unregister"
    /\ UnregisterModel(plan[s].old)
    /\ SwapTo(s, "untrack")
    /\ UNCHANGED <<state, routes, counter, plan, requestVars, removed, raced>>

UntrackOld(s) ==
    /\ swap[s] = "untrack"
    /\ counter' = Drop(counter, plan[s].old)
    /\ SwapTo(s, "reset")
    /\ UNCHANGED <<state, routes, registryVars, plan, requestVars, removed, raced>>

\* Mutant of ResetState: the state is left as it is.
ResetNothing(s) ==
    /\ swap[s] = "reset"
    /\ SwapTo(s, "end")
    /\ UNCHANGED <<state, routes, registryVars, counter, plan, requestVars, removed, raced>>

ResetState(s) ==
    /\ swap[s] = "reset"
    /\ state' = "Idle" /\ SwapTo(s, "end")
    /\ UNCHANGED <<routes, registryVars, counter, plan, requestVars, removed, raced>>

\* An operator removes a route; the model stays registered.
RemoveRoute(m) ==
    /\ m \in DOMAIN routes
    /\ removed' = removed \union {routes[m]}
    /\ routes' = Drop(routes, m)
    /\ UNCHANGED <<state, registryVars, counter, swap, plan, requestVars, raced>>

-----------------------------------------------------------------------------
RequestStep(r) == Resolve(r) \/ FindCounter(r) \/ Track(r) \/ DropGuard(r)

SwapStep(s) ==
    \/ ResolveOld(s) \/ Preload(s) \/ Drain(s) \/ Abort(s)
    \/ SwapRoute(s) \/ UnregisterOld(s) \/ UntrackOld(s) \/ ResetState(s)

SwapNext ==
    \/ \E r \in Requests : RequestStep(r)
    \/ \E s \in Swaps : BeginSwap(s) \/ SwapStep(s)
    \/ \E m \in ModelIds : RemoveRoute(m)

\* A swap that was begun is run on; its drain ends at its timeout at the latest.
SwapFairness == \A s \in Swaps : WF_<<registryVars, swapVars>>(SwapStep(s))

SwapSpec ==
    /\ RegistryInit(Cardinality(Routed)) /\ SwapInit(Routed)
    /\ [][SwapNext]_<<registryVars, swapVars>>
    /\ SwapFairness

-----------------------------------------------------------------------------
(* Properties *)

\* No route ever leads to an unregistered model, in the middle of a swap or after
\* an aborted one ("zero-downtime model replacement").
RoutesAreRegistered == \A m \in DOMAIN routes : routes[m] \in registered

\* Between swaps nothing is left over of those before, however they ended: the old
\* and the new model of a swap are routed or gone from the registry, apart from a
\* model whose route an operator removed.
NothingLeftOver ==
    state = "Idle" =>
        \A s \in Swaps : {plan[s].old, plan[s].new} \intersect registered
                            \subseteq {routes[m] : m \in DOMAIN routes} \union removed

\* Every route leads to a registered model, and a swap that is over has left
\* nothing registered beside what is routed (execute_swap and its error paths).
SwapLeavesOrder == RoutesAreRegistered /\ NothingLeftOver

\* A request that was counted before the drain of its model ended, or that looked
\* its route up after the swap, runs on a registered model.  The rest had looked
\* the route up before it was swapped and were counted after the drain had ended.
OnlyRacersRunUnregistered ==
    \A r \in Requests : stage[r] = "running" /\ on[r] \notin registered => r \in raced

\* Every swap that was begun comes back to Idle, so that the next one can start.
SwapEnds == state # "Idle" ~> state = "Idle"
=============================================================================
