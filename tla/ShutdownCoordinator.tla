-------------------------- MODULE ShutdownCoordinator --------------------------
(***************************************************************************)
(* Graceful shutdown (shutdown.rs): requests that take and drop a          *)
(* ShutdownGuard against one call of initiate.                             *)
(*                                                                         *)
(* track reads the state and then adds to the counter; dropping a guard    *)
(* subtracts and then notifies.  Each of those is a step of its own.       *)
(***************************************************************************)
EXTENDS Naturals, FiniteSets

CONSTANT Requests

ASSUME RequestsAssumption == IsFiniteSet(Requests)

VARIABLES
    state,     \* ShutdownState
    inFlight,  \* the atomic counter
    permit,    \* the stored permit of the Notify
    request,   \* [Requests -> where a request is with its guard]
    drain,     \* where initiate is
    result,    \* ShutdownResult, "none" before
    raced      \* history: the requests between test and count when draining began

shutdownVars == <<state, inFlight, permit, request, drain, result, raced>>

RequestStage == {"new", "accepted", "tracked", "leaving", "done", "refused"}

\* The requests that hold a guard.
Holding == {r \in Requests : request[r] = "tracked"}

ShutdownInit ==
    /\ state = "Running" /\ inFlight = 0 /\ permit = FALSE
    /\ request = [r \in Requests |-> "new"]
    /\ drain = "idle" /\ result = "none" /\ raced = {}

ShutdownTypeOK ==
    /\ state \in {"Running", "Draining", "Stopped"}
    /\ inFlight \in Nat
    /\ permit \in BOOLEAN
    /\ request \in [Requests -> RequestStage]
    /\ drain \in {"idle", "check", "wait", "finish", "end"}
    /\ result \in {"none", "Complete", "Timeout"}
    /\ raced \subseteq Requests

RequestTo(r, s) == request' = [request EXCEPT ![r] = s]

-----------------------------------------------------------------------------
\* track: the test of the state ...
IsAccepting(r) ==
    /\ request[r] = "new"
    /\ RequestTo(r, IF state = "Running" THEN "accepted" ELSE "refused")
    /\ UNCHANGED <<state, inFlight, permit, drain, result, raced>>

\* ... and the count.
Track(r) ==
    /\ request[r] = "accepted"
    /\ inFlight' = inFlight + 1
    /\ RequestTo(r, "tracked")
    /\ UNCHANGED <<state, permit, drain, result, raced>>

\* Drop of the guard: the count ...
Uncount(r) ==
    /\ request[r] = "tracked"
    /\ inFlight' = inFlight - 1
    /\ RequestTo(r, "leaving")
    /\ UNCHANGED <<state, permit, drain, result, raced>>

\* Mutant of NotifyDrain: the guard forgets to notify.
LeaveQuietly(r) ==
    /\ request[r] = "leaving"
    /\ RequestTo(r, "done")
    /\ UNCHANGED <<state, inFlight, permit, drain, result, raced>>

\* ... and the notification.
NotifyDrain(r) ==
    /\ request[r] = "leaving"
    /\ permit' = TRUE
    /\ RequestTo(r, "done")
    /\ UNCHANGED <<state, inFlight, drain, result, raced>>

\* initiate stops accepting.
Initiate ==
    /\ drain = "idle"
    /\ state' = "Draining" /\ drain' = "check"
    /\ raced' = {r \in Requests : request[r] = "accepted"}
    /\ UNCHANGED <<inFlight, permit, request, result>>

Finish(r) == result' = r /\ drain' = "finish"

\* Mutant of CheckCount: the drain is over once the last guard but one is dropped.
CheckCountOffByOne ==
    /\ drain = "check"
    /\ IF inFlight <= 1 THEN Finish("Complete")
       ELSE drain' = "wait" /\ UNCHANGED result
    /\ UNCHANGED <<state, inFlight, permit, request, raced>>

\* One round of wait_for_drain: the count is read, then the call waits.
CheckCount ==
    /\ drain = "check"
    /\ \/ inFlight = 0 /\ Finish("Complete")
       \/ inFlight > 0 /\ Finish("Timeout")      \* no time remains
       \/ inFlight > 0 /\ drain' = "wait" /\ UNCHANGED result
    /\ UNCHANGED <<state, inFlight, permit, request, raced>>

Notified ==
    /\ drain = "wait" /\ permit
    /\ permit' = FALSE /\ drain' = "check"
    /\ UNCHANGED <<state, inFlight, request, result, raced>>

\* The time is up during the wait: the count is read once more.
TimeIsUp ==
    /\ drain = "wait"
    /\ Finish(IF inFlight = 0 THEN "Complete" ELSE "Timeout")
    /\ UNCHANGED <<state, inFlight, permit, request, raced>>

Stop ==
    /\ drain = "finish"
    /\ state' = "Stopped" /\ drain' = "end"
    /\ UNCHANGED <<inFlight, permit, request, result, raced>>

RequestStep(r) == Track(r) \/ Uncount(r) \/ NotifyDrain(r)

Drain == CheckCount \/ Notified \/ Stop

ShutdownNext ==
    \/ \E r \in Requests : IsAccepting(r) \/ RequestStep(r)
    \/ Initiate \/ Drain \/ TimeIsUp

\* Requests that passed the test run to their end and the draining task runs when
\* it can.  The timer is not assumed to fire: draining must end through the
\* notifications alone.
ShutdownFairness ==
    /\ \A r \in Requests : WF_shutdownVars(RequestStep(r))
    /\ WF_shutdownVars(Drain)

ShutdownSpec == ShutdownInit /\ [][ShutdownNext]_shutdownVars /\ ShutdownFairness

-----------------------------------------------------------------------------
(* Properties *)

\* A shutdown reported as complete has drained every request that was counted when
\* draining began, and refused all that arrived later ("drains in-flight requests
\* before exit"): the only ones that can still be in flight are those that had
\* passed track's test of the state and not yet counted themselves.
OnlyRacersOutlive == result = "Complete" => Holding \subseteq raced

\* Draining ends even if the timer never fires: the notification of the last guard
\* is never lost between the count and the wait.
DrainEnds == drain = "check" ~> drain = "end"

\* What shutdown.rs says of a drained shutdown: after "Complete" nothing is in flight.
NothingInFlightAfterComplete == result = "Complete" => Holding = {}
=============================================================================
