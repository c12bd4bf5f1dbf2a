---------------------------- MODULE RequestService ----------------------------
(***************************************************************************)
(* What the scheduler promises the caller of a request, without queues,    *)
(* locks or a worker:                                                      *)
(*   - a request is refused, or accepted and then answered once;           *)
(*   - it can only win (its result is decided to be a success) while       *)
(*     nothing has stopped it, and only a request that has won is answered *)
(*     with a success;                                                     *)
(*   - "cancelled" is told only to a caller who cancelled.                 *)
(* Requests are independent of one another, so a step may move several.    *)
(***************************************************************************)
CONSTANT Requests

VARIABLES
    status,  \* [Requests -> Status]
    signal   \* [Requests -> SUBSET {"cancel", "deadline"}], the raised stop signals

Failure == {"cancelled", "timeout", "refused", "failed"}
Status == {"idle", "turnedAway", "pending", "won", "ok"} \cup Failure

Init ==
    /\ status = [r \in Requests |-> "idle"]
    /\ signal = [r \in Requests |-> {}]

Keep(r) == status'[r] = status[r] /\ signal'[r] = signal[r]

Raise(r) ==
    /\ status[r] \in {"idle", "pending", "won"}
    /\ status'[r] = status[r]
    /\ signal[r] \subseteq signal'[r]

TurnAway(r) == status[r] = "idle" /\ status'[r] = "turnedAway" /\ signal'[r] = signal[r]

Accept(r) == status[r] = "idle" /\ status'[r] = "pending" /\ signal'[r] = signal[r]

Win(r) ==
    /\ status[r] = "pending" /\ signal[r] = {}
    /\ status'[r] = "won" /\ signal'[r] = signal[r]

Succeed(r) == status[r] = "won" /\ status'[r] = "ok" /\ signal'[r] = signal[r]

Fail(r) ==
    /\ status[r] = "pending"
    /\ status'[r] \in Failure
    /\ status'[r] = "cancelled" => "cancel" \in signal[r]
    /\ signal'[r] = signal[r]

Next == \A r \in Requests :
    Keep(r) \/ Raise(r) \/ TurnAway(r) \/ Accept(r) \/ Win(r) \/ Succeed(r) \/ Fail(r)

Spec == Init /\ [][Next]_<<status, signal>>
=============================================================================
