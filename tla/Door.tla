--------------------------------- MODULE Door ---------------------------------
(***************************************************************************)
(* What a client meets before a request of its is looked at: the pool of   *)
(* connections and the token bucket of its session.  The two share no      *)
(* state and their steps interleave.                                       *)
(***************************************************************************)
EXTENDS ConnectionPool, RateLimiter

doorVars == <<poolVars, bucketVars>>

DoorInit == ConnectionInit /\ BucketInit

DoorNext ==
    \/ ConnectionNext /\ UNCHANGED bucketVars
    \/ BucketNext /\ UNCHANGED poolVars

DoorSpec == DoorInit /\ [][DoorNext]_doorVars

\* Clients at the door: no more connections than the pool admits, and no caller
\* above its burst and rate (ConnectionPool::try_acquire, RateLimiter::check).
DoorHolds == ConnectionsBounded /\ BurstAndRate
=============================================================================
