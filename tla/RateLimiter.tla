----------------------------- MODULE RateLimiter -----------------------------
(***************************************************************************)
(* The token buckets of the request shim (shim/rate_limiter.rs,            *)
(* service_tier.rs).  A bucket is filled when a request looks at it, by    *)
(* the time since the last look.  Tokens are counted in whole units: the   *)
(* clock ticks at a rate at which each tick brings Rate(tier) of them, and *)
(* a request costs Cost.                                                   *)
(***************************************************************************)
EXTENDS Naturals

CONSTANTS
    Callers,        \* sessions
    Tiers,          \* ServiceTier
    Rate, Burst,    \* rate_limit_rps and burst_capacity of each tier, in units
    Cost,           \* the units of one token
    MaxIdle,        \* max_idle_secs of cleanup
    MaxTick         \* bound on the clock

ASSUME BucketAssumption ==
    /\ Tiers # {} /\ Rate \in [Tiers -> Nat] /\ Burst \in [Tiers -> Nat]
    /\ Cost \in Nat /\ MaxIdle \in Nat /\ MaxTick \in Nat

VARIABLES
    tick,
    bucket,     \* RateLimiter.buckets, with live FALSE for none
    admitted    \* history: what each caller was admitted since its bucket was made

bucketVars == <<tick, bucket, admitted>>

NoBucket == [live |-> FALSE, tokens |-> 0, last |-> 0, tier |-> CHOOSE t \in Tiers : TRUE, since |-> 0]

BucketInit ==
    /\ tick = 0
    /\ bucket = [c \in Callers |-> NoBucket]
    /\ admitted = [c \in Callers |-> 0]

NewBucket(t) == [live |-> TRUE, tokens |-> Burst[t], last |-> tick, tier |-> t, since |-> tick]
Lesser(x, y) == IF x < y THEN x ELSE y

\* A slip: the time of the last look is not brought forward.
RefilledTwice(b) == [b EXCEPT !.tokens = Lesser(@ + (tick - b.last) * Rate[b.tier], Burst[b.tier])]

Refilled(b) ==
    [b EXCEPT !.tokens = Lesser(@ + (tick - b.last) * Rate[b.tier], Burst[b.tier]), !.last = tick]

\* check: the tier counts only when the bucket is made.
Check(c, t) ==
    LET b == Refilled(IF bucket[c].live THEN bucket[c] ELSE NewBucket(t))
        ok == b.tokens >= Cost
    IN  /\ bucket' = [bucket EXCEPT ![c] = IF ok THEN [b EXCEPT !.tokens = @ - Cost] ELSE b]
        /\ admitted' = [admitted EXCEPT ![c] = (IF bucket[c].live THEN @ ELSE 0) + (IF ok THEN 1 ELSE 0)]
        /\ UNCHANGED tick

\* cleanup drops the buckets nobody looked at for MaxIdle.
Cleanup ==
    /\ tick >= MaxIdle
    /\ bucket' = [c \in Callers |-> IF bucket[c].live /\ bucket[c].last > tick - MaxIdle
                                    THEN bucket[c] ELSE NoBucket]
    /\ UNCHANGED <<tick, admitted>>

RemoveSession(c) ==
    /\ bucket[c].live
    /\ bucket' = [bucket EXCEPT ![c] = NoBucket]
    /\ UNCHANGED <<tick, admitted>>

Advance == tick < MaxTick /\ tick' = tick + 1 /\ UNCHANGED <<bucket, admitted>>

BucketNext ==
    \/ \E c \in Callers : (\E t \in Tiers : Check(c, t)) \/ RemoveSession(c)
    \/ Cleanup
    \/ Advance

BucketSpec == BucketInit /\ [][BucketNext]_bucketVars

\* However its requests are spread, a caller is admitted no more than its
\* burst and what its rate has brought since the bucket was made, although a
\* bucket is only ever filled when somebody looks (rate_limiter.rs,
\* try_consume).
BurstAndRate ==
    \A c \in Callers : LET b == bucket[c] IN
        b.live => admitted[c] * Cost + b.tokens <= Burst[b.tier] + (tick - b.since) * Rate[b.tier]
=============================================================================
