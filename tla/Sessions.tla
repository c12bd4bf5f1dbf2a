------------------------------- MODULE Sessions -------------------------------
(***************************************************************************)
(* Session authentication (ipc/auth.rs, ipc/auth_session.rs).  Logins run  *)
(* concurrently: a wrong token is counted by the failure limiter in two    *)
(* steps, a right one clears the limiter in three, and no lock is held     *)
(* across them.  Sessions are behind one lock, so a validation is atomic.  *)
(***************************************************************************)
EXTENDS Naturals, FiniteSets, Sequences

CONSTANTS
    Logins,             \* the concurrent authenticate calls
    MaxFailedAttempts,  \* MAX_FAILED_ATTEMPTS
    RateLimitDuration,  \* RATE_LIMIT_DURATION
    AttemptWindow,      \* ATTEMPT_WINDOW
    MaxRequests,        \* MAX_REQUESTS_PER_MINUTE
    RequestWindow,      \* REQUEST_WINDOW
    SessionTimeout,     \* session_timeout
    MaxTime,            \* bound on the clock
    MaxFailures         \* bound on the wrong tokens tried

ASSUME SessionsAssumption ==
    /\ IsFiniteSet(Logins)
    /\ MaxRequests \in Nat \ {0} /\ RequestWindow \in Nat

Never == MaxTime + RateLimitDuration + 1    \* Option<Instant>::None

VARIABLES
    clock,
    failed,        \* RateLimiter.failed_attempts
    windowStart,   \* RateLimiter.window_start
    blockedUntil,  \* RateLimiter.blocked_until
    login,         \* where each authenticate call is
    session,       \* the session each successful login made
    failures       \* history: wrong tokens since the limiter was last cleared

sessionVars == <<clock, failed, windowStart, blockedUntil, login, session, failures>>
limiterVars == <<failed, windowStart, blockedUntil, failures>>

NoSession == [live |-> FALSE, created |-> 0, count |-> 0, window |-> 0, accepted |-> <<>>]
LoginIdle == [at |-> "idle", now |-> 0]

SessionInit ==
    /\ clock = 0 /\ failed = 0 /\ windowStart = Never /\ blockedUntil = Never
    /\ login = [c \in Logins |-> LoginIdle]
    /\ session = [c \in Logins |-> NoSession]
    /\ failures = 0

Stage(c, at) == login' = [login EXCEPT ![c].at = at]

\* is_rate_limited at the head of authenticate, then the comparison of the
\* token's hash.
IsRateLimited == blockedUntil # Never /\ clock < blockedUntil
Authenticate(c) ==
    /\ login[c].at = "idle" /\ ~session[c].live /\ ~IsRateLimited
    /\ \/ login' = [login EXCEPT ![c].at = "clear"] /\ UNCHANGED failures
       \/ /\ failures < MaxFailures
          /\ login' = [login EXCEPT ![c] = [at |-> "wrong", now |-> clock]]
          /\ failures' = failures + 1
    /\ UNCHANGED <<clock, failed, windowStart, blockedUntil, session>>

\* record_failure decides under the window's mutex.  A window that is over
\* or was never begun restarts the count there and its start after the
\* mutex was given up.
WindowOver(now) == windowStart = Never \/ now - windowStart > AttemptWindow
RecordFailure(c) ==
    /\ login[c].at = "wrong"
    /\ IF WindowOver(login[c].now)
       THEN failed' = 1 /\ Stage(c, "restart")
       ELSE failed' = failed + 1 /\ Stage(c, IF failed + 1 >= MaxFailedAttempts THEN "block" ELSE "idle")
    /\ UNCHANGED <<clock, windowStart, blockedUntil, session, failures>>

RestartWindow(c) ==
    /\ login[c].at = "restart"
    /\ windowStart' = login[c].now
    /\ Stage(c, "idle")
    /\ UNCHANGED <<clock, failed, blockedUntil, session, failures>>

BlockLogins(c) ==
    /\ login[c].at = "block"
    /\ blockedUntil' = login[c].now + RateLimitDuration
    /\ Stage(c, "idle")
    /\ UNCHANGED <<clock, failed, windowStart, session, failures>>

\* A slip: the count survives a successful login.
ClearWindowOnly(c) ==
    /\ login[c].at = "clear" /\ Stage(c, "clearWindow")
    /\ failures' = Cardinality({d \in Logins : login[d].at = "wrong"})
    /\ UNCHANGED <<clock, failed, windowStart, blockedUntil, session>>

\* reset: the count, the window and the block, one after the other.
ClearFailures(c) ==
    /\ login[c].at = "clear" /\ failed' = 0 /\ Stage(c, "clearWindow")
    /\ failures' = Cardinality({d \in Logins : login[d].at = "wrong"})
    /\ UNCHANGED <<clock, windowStart, blockedUntil, session>>
ClearWindow(c) ==
    /\ login[c].at = "clearWindow" /\ windowStart' = Never /\ Stage(c, "clearBlock")
    /\ UNCHANGED <<clock, failed, blockedUntil, session, failures>>
ClearBlock(c) ==
    /\ login[c].at = "clearBlock" /\ blockedUntil' = Never /\ Stage(c, "insert")
    /\ UNCHANGED <<clock, failed, windowStart, session, failures>>

OpenSession(c) ==
    /\ login[c].at = "insert"
    /\ session' = [session EXCEPT ![c] = [live |-> TRUE, created |-> clock, count |-> 0,
                                          window |-> clock, accepted |-> <<>>]]
    /\ Stage(c, "idle")
    /\ UNCHANGED <<clock, limiterVars>>

\* A slip: the window restarts as soon as it is full.
ValidateEagerly(c) ==
    LET s == session[c] IN
    /\ login[c].at = "idle" /\ s.live /\ clock - s.created <= SessionTimeout
    /\ Len(s.accepted) < 2 * MaxRequests + 1
    /\ session' = [session EXCEPT ![c] = [s EXCEPT !.count = 1, !.window = clock,
                                                   !.accepted = Append(@, clock)]]
    /\ UNCHANGED <<clock, limiterVars, login>>

\* validate: an old session is removed; a new window restarts the count at
\* this request; a full one refuses.  The count stops one above the limit.
Validate(c) ==
    LET s == session[c]
        expired == clock - s.created > SessionTimeout
        restart == clock - s.window > RequestWindow
        full == ~restart /\ s.count >= MaxRequests
        next == IF restart THEN [s EXCEPT !.count = 1, !.window = clock]
                ELSE [s EXCEPT !.count = IF full THEN MaxRequests + 1 ELSE @ + 1]
    IN  /\ login[c].at = "idle" /\ s.live
        /\ session' = [session EXCEPT ![c] =
              CASE expired -> NoSession
                [] ~expired /\ full -> next
                [] OTHER -> [next EXCEPT !.accepted = Append(@, clock)]]
        /\ UNCHANGED <<clock, limiterVars, login>>

CleanupSessions ==
    LET old == {c \in Logins : session[c].live /\ clock - session[c].created > SessionTimeout} IN
    /\ old # {}
    /\ session' = [c \in Logins |-> IF c \in old THEN NoSession ELSE session[c]]
    /\ UNCHANGED <<clock, limiterVars, login>>

\* Time passes between steps, or in the middle of a call.
PassTime == clock < MaxTime /\ clock' = clock + 1 /\ UNCHANGED <<limiterVars, login, session>>

SessionNext ==
    \/ \E c \in Logins :
          \/ Authenticate(c) \/ RecordFailure(c) \/ RestartWindow(c) \/ BlockLogins(c)
          \/ ClearFailures(c) \/ ClearWindow(c) \/ ClearBlock(c) \/ OpenSession(c) \/ Validate(c)
    \/ CleanupSessions
    \/ PassTime

SessionSpec == SessionInit /\ [][SessionNext]_sessionVars

-----------------------------------------------------------------------------
(* Properties *)

Recording == {c \in Logins : login[c].at = "wrong"}

\* The limiter counts no failure twice: whatever logins race with each other
\* and with a successful one that clears it, its count and the failures about
\* to be recorded are never more than the wrong tokens tried since it was
\* cleared (auth_session.rs, record_failure and reset).
FailuresCountedOnce == failed + Cardinality(Recording) <= failures

\* Wherever a window of requests begins, a session is never served more than
\* twice its limit within the length of a window: the count restarts with the
\* window and only then (auth.rs, validate).
RequestsPerWindow ==
    \A c \in Logins : LET served == session[c].accepted IN
        \A i \in DOMAIN served : i > 2 * MaxRequests =>
            served[i] - served[i - 2 * MaxRequests] > RequestWindow

\* Failed logins are counted once and a session sends no more requests than its
\* window allows (RateLimiter::record_failure, SessionAuth::validate).
SessionsLimited == FailuresCountedOnce /\ RequestsPerWindow
=============================================================================
