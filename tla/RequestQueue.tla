----------------------------- MODULE RequestQueue -----------------------------
(***************************************************************************)
(* The request queue of scheduler/queue.rs with the priority heap of       *)
(* scheduler/priority.rs and the stop signals of                           *)
(* scheduler/queued_request.rs and engine/request_control.rs.              *)
(*                                                                         *)
(* Both queues are guarded by async mutexes.  A section that holds a mutex *)
(* without awaiting anything is one step; enqueue_inner, which awaits the  *)
(* streaming mutex while it holds the queue mutex, is several, and         *)
(* queueLock says who holds the queue mutex in between.  The streaming     *)
(* mutex is never held across a step.                                      *)
(*                                                                         *)
(* A request stands for its own numeric id (next_id hands out each once).  *)
(***************************************************************************)
EXTENDS Naturals, Sequences, FiniteSets

CONSTANTS
    Requests,          \* every request ever submitted
    Streams,           \* the ones submitted by enqueue_streaming_controlled
    Timed,             \* the ones with a timeout (a stream outside it has timeout_ms = 0)
    PriorityOf,        \* [Requests -> 0..3], Low to Critical
    PromptBytes,       \* [Requests -> Nat], prompt.len()
    MaxContextTokens,  \* RequestQueueConfig::max_context_tokens
    MaxPending,        \* RequestQueueConfig::max_pending
    Nobody             \* no request

ASSUME QueueAssumption ==
    /\ IsFiniteSet(Requests)
    /\ Streams \subseteq Requests
    /\ Timed \subseteq Requests
    /\ PriorityOf \in [Requests -> 0..3]
    /\ PromptBytes \in [Requests -> Nat]
    /\ MaxContextTokens \in Nat
    /\ MaxPending \in Nat
    /\ Nobody \notin Requests

VARIABLES
    heap,       \* PriorityQueue::heap, a set of [req, prio, seq]
    nextSeq,    \* PriorityQueue::next_sequence
    streaming,  \* the VecDeque of streaming requests
    queueLock,  \* the request whose enqueue holds the queue mutex
    seen,       \* enqueue_inner's total, 0 when out of scope
    caller,     \* [Requests -> stage of the enqueue call]
    permit,     \* the stored permit of the Notify
    flag,       \* [Requests -> BOOLEAN], the cancel flag or token
    clock,      \* [Requests -> position of now relative to the deadline]
    answers     \* [Requests -> Seq of what its channel was sent]

queueVars == <<heap, nextSeq, streaming, queueLock, seen, caller, permit,
               flag, clock, answers>>

Unary == Requests \ Streams
Entry == [req : Requests, prio : 0..3, seq : Nat]
CallerStage == {"new", "checked", "locked", "counted", "pushed", "accepted",
                "ContextTooLarge", "InvalidTimeout", "QueueFull"}
Refused == {"ContextTooLarge", "InvalidTimeout", "QueueFull"}
Clock == {"none", "before", "at", "after"}
\* refused: by the ingress scan or by admission; failed: any other error, a
\* stream that stopped while it ran, or one whose sender was dropped.
Outcome == {"ok", "cancelled", "timeout", "refused", "failed"}

QueueInit ==
    /\ heap = {} /\ nextSeq = 0 /\ streaming = <<>>
    /\ queueLock = Nobody /\ seen = 0 /\ permit = FALSE
    /\ caller = [r \in Requests |-> "new"]
    /\ flag = [r \in Requests |-> FALSE]
    /\ clock = [r \in Requests |-> "none"]
    /\ answers = [r \in Requests |-> <<>>]

QueueTypeOK ==
    /\ heap \in SUBSET Entry /\ IsFiniteSet(heap)
    /\ nextSeq \in Nat
    /\ streaming \in Seq(Streams)
    /\ queueLock \in Requests \cup {Nobody}
    /\ seen \in Nat
    /\ caller \in [Requests -> CallerStage]
    /\ permit \in BOOLEAN
    /\ flag \in [Requests -> BOOLEAN]
    /\ clock \in [Requests -> Clock]
    /\ answers \in [Requests -> Seq(Outcome)]

-----------------------------------------------------------------------------
(* Stop signals *)

\* QueuedRequest::is_expired and its streaming twin: strictly past the deadline.
QueueExpired(r) == clock[r] = "after"

\* StopControl::is_expired and StreamControl::should_stop: at the deadline or past it.
DeadlineReached(r) == clock[r] \in {"at", "after"}

ShouldStop(r) == flag[r] \/ DeadlineReached(r)

\* StopControl::stop_error, with reject_unexecuted's fallback to Cancelled.
StopError(r) ==
    IF flag[r] THEN "cancelled"
    ELSE IF DeadlineReached(r) THEN "timeout" ELSE "cancelled"

Stale(r) == flag[r] \/ QueueExpired(r)

\* A deadline starts when it is fixed, and time passes over it in two
\* steps; a request that is answered or refused is gone.
StartDeadline(r) ==
    clock' = [clock EXCEPT ![r] = IF r \in Timed THEN "before" ELSE "none"]

Tick(r) ==
    /\ clock[r] \in {"before", "at"}
    /\ answers[r] = <<>> /\ caller[r] \notin Refused
    /\ clock' = [clock EXCEPT ![r] = IF @ = "before" THEN "at" ELSE "after"]
    /\ UNCHANGED <<heap, nextSeq, streaming, queueLock, seen, caller, permit,
                   flag, answers>>

\* The owner of the flag stops the request: a cancel frame, a disconnect or the
\* handler's own deadline.  A unary caller only owns its flag once enqueued, a
\* stream's token exists from the start.
CallerStops(r) ==
    /\ ~flag[r] /\ answers[r] = <<>>
    /\ \/ r \in Unary /\ caller[r] = "accepted"
       \/ r \in Streams /\ caller[r] \notin Refused \cup {"new"}
    /\ flag' = [flag EXCEPT ![r] = TRUE]
    /\ UNCHANGED <<heap, nextSeq, streaming, queueLock, seen, caller, permit,
                   clock, answers>>

\* RequestQueue::cancel finds a queued request by id under the queue mutex.
CancelQueued(r) ==
    /\ queueLock = Nobody
    /\ \E e \in heap : e.req = r
    /\ flag' = [flag EXCEPT ![r] = TRUE]
    /\ UNCHANGED <<heap, nextSeq, streaming, queueLock, seen, caller, permit,
                   clock, answers>>

-----------------------------------------------------------------------------
(* Enqueue *)

\* check_context: four bytes of prompt count as one token.
ContextFits(r) == PromptBytes[r] \div 4 <= MaxContextTokens

\* The checks made before any lock.  A stream's deadline is fixed here.
Submit(r) ==
    /\ caller[r] = "new"
    /\ \/ /\ ~ContextFits(r)
          /\ caller' = [caller EXCEPT ![r] = "ContextTooLarge"]
          /\ clock' = clock
       \/ /\ ContextFits(r) /\ r \in Streams \ Timed
          /\ caller' = [caller EXCEPT ![r] = "InvalidTimeout"]
          /\ clock' = clock
       \/ /\ ContextFits(r) /\ r \notin Streams \ Timed
          /\ caller' = [caller EXCEPT ![r] = "checked"]
          /\ IF r \in Streams THEN StartDeadline(r) ELSE clock' = clock
    /\ UNCHANGED <<heap, nextSeq, streaming, queueLock, seen, permit, flag, answers>>

\* Mutant of LockQueue: the queue mutex is not awaited.
LockQueueWithoutWaiting(r) ==
    /\ caller[r] = "checked"
    /\ queueLock' = r
    /\ caller' = [caller EXCEPT ![r] = "locked"]
    /\ UNCHANGED <<heap, nextSeq, streaming, seen, permit, flag, clock, answers>>

LockQueue(r) ==
    /\ caller[r] = "checked" /\ queueLock = Nobody
    /\ queueLock' = r
    /\ caller' = [caller EXCEPT ![r] = "locked"]
    /\ UNCHANGED <<heap, nextSeq, streaming, seen, permit, flag, clock, answers>>

Pending == Cardinality(heap) + Len(streaming)

\* enqueue_inner reads both lengths and lets go of the streaming mutex ...
CountPending(r) ==
    /\ r \in Unary /\ caller[r] = "locked"
    /\ seen' = Pending
    /\ caller' = [caller EXCEPT ![r] = "counted"]
    /\ UNCHANGED <<heap, nextSeq, streaming, queueLock, permit, flag, clock, answers>>

\* ... then decides on the total it read, pushes, and lets go of the queue mutex.
PushUnary(r) ==
    /\ caller[r] = "counted"
    /\ queueLock' = Nobody
    /\ IF seen >= MaxPending
       THEN /\ caller' = [caller EXCEPT ![r] = "QueueFull"]
            /\ UNCHANGED <<heap, nextSeq, clock>>
       ELSE /\ caller' = [caller EXCEPT ![r] = "pushed"]
            /\ heap' = heap \cup {[req |-> r, prio |-> PriorityOf[r], seq |-> nextSeq]}
            /\ nextSeq' = nextSeq + 1
            /\ StartDeadline(r)
    /\ seen' = 0
    /\ UNCHANGED <<streaming, permit, flag, answers>>

\* enqueue_streaming_controlled counts and pushes with both mutexes held.
PushStream(r) ==
    /\ r \in Streams /\ caller[r] = "locked"
    /\ queueLock' = Nobody
    /\ IF Pending >= MaxPending
       THEN /\ caller' = [caller EXCEPT ![r] = "QueueFull"]
            /\ UNCHANGED streaming
       ELSE /\ caller' = [caller EXCEPT ![r] = "pushed"]
            /\ streaming' = Append(streaming, r)
    /\ UNCHANGED <<heap, nextSeq, seen, permit, flag, clock, answers>>

\* notify_one after the locks are released.
NotifyWorker(r) ==
    /\ caller[r] = "pushed"
    /\ permit' = TRUE
    /\ caller' = [caller EXCEPT ![r] = "accepted"]
    /\ UNCHANGED <<heap, nextSeq, streaming, queueLock, seen, flag, clock, answers>>

CallerStep(r) ==
    \/ Submit(r) \/ LockQueue(r) \/ CountPending(r) \/ PushUnary(r)
    \/ PushStream(r) \/ NotifyWorker(r)

-----------------------------------------------------------------------------
(* Dequeue *)

\* Mutant of Before: later requests of one priority come first.
BeforeLastIn(e, f) == e.prio > f.prio \/ (e.prio = f.prio /\ e.seq > f.seq)

\* PrioritizedItem::cmp: higher priority first, then lower sequence.
Before(e, f) == e.prio > f.prio \/ (e.prio = f.prio /\ e.seq < f.seq)

Live == {e \in heap : ~Stale(e.req)}

\* The entry the pop loop of dequeue returns ...
IsNext(e) == e \in Live /\ \A f \in Live : f = e \/ Before(e, f)

\* ... and the stale ones it pops on the way; all of them when nothing is live.
Skipped(taken) == {e \in heap \ Live : \A f \in taken : Before(e, f)}

\* Mutant of AnswersAfterReject: skipped requests are dropped in silence.
AnswersUntouched(S) == answers

\* reject_unexecuted for each entry of S.
AnswersAfterReject(S) ==
    [r \in Requests |-> IF \E e \in S : e.req = r
                        THEN Append(answers[r], StopError(r)) ELSE answers[r]]

\* Mutant of PopHeap: stale entries are answered but left in the heap.
PopHeapKeepStale(taken) ==
    /\ queueLock = Nobody
    /\ heap' = heap \ taken
    /\ answers' = AnswersAfterReject(Skipped(taken))
    /\ UNCHANGED <<nextSeq, streaming, queueLock, seen, caller, flag, clock>>

\* dequeue, for taken = {} (None) or {e}.
PopHeap(taken) ==
    /\ queueLock = Nobody
    /\ heap' = heap \ (taken \cup Skipped(taken))
    /\ answers' = AnswersAfterReject(Skipped(taken))
    /\ UNCHANGED <<nextSeq, streaming, queueLock, seen, caller, flag, clock>>
=============================================================================
