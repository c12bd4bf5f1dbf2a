--------------------------- MODULE SchedulerProofs ---------------------------
(***************************************************************************)
(* Proofs about scheduling, for any set of requests and any limits.        *)
(*                                                                         *)
(* Scheduler: types, queue capacity, the absence of lost wake-ups, the     *)
(* order of service, and that it implements RequestService.  Batching:     *)
(* requests are cut into batches and admitted to slots in order, and none  *)
(* is lost or served twice.                                                *)
(***************************************************************************)
EXTENDS Scheduler, Batching, CountingLemmas

\* The queue mutex is held exactly by the enqueue call between taking and
\* releasing it.
LockInv == \A r \in Requests : caller[r] \in {"locked", "counted"} <=> queueLock = r

\* The total an enqueue call has read is still an upper bound when it decides:
\* only the worker has run since, and it only takes requests out.
CountInv == \A r \in Requests : caller[r] = "counted" => r \in Unary /\ Pending <= seen

CapacityInv == TypeOK /\ LockInv /\ CountInv /\ CapacityRespected

\* A permit is stored, or an enqueue call is about to store one.
Signalled == permit \/ \E r \in Requests : caller[r] = "pushed"

WakeupInv ==
    /\ stage \in {"streamLen", "wait"} /\ heap # {} => Signalled
    /\ stage = "wait" /\ streaming # <<>> => Signalled

\* A request in the scheduler's hands: accepted and not yet answered.
Waiting(r) == caller[r] \in {"pushed", "accepted"} /\ answers[r] = <<>>

\* A waiting request is in one place only: one entry of the heap, one position of
\* the streaming queue, or with the worker.
HeapInv ==
    /\ \A e \in heap : /\ e.req \in Unary /\ Waiting(e.req) /\ e.req # current
                       /\ e.prio = PriorityOf[e.req] /\ e.seq < nextSeq
    /\ \A e, f \in heap : e.req = f.req \/ e.seq = f.seq => e = f

StreamInv ==
    /\ \A i \in 1..Len(streaming) : Waiting(streaming[i]) /\ streaming[i] # current
    /\ \A i, j \in 1..Len(streaming) : streaming[i] = streaming[j] => i = j

CurrentInv == current # Nobody => Waiting(current)

AnswerInv == \A r \in Requests :
    answers[r] # <<>> => Len(answers[r]) = 1 /\ caller[r] \in {"pushed", "accepted"}

PlaceInv == TypeOK /\ HeapInv /\ StreamInv /\ CurrentInv /\ AnswerInv

\* The worker only gets as far as the main queue when no stream is queued, so a
\* stream queued by then has not been passed yet.
BypassInv ==
    /\ \A r \in Requests : bypass[r] <= 1
    /\ \A r \in Requests : caller[r] \notin {"pushed", "accepted"} => bypass[r] = 0
    /\ stage \in {"select", "dequeue", "streamLen", "wait"} =>
         \A i \in 1..Len(streaming) : bypass[streaming[i]] = 0

\* No deadline runs before it is fixed, and a result that says cancelled was made
\* from the flag.
SignalInv ==
    /\ \A r \in Requests :
         caller[r] = "new" \/ (r \in Unary /\ caller[r] \notin {"pushed", "accepted"})
            => clock[r] = "none"
    /\ stage = "respond" /\ result = "cancelled" => flag[current]

-----------------------------------------------------------------------------
USE QueueAssumption

\* Rejecting entries appends one outcome to each of their requests.
LEMMA RejectType ==
    ASSUME TypeOK, NEW S
    PROVE  AnswersAfterReject(S) \in [Requests -> Seq(Outcome)]
BY DEF TypeOK, QueueTypeOK, AnswersAfterReject, StopError, Outcome

\* dequeue only takes entries out of the heap.
LEMMA PopShrinks ==
    ASSUME TypeOK, NEW taken, PopHeap(taken)
    PROVE  /\ heap' \subseteq heap
           /\ IsFiniteSet(heap')
           /\ Cardinality(heap') \in Nat
           /\ Cardinality(heap') <= Cardinality(heap)
<1>1. heap' \subseteq heap
  BY DEF PopHeap
<1> QED
  BY <1>1, FS_Subset, FS_CardinalityType DEF TypeOK, QueueTypeOK

LEMMA TypeInit == Init => TypeOK
<1> SUFFICES ASSUME Init PROVE TypeOK
  OBVIOUS
<1>1. heap \in SUBSET Entry /\ IsFiniteSet(heap) /\ streaming \in Seq(Streams)
  BY FS_EmptySet DEF Init, QueueInit
<1>2. answers \in [Requests -> Seq(Outcome)]
  BY DEF Init, QueueInit
<1>3. QueueTypeOK
  BY <1>1, <1>2 DEF Init, QueueInit, QueueTypeOK, CallerStage, Clock
<1> QED
  BY <1>3 DEF Init, TypeOK, Outcome, Stage, NoResult

\* Type correctness of every step of an enqueue call.
LEMMA CallerType ==
    ASSUME TypeOK, NEW r \in Requests, CallerStep(r), UNCHANGED workerVars
    PROVE  TypeOK'
<1> USE DEF TypeOK, QueueTypeOK, workerVars
<1>1. CASE Submit(r)
  BY <1>1, ZenonT(40) DEF Submit, StartDeadline, CallerStage, Clock
<1>2. CASE LockQueue(r)
  BY <1>2 DEF LockQueue, CallerStage
<1>3. CASE CountPending(r)
  <2>1. Pending \in Nat
    BY FS_CardinalityType DEF Pending
  <2> QED
    BY <1>3, <2>1 DEF CountPending, CallerStage
<1>4. CASE PushUnary(r)
  <2> DEFINE e == [req |-> r, prio |-> PriorityOf[r], seq |-> nextSeq]
  <2>1. e \in Entry
    BY DEF Entry
  <2>2. IsFiniteSet(heap \cup {e}) /\ heap \cup {e} \in SUBSET Entry
    BY <2>1, FS_AddElement
  <2>3. heap' = heap \/ heap' = heap \cup {e}
    BY <1>4 DEF PushUnary
  <2>4. heap' \in SUBSET Entry /\ IsFiniteSet(heap')
    BY <2>2, <2>3
  <2>5. caller' \in [Requests -> CallerStage] /\ clock' \in [Requests -> Clock]
    BY <1>4 DEF PushUnary, StartDeadline, CallerStage, Clock
  <2>6. nextSeq' \in Nat
    BY <1>4 DEF PushUnary
  <2> HIDE DEF e
  <2> QED
    BY <1>4, <2>4, <2>5, <2>6 DEF PushUnary
<1>5. CASE PushStream(r)
  <2>1. Append(streaming, r) \in Seq(Streams)
    BY <1>5 DEF PushStream
  <2>2. streaming' \in Seq(Streams)
    BY <1>5, <2>1 DEF PushStream
  <2>3. caller' \in [Requests -> CallerStage]
    BY <1>5 DEF PushStream, CallerStage
  <2> QED
    BY <1>5, <2>2, <2>3 DEF PushStream
<1>6. CASE NotifyWorker(r)
  BY <1>6 DEF NotifyWorker, CallerStage
<1> QED
  BY <1>1, <1>2, <1>3, <1>4, <1>5, <1>6 DEF CallerStep

LEMMA EnvironmentType ==
    ASSUME TypeOK, Environment
    PROVE  TypeOK'
BY ZenonT(40) DEF Environment, Tick, CallerStops, CancelQueued, TypeOK, QueueTypeOK, workerVars, Clock

\* Type correctness of every step of the worker.
LEMMA WorkerType ==
    ASSUME TypeOK, WorkerStep
    PROVE  TypeOK'
<1> USE DEF TypeOK, QueueTypeOK, Stage
<1>a. ASSUME NEW o \in Outcome, current \in Requests, Answer(o), result' \in Outcome
      PROVE  TypeOK'
  BY <1>a DEF Answer
<1>b. ASSUME NEW s \in {"admit", "run", "respond"}, current \in Requests, Advance(s),
             result' \in Outcome
      PROVE  TypeOK'
  BY <1>b DEF Advance, queueVars
<1>1. CASE TakeStream
  <2>1. CASE streaming = <<>>
    BY <1>1, <2>1 DEF TakeStream
  <2>2. CASE streaming # <<>>
    <3>1. Head(streaming) \in Streams /\ Tail(streaming) \in Seq(Streams)
      BY <2>2
    <3> QED
      BY <1>1, <2>2, <3>1 DEF TakeStream
  <2> QED
    BY <2>1, <2>2
<1>2. CASE Select
  BY <1>2 DEF Select, queueVars
<1>3. CASE ExitWhileWaiting
  BY <1>3 DEF ExitWhileWaiting, queueVars
<1>4. CASE FindNothing
  BY <1>4, PopShrinks, RejectType DEF FindNothing, PopHeap
<1>5. CASE CheckStreaming
  BY <1>5 DEF CheckStreaming, queueVars
<1>6. CASE Wake
  BY <1>6 DEF Wake
<1>7. CASE Ingress
  BY <1>7, <1>a, <1>b DEF Ingress, Outcome
<1>8. CASE Admit
  BY <1>8, <1>a, <1>b DEF Admit, Outcome, StopError
<1>9. CASE RunUnary
  BY <1>9, <1>b DEF RunUnary, Outcome, StopError
<1>10. CASE RunStream
  BY <1>10, <1>b DEF RunStream, Outcome
<1>11. CASE Respond
  BY <1>11, <1>a DEF Respond, Outcome, NoResult
<1>12. ASSUME NEW e \in heap, StartUnary(e)
       PROVE  TypeOK'
  <2>1. heap' \in SUBSET Entry /\ IsFiniteSet(heap') /\ answers' \in [Requests -> Seq(Outcome)]
    BY <1>12, PopShrinks, RejectType DEF StartUnary, PopHeap
  <2>2. bypass' \in [Requests -> Nat]
    <3> DEFINE queued(r) == \E i \in 1..Len(streaming) : streaming[i] = r
    <3>1. bypass' = [r \in Requests |-> bypass[r] + (IF queued(r) THEN 1 ELSE 0)]
      BY <1>12 DEF StartUnary
    <3> HIDE DEF queued
    <3>2. \A r \in Requests : bypass[r] \in Nat /\ (IF queued(r) THEN 1 ELSE 0) \in Nat
      OBVIOUS
    <3> QED
      BY <3>1, <3>2
  <2>3. e.req \in Requests
    BY DEF Entry
  <2> QED
    BY <1>12, <2>1, <2>2, <2>3 DEF StartUnary, PopHeap
<1> QED
  BY <1>1, <1>2, <1>3, <1>4, <1>5, <1>6, <1>7, <1>8, <1>9, <1>10, <1>11, <1>12
     DEF WorkerStep

LEMMA TypeStep == TypeOK /\ [Next]_vars => TypeOK'
<1> SUFFICES ASSUME TypeOK, [Next]_vars PROVE TypeOK'
  OBVIOUS
<1>1. CASE RequestShutdown
  BY <1>1 DEF RequestShutdown, TypeOK, QueueTypeOK
<1>2. CASE UNCHANGED vars
  BY <1>2 DEF vars, queueVars, workerVars, TypeOK, QueueTypeOK
<1> QED
  BY <1>1, <1>2, CallerType, WorkerType, EnvironmentType DEF Next, Callers

\* Every variable of the scheduler keeps its type.
THEOREM TypeCorrect == Spec => []TypeOK
BY TypeInit, TypeStep, PTL DEF Spec
-----------------------------------------------------------------------------
LEMMA CapacityInit == Init => CapacityInv
<1> SUFFICES ASSUME Init PROVE CapacityInv
  OBVIOUS
<1>1. Pending = 0
  BY FS_EmptySet DEF Init, QueueInit, Pending
<1> QED
  BY <1>1, TypeInit DEF CapacityInv, LockInv, CountInv, CapacityRespected, Init, QueueInit

\* Steps that leave the locks, the callers and the counted total alone and let
\* the queues at most shrink keep the invariant.
LEMMA CapacityShrink ==
    ASSUME CapacityInv, TypeOK', caller' = caller, queueLock' = queueLock,
           seen' = seen, Pending' <= Pending
    PROVE  CapacityInv'
<1>1. Pending \in Nat /\ Pending' \in Nat
  BY FS_CardinalityType, SMTT(30) DEF CapacityInv, TypeOK, QueueTypeOK, Pending
<1> QED
  BY <1>1 DEF CapacityInv, LockInv, CountInv, CapacityRespected, TypeOK, QueueTypeOK

LEMMA CapacityCaller ==
    ASSUME CapacityInv, TypeOK', NEW r \in Requests, CallerStep(r)
    PROVE  CapacityInv'
<1> USE DEF CapacityInv, LockInv, CountInv, CapacityRespected
<1>0. TypeOK /\ Pending \in Nat
  <2>1. Cardinality(heap) \in Nat /\ Len(streaming) \in Nat
    BY FS_CardinalityType DEF TypeOK, QueueTypeOK
  <2> QED
    BY <2>1 DEF Pending
<1>1. CASE Submit(r)
  BY <1>0, <1>1 DEF Submit, TypeOK, QueueTypeOK, Pending
<1>2. CASE LockQueue(r)
  BY <1>0, <1>2 DEF LockQueue, TypeOK, QueueTypeOK, Pending
<1>3. CASE CountPending(r)
  BY <1>0, <1>3 DEF CountPending, TypeOK, QueueTypeOK, Pending
<1>4. CASE PushUnary(r)
  <2>1. caller[r] = "counted" /\ queueLock = r /\ Pending <= seen /\ seen \in Nat
    BY <1>0, <1>4 DEF PushUnary, TypeOK, QueueTypeOK
  <2>2. \A q \in Requests : caller'[q] \notin {"locked", "counted"}
    BY <1>0, <1>4, <2>1 DEF PushUnary, TypeOK, QueueTypeOK
  <2>3. Pending' <= MaxPending
    <3>1. CASE seen >= MaxPending
      BY <1>4, <3>1 DEF PushUnary, Pending
    <3>2. CASE ~(seen >= MaxPending)
      <4>1. Cardinality(heap') <= Cardinality(heap) + 1 /\ Cardinality(heap') \in Nat
        <5> DEFINE e == [req |-> r, prio |-> PriorityOf[r], seq |-> nextSeq]
        <5>1. heap' = heap \cup {e}
          BY <1>4, <3>2 DEF PushUnary
        <5> HIDE DEF e
        <5>2. IsFiniteSet(heap) /\ Cardinality(heap) \in Nat
          BY <1>0, FS_CardinalityType DEF TypeOK, QueueTypeOK
        <5>3. Cardinality(heap \cup {e}) = IF e \in heap THEN Cardinality(heap)
                                           ELSE Cardinality(heap) + 1
          BY <5>2, FS_AddElement
        <5> QED
          BY <5>1, <5>2, <5>3
      <4>2. streaming' = streaming /\ Len(streaming) \in Nat /\ Cardinality(heap) \in Nat
        BY <1>0, <1>4, FS_CardinalityType DEF PushUnary, TypeOK, QueueTypeOK
      <4> QED
        BY <2>1, <3>2, <4>1, <4>2 DEF Pending
    <3> QED
      BY <3>1, <3>2
  <2> QED
    BY <1>4, <2>2, <2>3 DEF PushUnary
<1>5. CASE PushStream(r)
  <2>1. caller[r] = "locked" /\ queueLock = r
    BY <1>0, <1>5 DEF PushStream, TypeOK, QueueTypeOK
  <2>2. \A q \in Requests : caller'[q] \notin {"locked", "counted"}
    BY <1>0, <1>5, <2>1 DEF PushStream, TypeOK, QueueTypeOK
  <2>3. Pending' <= MaxPending
    <3>1. CASE Pending >= MaxPending
      BY <1>5, <3>1 DEF PushStream, Pending
    <3>2. CASE ~(Pending >= MaxPending)
      <4>1. Len(streaming') = Len(streaming) + 1 /\ Len(streaming) \in Nat
        BY <1>0, <1>5, <3>2 DEF PushStream, TypeOK, QueueTypeOK
      <4>2. heap' = heap /\ Cardinality(heap) \in Nat
        BY <1>0, <1>5, FS_CardinalityType DEF PushStream, TypeOK, QueueTypeOK
      <4> QED
        BY <1>0, <3>2, <4>1, <4>2 DEF Pending
    <3> QED
      BY <3>1, <3>2
  <2> QED
    BY <1>5, <2>2, <2>3 DEF PushStream
<1>6. CASE NotifyWorker(r)
  BY <1>0, <1>6 DEF NotifyWorker, TypeOK, QueueTypeOK, Pending
<1> QED
  BY <1>1, <1>2, <1>3, <1>4, <1>5, <1>6 DEF CallerStep

\* No step of the worker makes the queues longer.
LEMMA WorkerShrinks ==
    ASSUME TypeOK, WorkerStep
    PROVE  /\ caller' = caller /\ queueLock' = queueLock /\ seen' = seen
           /\ Pending' <= Pending
<1>0. Cardinality(heap) \in Nat /\ Len(streaming) \in Nat
  BY FS_CardinalityType DEF TypeOK, QueueTypeOK
<1>1. CASE TakeStream
  <2>1. Len(streaming') <= Len(streaming) /\ Len(streaming') \in Nat
    <3>1. CASE streaming = <<>>
      BY <1>0, <1>1, <3>1 DEF TakeStream
    <3>2. CASE streaming # <<>>
      BY <1>0, <1>1, <3>2 DEF TakeStream, TypeOK, QueueTypeOK
    <3> QED
      BY <3>1, <3>2
  <2> QED
    BY <1>0, <1>1, <2>1 DEF TakeStream, Pending
<1>2. CASE FindNothing
  <2>1. PopHeap({})
    BY <1>2 DEF FindNothing
  <2>2. Cardinality(heap') \in Nat /\ Cardinality(heap') <= Cardinality(heap)
    BY <2>1, PopShrinks
  <2> QED
    BY <1>0, <2>1, <2>2 DEF PopHeap, Pending
<1>3. ASSUME NEW e \in heap, StartUnary(e)
      PROVE  /\ caller' = caller /\ queueLock' = queueLock /\ seen' = seen
             /\ Pending' <= Pending
  <2>1. PopHeap({e})
    BY <1>3 DEF StartUnary
  <2>2. Cardinality(heap') \in Nat /\ Cardinality(heap') <= Cardinality(heap)
    BY <2>1, PopShrinks
  <2> QED
    BY <1>0, <2>1, <2>2 DEF PopHeap, Pending
<1>4. CASE UNCHANGED <<heap, streaming, caller, queueLock, seen>>
  BY <1>0, <1>4 DEF Pending
<1>5. WorkerStep => \/ TakeStream \/ FindNothing
                    \/ \E e \in heap : StartUnary(e)
                    \/ UNCHANGED <<heap, streaming, caller, queueLock, seen>>
  BY DEF WorkerStep, Select, ExitWhileWaiting, CheckStreaming, Wake, Ingress, Admit,
         RunUnary, RunStream, Respond, Answer, Advance, queueVars
<1> QED
  BY <1>1, <1>2, <1>3, <1>4, <1>5

LEMMA CapacityStep == CapacityInv /\ [Next]_vars => CapacityInv'
<1> SUFFICES ASSUME CapacityInv, [Next]_vars PROVE CapacityInv'
  OBVIOUS
<1>0. TypeOK /\ TypeOK'
  BY TypeStep DEF CapacityInv
<1>1. CASE Callers
  BY <1>0, <1>1, CapacityCaller DEF Callers
<1>2. CASE WorkerStep
  BY <1>0, <1>2, WorkerShrinks, CapacityShrink
<1>3. CASE Environment \/ RequestShutdown \/ UNCHANGED vars
  <2>1. UNCHANGED <<heap, streaming, caller, queueLock, seen>>
    BY <1>3 DEF Environment, Tick, CallerStops, CancelQueued, RequestShutdown, vars, queueVars
  <2>2. Pending' <= Pending
    BY <1>0, <2>1, FS_CardinalityType DEF Pending, TypeOK, QueueTypeOK
  <2> QED
    BY <1>0, <2>1, <2>2, CapacityShrink
<1> QED
  BY <1>1, <1>2, <1>3 DEF Next

\* The two queues never hold more than max_pending requests between them, for any
\* number of concurrent enqueue calls.
THEOREM CapacityCorrect == Spec => []CapacityRespected
<1>1. CapacityInv => CapacityRespected
  BY DEF CapacityInv
<1> QED
  BY <1>1, CapacityInit, CapacityStep, PTL DEF Spec

-----------------------------------------------------------------------------
LEMMA WakeupInit == Init => WakeupInv
BY DEF Init, WakeupInv

LEMMA WakeupStep == TypeOK /\ WakeupInv /\ [Next]_vars => WakeupInv'
<1> SUFFICES ASSUME TypeOK, WakeupInv, [Next]_vars PROVE WakeupInv'
  OBVIOUS
<1> USE DEF WakeupInv, Signalled
<1>1. ASSUME NEW r \in Requests, CallerStep(r), UNCHANGED workerVars
      PROVE  WakeupInv'
  <2>1. CASE Submit(r) \/ LockQueue(r) \/ CountPending(r)
    BY <1>1, <2>1 DEF Submit, LockQueue, CountPending, workerVars, TypeOK, QueueTypeOK
  <2>2. CASE PushUnary(r)
    BY <1>1, <2>2 DEF PushUnary, workerVars, TypeOK, QueueTypeOK
  <2>3. CASE PushStream(r)
    BY <1>1, <2>3 DEF PushStream, workerVars, TypeOK, QueueTypeOK
  <2>4. CASE NotifyWorker(r)
    BY <2>4 DEF NotifyWorker
  <2> QED
    BY <1>1, <2>1, <2>2, <2>3, <2>4 DEF CallerStep
<1>2. CASE WorkerStep
  <2>1. CASE FindNothing
    \* Nothing is live, so everything is popped.
    BY <2>1 DEF FindNothing, PopHeap, Skipped
  <2>2. CASE CheckStreaming
    BY <2>2 DEF CheckStreaming, queueVars
  <2>3. CASE TakeStream \/ Select \/ ExitWhileWaiting \/ Wake
    BY <2>3 DEF TakeStream, Select, ExitWhileWaiting, Wake, queueVars
  <2>4. CASE Ingress \/ Admit \/ RunUnary \/ RunStream \/ Respond
    BY <2>4 DEF Ingress, Admit, RunUnary, RunStream, Respond, Answer, Advance
  <2>5. ASSUME NEW e \in heap, StartUnary(e)
        PROVE  WakeupInv'
    BY <2>5 DEF StartUnary
  <2> QED
    BY <1>2, <2>1, <2>2, <2>3, <2>4, <2>5 DEF WorkerStep
<1>3. CASE Environment
  BY <1>3 DEF Environment, Tick, CallerStops, CancelQueued, workerVars
<1>4. CASE RequestShutdown
  BY <1>4 DEF RequestShutdown
<1>5. CASE UNCHANGED vars
  BY <1>5 DEF vars, queueVars, workerVars
<1> QED
  BY <1>1, <1>2, <1>3, <1>4, <1>5 DEF Next, Callers

\* The worker never sleeps on a non-empty queue with no wake-up on its way.
THEOREM WakeupCorrect == Spec => []NoLostWakeup
<1>1. WakeupInv => NoLostWakeup
  BY DEF WakeupInv, NoLostWakeup, Signalled
<1> QED
  BY <1>1, TypeInit, TypeStep, WakeupInit, WakeupStep, PTL DEF Spec
-----------------------------------------------------------------------------
LEMMA PlaceInit == Init => PlaceInv
<1> SUFFICES ASSUME Init PROVE PlaceInv
  OBVIOUS
<1>1. heap = {} /\ Len(streaming) = 0 /\ current = Nobody
      /\ answers = [r \in Requests |-> <<>>]
  BY DEF Init, QueueInit
<1> QED
  BY <1>1, TypeInit DEF PlaceInv, HeapInv, StreamInv, CurrentInv, AnswerInv

LEMMA QueuedStreams ==
    ASSUME TypeOK
    PROVE  /\ Len(streaming) \in Nat
           /\ \A i \in 1..Len(streaming) : streaming[i] \in Streams /\ streaming[i] \in Requests
BY DEF TypeOK, QueueTypeOK

\* Steps that move no request keep every request in its place.
LEMMA PlaceSame ==
    ASSUME PlaceInv, TypeOK', UNCHANGED <<heap, nextSeq, streaming, current, answers>>,
           \A r \in Requests : caller[r] \in {"pushed", "accepted"}
                                  => caller'[r] \in {"pushed", "accepted"}
    PROVE  PlaceInv'
<1> USE DEF PlaceInv, Waiting, TypeOK, QueueTypeOK
<1>1. HeapInv'
  BY DEF HeapInv, Entry
<1>2. StreamInv'
  BY QueuedStreams DEF StreamInv
<1>3. CurrentInv' /\ AnswerInv'
  BY DEF CurrentInv, AnswerInv
<1> QED
  BY <1>1, <1>2, <1>3

\* enqueue puts in a request that is in no place yet.
LEMMA PlaceCaller ==
    ASSUME PlaceInv, CountInv, TypeOK', NEW r \in Requests, CallerStep(r), UNCHANGED workerVars
    PROVE  PlaceInv'
<1> USE DEF PlaceInv, TypeOK, QueueTypeOK, workerVars
<1>1. CASE Submit(r) \/ LockQueue(r) \/ CountPending(r) \/ NotifyWorker(r)
  BY <1>1, PlaceSame DEF Submit, LockQueue, CountPending, NotifyWorker
<1>2. CASE PushUnary(r)
  <2>1. CASE seen >= MaxPending
    BY <1>2, <2>1, PlaceSame DEF PushUnary
  <2>2. CASE ~(seen >= MaxPending)
    <3> DEFINE e == [req |-> r, prio |-> PriorityOf[r], seq |-> nextSeq]
    <3>1. /\ heap' = heap \cup {e} /\ nextSeq' = nextSeq + 1
          /\ caller' = [caller EXCEPT ![r] = "pushed"] /\ caller[r] = "counted"
          /\ UNCHANGED <<streaming, answers, current>>
      BY <1>2, <2>2 DEF PushUnary
    <3>2. r \in Unary /\ ~Waiting(r) /\ answers[r] = <<>>
      <4>1. r \in Unary
        BY <3>1 DEF CountInv
      <4> QED
        BY <3>1, <4>1 DEF Waiting, AnswerInv
    <3>3. HeapInv'
      <4>1. e.req = r /\ e.prio = PriorityOf[r] /\ e.seq = nextSeq
        OBVIOUS
      <4>2. \A f \in heap : f.req # r /\ f.seq # nextSeq /\ f.seq \in Nat /\ f.req \in Requests
        <5>1. \A f \in heap : f.seq \in Nat /\ f.req \in Requests
          BY DEF Entry
        <5>2. \A f \in heap : Waiting(f.req) /\ f.seq < nextSeq
          BY DEF HeapInv
        <5>3. ASSUME NEW f \in heap, f.req = r
              PROVE  FALSE
          <6>1. Waiting(f.req)
            BY <5>2
          <6> HIDE DEF Waiting
          <6> QED
            BY <3>2, <5>3, <6>1
        <5>4. \A f \in heap : f.seq # nextSeq
          <6>1. nextSeq \in Nat
            OBVIOUS
          <6> QED
            BY <5>1, <5>2, <6>1
        <5> QED
          BY <5>1, <5>3, <5>4, Zenon
      <4>3. r # current
        BY <3>2 DEF CurrentInv
      <4> HIDE DEF e
      <4>4. ASSUME NEW f \in heap'
            PROVE  /\ f.req \in Unary /\ Waiting(f.req)' /\ f.req # current'
                   /\ f.prio = PriorityOf[f.req] /\ f.seq < nextSeq'
        BY <3>1, <3>2, <4>1, <4>2, <4>3 DEF HeapInv, Waiting
      <4>5. \A f, g \in heap' : f.req = g.req \/ f.seq = g.seq => f = g
        BY <3>1, <4>1, <4>2 DEF HeapInv
      <4> QED
        BY <4>4, <4>5 DEF HeapInv
    <3>4. StreamInv'
      BY <3>1, <3>2, SMTT(30) DEF StreamInv, Waiting
    <3>5. CurrentInv' /\ AnswerInv'
      BY <3>1, <3>2 DEF CurrentInv, AnswerInv, Waiting
    <3> QED
      BY <3>3, <3>4, <3>5
  <2> QED
    BY <2>1, <2>2
<1>3. CASE PushStream(r)
  <2>1. CASE Pending >= MaxPending
    BY <1>3, <2>1, PlaceSame DEF PushStream
  <2>2. CASE ~(Pending >= MaxPending)
    <3>1. /\ streaming' = Append(streaming, r) /\ r \in Streams
          /\ caller' = [caller EXCEPT ![r] = "pushed"] /\ caller[r] = "locked"
          /\ UNCHANGED <<heap, nextSeq, answers, current>>
      BY <1>3, <2>2 DEF PushStream
    <3>2. ~Waiting(r) /\ answers[r] = <<>>
      BY <3>1 DEF Waiting, AnswerInv
    <3>3. HeapInv'
      BY <3>1, <3>2 DEF HeapInv, Waiting, Entry
    <3>4. StreamInv'
      <4>1. /\ Len(streaming') = Len(streaming) + 1 /\ streaming'[Len(streaming) + 1] = r
            /\ \A i \in 1..Len(streaming) : streaming'[i] = streaming[i]
        BY <3>1
      <4>2. r # current /\ \A i \in 1..Len(streaming) : streaming[i] # r
        BY <3>2 DEF CurrentInv, StreamInv, Waiting
      <4>3. ASSUME NEW i \in 1..Len(streaming')
            PROVE  Waiting(streaming[i])' /\ (streaming[i] # current)'
        <5>1. CASE i = Len(streaming) + 1
          BY <3>1, <3>2, <4>1, <4>2, <5>1 DEF Waiting
        <5>2. CASE i \in 1..Len(streaming)
          BY <3>1, <4>1, <4>2, <5>2, QueuedStreams DEF StreamInv, Waiting
        <5> QED
          BY <4>1, <4>3, <5>1, <5>2, QueuedStreams
      <4>4. ASSUME NEW i \in 1..Len(streaming'), NEW j \in 1..Len(streaming'),
                   streaming'[i] = streaming'[j]
            PROVE  i = j
        <5>1. \A k \in 1..Len(streaming') : k = Len(streaming) + 1 \/ k \in 1..Len(streaming)
          BY <4>1, QueuedStreams
        <5>2. CASE i \in 1..Len(streaming) /\ j \in 1..Len(streaming)
          BY <4>1, <4>4, <5>2 DEF StreamInv
        <5> QED
          BY <4>1, <4>2, <4>4, <5>1, <5>2
      <4> QED
        BY <4>3, <4>4 DEF StreamInv
    <3>5. CurrentInv' /\ AnswerInv'
      BY <3>1, <3>2 DEF CurrentInv, AnswerInv, Waiting
    <3> QED
      BY <3>3, <3>4, <3>5
  <2> QED
    BY <2>1, <2>2
<1> QED
  BY <1>1, <1>2, <1>3 DEF CallerStep

\* dequeue answers the entries it skips and takes them out; the others wait on.
LEMMA PopEffect ==
    ASSUME PlaceInv, NEW taken \in SUBSET Live, PopHeap(taken)
    PROVE  /\ \A f \in heap' : f \in heap /\ f \notin taken /\ f \notin Skipped(taken)
           /\ \A r \in Requests :
                IF \E f \in Skipped(taken) : f.req = r
                THEN answers[r] = <<>> /\ answers'[r] = <<StopError(r)>>
                ELSE answers'[r] = answers[r]
           /\ \A f \in heap : f \notin Skipped(taken) => answers'[f.req] = answers[f.req]
           /\ \A r \in Streams : answers'[r] = answers[r]
           /\ UNCHANGED <<nextSeq, streaming, caller>>
<1>1. /\ heap' = heap \ (taken \cup Skipped(taken))
      /\ answers' = AnswersAfterReject(Skipped(taken))
      /\ UNCHANGED <<nextSeq, streaming, caller>>
  BY DEF PopHeap
<1>2. Skipped(taken) \subseteq heap
  BY DEF Skipped
<1>3. \A f \in heap : f.req \in Unary /\ answers[f.req] = <<>> /\ f.req \in Requests
  BY DEF PlaceInv, HeapInv, Waiting, Unary
<1>4. ASSUME NEW r \in Requests
      PROVE  IF \E f \in Skipped(taken) : f.req = r
             THEN answers[r] = <<>> /\ answers'[r] = <<StopError(r)>>
             ELSE answers'[r] = answers[r]
  <2>1. CASE \E f \in Skipped(taken) : f.req = r
    <3>1. answers[r] = <<>> /\ answers'[r] = Append(answers[r], StopError(r))
      BY <1>1, <1>2, <1>3, <2>1 DEF AnswersAfterReject
    <3> QED
      BY <2>1, <3>1
  <2>2. CASE ~\E f \in Skipped(taken) : f.req = r
    BY <1>1, <2>2 DEF AnswersAfterReject
  <2> QED
    BY <2>1, <2>2
<1>5. \A f \in heap : f \notin Skipped(taken) => ~\E g \in Skipped(taken) : g.req = f.req
  BY <1>2 DEF PlaceInv, HeapInv
<1>6. \A r \in Streams : r \in Requests /\ ~\E g \in Skipped(taken) : g.req = r
  BY <1>2, <1>3 DEF Unary
<1> QED
  BY <1>1, <1>3, <1>4, <1>5, <1>6

\* dequeue leaves every request in its place, for what becomes of the worker's own
\* request: none, or the entry taken.
LEMMA PlacePop ==
    ASSUME PlaceInv, TypeOK', NEW taken \in SUBSET Live, PopHeap(taken), current = Nobody,
           current' = Nobody \/ \E e \in taken : current' = e.req
    PROVE  PlaceInv'
<1> USE DEF PlaceInv
<1>0. taken \subseteq heap /\ \A e \in heap : e \in Live => e \notin Skipped(taken)
  BY DEF Live, Skipped
<1>1. HeapInv'
  <2>1. \A f \in heap' : f.req # current'
    BY <1>0, PopEffect DEF HeapInv, Unary
  <2> QED
    BY <2>1, PopEffect DEF HeapInv, Waiting
<1>2. StreamInv'
  <2>1. \A i \in 1..Len(streaming) : streaming[i] # current'
    BY <1>0, QueuedStreams DEF HeapInv, Unary
  <2> QED
    BY <2>1, PopEffect, QueuedStreams DEF StreamInv, Waiting
<1>3. CurrentInv'
  <2>1. ASSUME NEW e \in taken, current' = e.req
        PROVE  Waiting(current)'
    <3>1. e \in heap /\ e \notin Skipped(taken)
      BY <1>0
    <3>2. answers'[e.req] = answers[e.req] /\ caller' = caller
      BY <3>1, PopEffect
    <3> QED
      BY <2>1, <3>1, <3>2 DEF HeapInv, Waiting
  <2> QED
    BY <2>1 DEF CurrentInv
<1>4. AnswerInv'
  <2> SUFFICES ASSUME NEW r \in Requests, answers'[r] # <<>>
               PROVE  Len(answers'[r]) = 1 /\ caller'[r] \in {"pushed", "accepted"}
    BY DEF AnswerInv
  <2>1. CASE \E f \in Skipped(taken) : f.req = r
    <3>1. caller[r] \in {"pushed", "accepted"}
      BY <2>1 DEF Skipped, HeapInv, Waiting
    <3> QED
      <4>1. answers'[r] = <<StopError(r)>> /\ caller' = caller
        BY <2>1, PopEffect
      <4> QED
        BY <3>1, <4>1
  <2>2. CASE ~\E f \in Skipped(taken) : f.req = r
    BY <2>2, PopEffect DEF AnswerInv
  <2> QED
    BY <2>1, <2>2
<1> QED
  BY <1>1, <1>2, <1>3, <1>4

\* The worker answers the request it has, which is in no other place.
LEMMA PlaceAnswer ==
    ASSUME PlaceInv, TypeOK', current # Nobody, NEW o, Answer(o)
    PROVE  PlaceInv'
<1> USE DEF PlaceInv, TypeOK, QueueTypeOK
<1>1. /\ current \in Requests /\ answers[current] = <<>> /\ current' = Nobody
      /\ caller[current] \in {"pushed", "accepted"}
      /\ answers' = [answers EXCEPT ![current] = <<o>>]
      /\ UNCHANGED <<heap, nextSeq, streaming, caller>>
  BY DEF CurrentInv, Waiting, Answer
<1>2. HeapInv'
  BY <1>1 DEF HeapInv, Waiting, Unary
<1>3. StreamInv'
  BY <1>1, QueuedStreams, SMTT(30) DEF StreamInv, Waiting
<1>4. CurrentInv'
  BY <1>1 DEF CurrentInv
<1>5. AnswerInv'
  BY <1>1 DEF AnswerInv
<1> QED
  BY <1>2, <1>3, <1>4, <1>5

LEMMA PlaceWorker ==
    ASSUME PlaceInv, TypeOK', WorkerStep
    PROVE  PlaceInv'
<1>0. TypeOK
  BY DEF PlaceInv
<1>1. CASE TakeStream
  <2>1. CASE streaming = <<>>
    BY <1>1, <2>1, PlaceSame DEF TakeStream
  <2>2. CASE streaming # <<>>
    <3>1. /\ current = Nobody /\ current' = streaming[1] /\ Len(streaming) >= 1
          /\ Len(streaming') = Len(streaming) - 1
          /\ \A i \in 1..Len(streaming') : streaming'[i] = streaming[i + 1] /\ i + 1 \in 1..Len(streaming)
          /\ 1 \in 1..Len(streaming)
          /\ UNCHANGED <<heap, nextSeq, caller, answers>>
      <4>1. /\ streaming' = Tail(streaming) /\ current' = Head(streaming) /\ stage = "top"
            /\ UNCHANGED <<heap, nextSeq, caller, answers>>
        BY <1>1, <2>2 DEF TakeStream
      <4>2. streaming \in Seq(Streams) /\ current = Nobody
        BY <1>0, <4>1 DEF TypeOK, QueueTypeOK
      <4>3. /\ Len(streaming) \in Nat /\ Len(streaming) >= 1 /\ Head(streaming) = streaming[1]
            /\ Len(Tail(streaming)) = Len(streaming) - 1
            /\ \A i \in 1..Len(Tail(streaming)) : Tail(streaming)[i] = streaming[i + 1]
        BY <2>2, <4>2
      <4> QED
        BY <4>1, <4>2, <4>3
    <3>2. HeapInv'
      <4>1. \A e \in heap : e.req # current'
        BY <1>0, <3>1, QueuedStreams DEF PlaceInv, HeapInv, Unary
      <4> QED
        BY <3>1, <4>1 DEF PlaceInv, HeapInv, Waiting
    <3>3. StreamInv'
      <4>1. \A i \in 1..Len(streaming') : streaming[i + 1] # streaming[1]
        BY <1>0, <3>1, QueuedStreams DEF PlaceInv, StreamInv
      <4>2. \A i \in 1..Len(streaming') : Waiting(streaming[i])' /\ (streaming[i] # current)'
        BY <3>1, <4>1 DEF PlaceInv, StreamInv, Waiting
      <4>3. ASSUME NEW i \in 1..Len(streaming'), NEW j \in 1..Len(streaming'),
                   streaming'[i] = streaming'[j]
            PROVE  i = j
        <5>1. i + 1 = j + 1
          BY <3>1, <4>3 DEF PlaceInv, StreamInv
        <5> QED
          BY <1>0, <3>1, <5>1, QueuedStreams
      <4> QED
        BY <4>2, <4>3 DEF StreamInv
    <3>4. CurrentInv' /\ AnswerInv'
      BY <3>1 DEF PlaceInv, StreamInv, CurrentInv, AnswerInv, Waiting
    <3> QED
      BY <3>2, <3>3, <3>4 DEF PlaceInv
  <2> QED
    BY <2>1, <2>2
<1>2. CASE Select \/ ExitWhileWaiting \/ CheckStreaming \/ Wake \/ RunUnary \/ RunStream
  BY <1>2, PlaceSame DEF Select, ExitWhileWaiting, CheckStreaming, Wake, RunUnary, RunStream,
                         Advance, queueVars
<1>3. CASE FindNothing
  <2>1. current = Nobody /\ current' = Nobody /\ PopHeap({})
    BY <1>0, <1>3 DEF FindNothing, TypeOK
  <2> QED
    BY <2>1, PlacePop
<1>4. ASSUME NEW e \in heap, StartUnary(e)
      PROVE  PlaceInv'
  <2>1. current = Nobody /\ current' = e.req /\ PopHeap({e}) /\ {e} \in SUBSET Live
    BY <1>0, <1>4 DEF StartUnary, TypeOK, IsNext
  <2>2. \E f \in {e} : current' = f.req
    BY <2>1
  <2> QED
    BY <2>1, <2>2, PlacePop
<1>5. ASSUME NEW o, Answer(o), stage \in {"ingress", "admit", "run", "respond"}
      PROVE  PlaceInv'
  BY <1>0, <1>5, PlaceAnswer DEF TypeOK
<1>6. ASSUME NEW t, Advance(t)
      PROVE  PlaceInv'
  BY <1>6, PlaceSame DEF Advance, queueVars
<1>7. CASE Ingress \/ Admit \/ Respond
  BY <1>5, <1>6, <1>7 DEF Ingress, Admit, Respond
<1> QED
  BY <1>1, <1>2, <1>3, <1>4, <1>7 DEF WorkerStep

LEMMA PlaceStep == CapacityInv /\ PlaceInv /\ [Next]_vars => PlaceInv'
<1> SUFFICES ASSUME CapacityInv, PlaceInv, [Next]_vars PROVE PlaceInv'
  OBVIOUS
<1>0. TypeOK'
  BY TypeStep DEF PlaceInv
<1>1. CASE Callers
  BY <1>0, <1>1, PlaceCaller DEF Callers, CapacityInv
<1>2. CASE WorkerStep
  BY <1>0, <1>2, PlaceWorker
<1>3. CASE Environment \/ RequestShutdown \/ UNCHANGED vars
  BY <1>0, <1>3, PlaceSame DEF Environment, Tick, CallerStops, CancelQueued, RequestShutdown,
                               vars, queueVars, workerVars
<1> QED
  BY <1>1, <1>2, <1>3 DEF Next

-----------------------------------------------------------------------------
LEMMA BypassInit == Init => BypassInv
BY DEF Init, QueueInit, BypassInv

\* A step that passes no stream and brings the worker no nearer to the main queue.
LEMMA BypassSame ==
    ASSUME TypeOK, BypassInv, UNCHANGED <<bypass, streaming, caller>>,
           stage' \in {"select", "dequeue", "streamLen", "wait"}
              => streaming = <<>> \/ stage \in {"select", "dequeue", "streamLen", "wait"}
    PROVE  BypassInv'
BY QueuedStreams DEF BypassInv

LEMMA BypassStep == PlaceInv /\ BypassInv /\ [Next]_vars => BypassInv'
<1> SUFFICES ASSUME PlaceInv, BypassInv, [Next]_vars PROVE BypassInv'
  OBVIOUS
<1>0. TypeOK
  BY DEF PlaceInv
<1>1. ASSUME NEW r \in Requests, CallerStep(r), UNCHANGED workerVars
      PROVE  BypassInv'
  <2>1. /\ UNCHANGED <<bypass, stage>>
        /\ \A q \in Requests : caller'[q] \notin {"pushed", "accepted"}
                                  => caller[q] \notin {"pushed", "accepted"}
    BY <1>0, <1>1 DEF CallerStep, Submit, LockQueue, CountPending, PushUnary, PushStream,
                      NotifyWorker, workerVars, TypeOK, QueueTypeOK
  <2>2. streaming' = streaming \/ (streaming' = Append(streaming, r) /\ r \in Streams /\ bypass[r] = 0)
    BY <1>0, <1>1 DEF CallerStep, Submit, LockQueue, CountPending, PushUnary, PushStream,
                      NotifyWorker, BypassInv
  <2>3. CASE streaming' = streaming
    BY <2>1, <2>3 DEF BypassInv
  <2>4. CASE streaming' = Append(streaming, r) /\ r \in Streams /\ bypass[r] = 0
    <3>1. \A i \in 1..Len(streaming') : streaming'[i] = r \/
             (i \in 1..Len(streaming) /\ streaming'[i] = streaming[i])
      <4>1. streaming \in Seq(Streams)
        BY <1>0 DEF TypeOK, QueueTypeOK
      <4>2. /\ Len(streaming) \in Nat /\ Len(streaming') = Len(streaming) + 1
            /\ streaming'[Len(streaming) + 1] = r
            /\ \A i \in 1..Len(streaming) : streaming'[i] = streaming[i]
        BY <2>4, <4>1
      <4>3. \A i \in 1..Len(streaming') : i = Len(streaming) + 1 \/ i \in 1..Len(streaming)
        BY <4>2
      <4> QED
        BY <4>2, <4>3
    <3> QED
      BY <2>1, <2>4, <3>1 DEF BypassInv
  <2> QED
    BY <2>2, <2>3, <2>4
<1>2. CASE TakeStream
  <2>1. CASE streaming = <<>>
    BY <1>0, <1>2, <2>1, BypassSame DEF TakeStream
  <2>2. CASE streaming # <<>>
    BY <1>2, <2>2 DEF TakeStream, BypassInv
  <2> QED
    BY <2>1, <2>2
<1>3. ASSUME NEW e \in heap, StartUnary(e)
      PROVE  BypassInv'
  <2> DEFINE queued(r) == \E i \in 1..Len(streaming) : streaming[i] = r
  <2>1. /\ stage = "dequeue" /\ stage' = "ingress" /\ caller' = caller
        /\ bypass' = [r \in Requests |-> bypass[r] + (IF queued(r) THEN 1 ELSE 0)]
    BY <1>3 DEF StartUnary, PopHeap
  <2>2. \A r \in Requests : queued(r) => bypass[r] = 0 /\ caller[r] \in {"pushed", "accepted"}
    BY <2>1 DEF BypassInv, PlaceInv, StreamInv, Waiting
  <2>3. \A r \in Requests : bypass[r] \in Nat
    BY <1>0 DEF TypeOK
  <2> HIDE DEF queued
  <2>4. \A r \in Requests : bypass'[r] = IF queued(r) THEN 1 ELSE bypass[r]
    BY <2>1, <2>2, <2>3
  <2> QED
    BY <2>1, <2>2, <2>4 DEF BypassInv
<1>4. CASE FindNothing
  BY <1>0, <1>4, BypassSame DEF FindNothing, PopHeap
<1>5. CASE WorkerStep /\ ~TakeStream /\ ~FindNothing /\ ~\E e \in heap : StartUnary(e)
  BY <1>0, <1>5, BypassSame
     DEF WorkerStep, Select, ExitWhileWaiting, CheckStreaming, Wake, Ingress, Admit, RunUnary,
         RunStream, Respond, Answer, Advance, queueVars
<1>6. CASE Environment \/ RequestShutdown \/ UNCHANGED vars
  BY <1>0, <1>6, BypassSame DEF Environment, Tick, CallerStops, CancelQueued, RequestShutdown,
                                vars, queueVars, workerVars
<1> QED
  BY <1>1, <1>2, <1>3, <1>4, <1>5, <1>6 DEF Next, Callers

\* All that the remaining theorems need of a reachable state.
SchedulerInv == CapacityInv /\ PlaceInv /\ BypassInv

LEMMA SchedulerInvariant == Spec => []SchedulerInv
<1>1. Init => SchedulerInv
  BY CapacityInit, PlaceInit, BypassInit DEF SchedulerInv
<1>2. SchedulerInv /\ [Next]_vars => SchedulerInv'
  BY CapacityStep, PlaceStep, BypassStep DEF SchedulerInv
<1> QED
  BY <1>1, <1>2, PTL DEF Spec

\* However requests are cancelled, expire and are skipped, each is answered at most
\* once, and a waiting stream is passed by at most one unary request, for any
\* number of requests.
THEOREM TurnCorrect == Spec => []ServedInTurn
<1>1. SchedulerInv => ServedInTurn
  <2> SUFFICES ASSUME SchedulerInv PROVE ServedInTurn
    OBVIOUS
  <2>1. ASSUME NEW r \in Requests, answers[r] # <<>>
        PROVE  /\ Len(answers[r]) = 1 /\ caller[r] \in {"pushed", "accepted"}
               /\ r # current
               /\ \A e \in heap : e.req # r
               /\ \A i \in 1..Len(streaming) : streaming[i] # r
    BY <2>1, QueueAssumption
       DEF SchedulerInv, PlaceInv, HeapInv, StreamInv, CurrentInv, AnswerInv, Waiting
  <2>2. ASSUME NEW r \in Requests
        PROVE  Len(answers[r]) <= 1
    <3>1. CASE answers[r] = <<>>
      BY <3>1
    <3>2. CASE answers[r] # <<>>
      <4>1. Len(answers[r]) = 1
        BY <3>2 DEF SchedulerInv, PlaceInv, AnswerInv
      <4> QED
        BY <4>1
    <3> QED
      BY <3>1, <3>2
  <2>3. AnsweredAtMostOnce
    BY <2>1, <2>2 DEF AnsweredAtMostOnce
  <2>4. StreamBypassedOnce
    BY DEF SchedulerInv, BypassInv, StreamBypassedOnce
  <2> QED
    BY <2>3, <2>4 DEF ServedInTurn
<1> QED
  BY <1>1, SchedulerInvariant, PTL

\* The worker takes the live request of highest priority, the earliest of that
\* priority: nobody is overtaken, for any number of requests and priorities.
THEOREM OrderCorrect == Spec => NoOvertaking
<1>1. ASSUME SchedulerInv, [Next]_vars, NEW r \in Unary, current # r, current' = r,
             NEW e \in heap, NEW f \in heap, e.req = r, f # e, f \in Live
      PROVE  \/ PriorityOf[e.req] > PriorityOf[f.req]
             \/ PriorityOf[e.req] = PriorityOf[f.req] /\ e.seq < f.seq
  <2>1. r \in Requests /\ r \notin Streams /\ r # Nobody
    BY <1>1, QueueAssumption DEF Unary
  <2>2. ~TakeStream
    BY <1>1, <2>1, QueuedStreams DEF TakeStream, SchedulerInv, PlaceInv, TypeOK, QueueTypeOK
  <2>3. PICK g \in heap : StartUnary(g)
    BY <1>1, <2>1, <2>2
       DEF Next, WorkerStep, Callers, Environment, RequestShutdown, Select, ExitWhileWaiting,
           FindNothing, CheckStreaming, Wake, Ingress, Admit, RunUnary, RunStream, Respond,
           Answer, Advance, workerVars, vars
  <2>4. g.req = r /\ IsNext(g)
    BY <1>1, <2>3 DEF StartUnary
  <2>5. g = e
    BY <1>1, <2>4 DEF SchedulerInv, PlaceInv, HeapInv
  <2>6. Before(e, f)
    BY <1>1, <2>4, <2>5 DEF IsNext
  <2> QED
    <3>1. e.prio = PriorityOf[e.req] /\ f.prio = PriorityOf[f.req]
      BY <1>1 DEF SchedulerInv, PlaceInv, HeapInv
    <3> QED
      BY <2>6, <3>1 DEF Before
<1>2. SchedulerInv /\ [Next]_vars =>
        [\A r \in Unary :
           (current # r /\ current' = r) =>
              \A e, f \in heap :
                 (e.req = r /\ f # e /\ f \in Live) =>
                    \/ PriorityOf[e.req] > PriorityOf[f.req]
                    \/ PriorityOf[e.req] = PriorityOf[f.req] /\ e.seq < f.seq]_vars
  BY <1>1
<1> QED
  BY <1>2, SchedulerInvariant, PTL DEF Spec, NoOvertaking

-----------------------------------------------------------------------------
LEMMA SignalInit == Init => SignalInv
BY DEF Init, QueueInit, SignalInv

LEMMA SignalStep == SchedulerInv /\ SignalInv /\ [Next]_vars => SignalInv'
<1> SUFFICES ASSUME SchedulerInv, SignalInv, [Next]_vars PROVE SignalInv'
  OBVIOUS
<1> USE DEF SignalInv
<1>0. TypeOK /\ PlaceInv /\ CountInv
  BY DEF SchedulerInv, PlaceInv, CapacityInv
<1>1. ASSUME NEW r \in Requests, CallerStep(r), UNCHANGED workerVars
      PROVE  SignalInv'
  <2>1. CASE Submit(r)
    BY <1>0, <1>1, <2>1 DEF Submit, StartDeadline, workerVars, TypeOK, QueueTypeOK, Unary
  <2>2. CASE LockQueue(r) \/ CountPending(r) \/ NotifyWorker(r)
    BY <1>0, <1>1, <2>2 DEF LockQueue, CountPending, NotifyWorker, workerVars, TypeOK, QueueTypeOK
  <2>3. CASE PushUnary(r)
    BY <1>0, <1>1, <2>3 DEF PushUnary, StartDeadline, workerVars, TypeOK, QueueTypeOK
  <2>4. CASE PushStream(r)
    BY <1>0, <1>1, <2>4 DEF PushStream, workerVars, TypeOK, QueueTypeOK, Unary
  <2> QED
    BY <1>1, <2>1, <2>2, <2>3, <2>4 DEF CallerStep
<1>2. CASE WorkerStep
  <2>1. UNCHANGED <<caller, clock, flag>>
    BY <1>2 DEF WorkerStep, TakeStream, Select, ExitWhileWaiting, FindNothing, StartUnary,
                PopHeap, CheckStreaming, Wake, Ingress, Admit, RunUnary, RunStream, Respond,
                Answer, Advance, queueVars
  <2>2. stage' = "respond" => (RunUnary \/ RunStream)
    BY <1>2 DEF WorkerStep, TakeStream, Select, ExitWhileWaiting, FindNothing, StartUnary,
                CheckStreaming, Wake, Ingress, Admit, Respond, Answer, Advance
  <2>3. RunUnary \/ RunStream => current' = current /\ (result' = "cancelled" => flag[current])
    BY DEF RunUnary, RunStream, Advance, StopError, ShouldStop
  <2> QED
    BY <2>1, <2>2, <2>3
<1>3. CASE Environment
  <2>1. /\ UNCHANGED <<caller, stage, result, current>>
        /\ current \in Requests /\ flag[current] => flag'[current]
    BY <1>0, <1>3 DEF Environment, Tick, CallerStops, CancelQueued, workerVars, TypeOK, QueueTypeOK
  <2>2. \A r \in Requests : clock[r] = "none" => clock'[r] = "none"
    BY <1>0, <1>3 DEF Environment, Tick, CallerStops, CancelQueued, TypeOK, QueueTypeOK
  <2> QED
    BY <1>0, <2>1, <2>2 DEF TypeOK
<1>4. CASE RequestShutdown \/ UNCHANGED vars
  BY <1>4 DEF RequestShutdown, vars, queueVars, workerVars
<1> QED
  BY <1>1, <1>2, <1>3, <1>4 DEF Next, Callers

\* What RequestService allows one request to do, in terms of the mapping.
Keeps(r) == Status(r)' = Status(r) /\ Signal(r)' = Signal(r)
Raises(r) ==
    /\ Status(r) \in {"idle", "pending", "won"} /\ Status(r)' = Status(r)
    /\ Signal(r) \subseteq Signal(r)'
Moves(r) ==
    /\ Signal(r)' = Signal(r)
    /\ \/ Status(r) = "idle" /\ Status(r)' \in {"turnedAway", "pending"}
       \/ Status(r) = "pending" /\ Signal(r) = {} /\ Status(r)' = "won"
       \/ Status(r) = "won" /\ Status(r)' = "ok"
       \/ /\ Status(r) = "pending" /\ Status(r)' \in {"cancelled", "timeout", "refused", "failed"}
          /\ Status(r)' = "cancelled" => "cancel" \in Signal(r)
Simulated(r) == Keeps(r) \/ Raises(r) \/ Moves(r)

\* A request nothing happens to keeps its status and its signals.
LEMMA Untouched ==
    ASSUME NEW r \in Requests,
           answers'[r] = answers[r], flag'[r] = flag[r],
           DeadlineReached(r)' = DeadlineReached(r), Won(r)' = Won(r),
           caller'[r] = caller[r]
    PROVE  Keeps(r)
BY DEF Keeps, Status, Signal

\* Nobody has won before the engine has made its last check.
LEMMA WonOnlyAtEnd ==
    ASSUME NEW r \in Requests
    PROVE  /\ (stage # "respond" \/ current # r) => Won(r) = FALSE
           /\ (stage' # "respond" \/ current' # r) => Won(r)' = FALSE
BY DEF Won

\* The steps of an enqueue call turn its request away, accept it, or keep it.
LEMMA CallerSimulates ==
    ASSUME SchedulerInv, SignalInv, NEW q \in Requests, CallerStep(q), UNCHANGED workerVars,
           NEW r \in Requests
    PROVE  Simulated(r)
<1>0. TypeOK /\ Won(r)' = Won(r) /\ answers' = answers /\ flag' = flag
  BY DEF SchedulerInv, PlaceInv, Won, CallerStep, Submit, LockQueue, CountPending, PushUnary,
         PushStream, NotifyWorker, workerVars
<1>1. CASE q # r
  <2>1. caller'[r] = caller[r] /\ clock'[r] = clock[r]
    BY <1>0, <1>1 DEF CallerStep, Submit, LockQueue, CountPending, PushUnary, PushStream,
                      NotifyWorker, StartDeadline, TypeOK, QueueTypeOK
  <2> QED
    BY <1>0, <2>1, Untouched DEF Simulated, DeadlineReached
<1>2. CASE q = r /\ NotifyWorker(q)
  <2>1. caller[r] = "pushed" /\ caller'[r] = "accepted" /\ clock' = clock
    BY <1>0, <1>2 DEF NotifyWorker, TypeOK, QueueTypeOK
  <2> QED
    BY <1>0, <2>1 DEF Simulated, Keeps, Status, Signal, DeadlineReached
<1>3. CASE q = r /\ ~NotifyWorker(q)
  <2>1. caller[r] \in {"new", "checked", "locked", "counted"}
    BY <1>3 DEF CallerStep, Submit, LockQueue, CountPending, PushUnary, PushStream
  <2>2. answers[r] = <<>> /\ ~Won(r)
    BY <2>1, QueueAssumption DEF SchedulerInv, PlaceInv, AnswerInv, CurrentInv, Waiting, Won
  <2>3. Status(r) = "idle"
    BY <2>1, <2>2 DEF Status, Refused
  <2>4. Status(r)' \in {"idle", "turnedAway", "pending"}
    BY <1>0, <2>2 DEF Status
  <2>5. DeadlineReached(r)' = DeadlineReached(r)
    <3>1. CASE clock'[r] = clock[r]
      BY <3>1 DEF DeadlineReached
    <3>2. CASE clock'[r] # clock[r]
      <4>1. Submit(r) \/ PushUnary(r)
        BY <1>3, <3>2 DEF CallerStep, LockQueue, CountPending, PushStream
      <4>2. clock[r] = "none"
        BY <4>1, <2>1 DEF SignalInv, Submit, PushUnary, SchedulerInv, CapacityInv, CountInv
      <4>3. clock'[r] \in {"before", "none"}
        BY <1>0, <3>2, <4>1 DEF Submit, PushUnary, StartDeadline, TypeOK, QueueTypeOK
      <4> QED
        BY <4>2, <4>3 DEF DeadlineReached
    <3> QED
      BY <3>1, <3>2
  <2>6. Signal(r)' = Signal(r)
    BY <1>0, <2>5 DEF Signal
  <2> QED
    BY <2>3, <2>4, <2>6 DEF Simulated, Keeps, Moves
<1> QED
  BY <1>1, <1>2, <1>3

\* Time and the caller only raise signals, and never of a request that is over.
LEMMA EnvironmentSimulates ==
    ASSUME SchedulerInv, Environment, NEW r \in Requests
    PROVE  Simulated(r)
<1>0. TypeOK /\ Won(r)' = Won(r) /\ answers' = answers /\ caller' = caller
  BY DEF SchedulerInv, PlaceInv, Won, Environment, Tick, CallerStops, CancelQueued, workerVars
<1>1. PICK q \in Requests : Tick(q) \/ CallerStops(q) \/ CancelQueued(q)
  BY DEF Environment
<1>2. CASE q # r
  <2>1. clock'[r] = clock[r] /\ flag'[r] = flag[r]
    BY <1>0, <1>1, <1>2 DEF Tick, CallerStops, CancelQueued, TypeOK, QueueTypeOK
  <2> QED
    BY <1>0, <2>1, Untouched DEF Simulated, DeadlineReached
<1>3. CASE q = r
  <2>1. answers[r] = <<>> /\ caller[r] \notin Refused
    <3>1. CASE Tick(r)
      BY <3>1 DEF Tick
    <3>2. CASE CallerStops(r)
      BY <3>2 DEF CallerStops, Refused
    <3>3. CASE CancelQueued(r)
      BY <3>3 DEF CancelQueued, SchedulerInv, PlaceInv, HeapInv, Waiting, Refused
    <3> QED
      BY <1>1, <1>3, <3>1, <3>2, <3>3
  <2>2. flag[r] => flag'[r]
    BY <1>0, <1>1, <1>3 DEF Tick, CallerStops, CancelQueued, TypeOK, QueueTypeOK
  <2>3. DeadlineReached(r) => DeadlineReached(r)'
    BY <1>0, <1>1, <1>3 DEF Tick, CallerStops, CancelQueued, DeadlineReached, TypeOK, QueueTypeOK
  <2>4. Signal(r) \subseteq Signal(r)'
    BY <2>2, <2>3 DEF Signal
  <2>5. Status(r) \in {"idle", "pending", "won"} /\ Status(r)' = Status(r)
    BY <1>0, <2>1 DEF Status
  <2> QED
    BY <2>4, <2>5 DEF Simulated, Raises
<1> QED
  BY <1>2, <1>3

\* dequeue fails the requests it skips, for the reason the caller gave or time.
LEMMA PopSimulates ==
    ASSUME SchedulerInv, NEW taken \in SUBSET Live, PopHeap(taken), stage # "respond",
           stage' # "respond", NEW r \in Requests
    PROVE  Simulated(r)
<1>0. /\ PlaceInv /\ ~Won(r) /\ ~Won(r)' /\ Won(r)' = Won(r)
      /\ UNCHANGED <<caller, flag, clock>> /\ DeadlineReached(r)' = DeadlineReached(r)
  BY DEF SchedulerInv, Won, PopHeap, DeadlineReached
<1>1. CASE \E f \in Skipped(taken) : f.req = r
  <2>1. answers[r] = <<>> /\ answers'[r] = <<StopError(r)>>
    BY <1>0, <1>1, PopEffect
  <2>2. Stale(r) /\ caller[r] \in {"pushed", "accepted"}
    BY <1>0, <1>1 DEF Skipped, Live, PlaceInv, HeapInv, Waiting
  <2>3. Status(r) = "pending"
    BY <1>0, <2>1, <2>2 DEF Status
  <2>4. Status(r)' = StopError(r)
    BY <2>1 DEF Status
  <2>5. Signal(r)' = Signal(r)
    BY <1>0 DEF Signal
  <2>6. StopError(r) \in {"cancelled", "timeout"} /\ (StopError(r) = "cancelled" => "cancel" \in Signal(r))
    BY <2>2 DEF StopError, Stale, QueueExpired, DeadlineReached, Signal
  <2> QED
    BY <2>3, <2>4, <2>5, <2>6 DEF Simulated, Moves
<1>2. CASE ~\E f \in Skipped(taken) : f.req = r
  <2>1. answers'[r] = answers[r]
    BY <1>0, <1>2, PopEffect
  <2> QED
    BY <1>0, <2>1, Untouched DEF Simulated
<1> QED
  BY <1>1, <1>2

\* The worker answers its request: with the success it has won, or with a failure.
LEMMA AnswerSimulates ==
    ASSUME SchedulerInv, current # Nobody, NEW o \in Outcome, Answer(o),
           o = "ok" => Won(current),
           Won(current) => o = "ok",
           o = "cancelled" => flag[current],
           NEW r \in Requests
    PROVE  Simulated(r)
<1>0. /\ TypeOK /\ UNCHANGED <<caller, flag, clock>> /\ current' = Nobody /\ ~Won(r)'
      /\ Signal(r)' = Signal(r) /\ DeadlineReached(r)' = DeadlineReached(r)
      /\ answers' = [answers EXCEPT ![current] = Append(@, o)]
  BY QueueAssumption DEF SchedulerInv, PlaceInv, Won, Answer, Signal, DeadlineReached
<1>1. CASE r # current
  <2>1. answers'[r] = answers[r] /\ Won(r)' = Won(r)
    BY <1>0, <1>1 DEF TypeOK, QueueTypeOK, Won
  <2> QED
    BY <1>0, <1>1, <2>1, Untouched DEF Simulated
<1>2. CASE r = current
  <2>1. answers[r] = <<>> /\ caller[r] \in {"pushed", "accepted"}
    BY <1>2 DEF SchedulerInv, PlaceInv, CurrentInv, Waiting
  <2>2. answers'[r] = <<o>>
    BY <1>0, <1>2, <2>1 DEF TypeOK, QueueTypeOK
  <2>3. Status(r) = IF Won(r) THEN "won" ELSE "pending"
    BY <2>1 DEF Status
  <2>4. Status(r)' = o
    BY <2>2 DEF Status
  <2>5. o = "cancelled" => "cancel" \in Signal(r)
    BY <1>2 DEF Signal
  <2> QED
    BY <1>0, <1>2, <2>3, <2>4, <2>5 DEF Simulated, Moves, Outcome
<1> QED
  BY <1>1, <1>2

LEMMA WorkerSimulates ==
    ASSUME SchedulerInv, SignalInv, WorkerStep, NEW r \in Requests
    PROVE  Simulated(r)
<1>0. TypeOK /\ PlaceInv
  BY DEF SchedulerInv, PlaceInv
<1>1. CASE FindNothing
  BY <1>1, PopSimulates DEF FindNothing
<1>2. ASSUME NEW e \in heap, StartUnary(e)
      PROVE  Simulated(r)
  <2>1. {e} \in SUBSET Live /\ PopHeap({e}) /\ stage = "dequeue" /\ stage' = "ingress"
    BY <1>2 DEF StartUnary, IsNext
  <2> QED
    BY <2>1, PopSimulates
<1>3. ASSUME NEW o \in {"cancelled", "timeout", "refused"}, Answer(o), stage \in {"ingress", "admit"},
             o = "cancelled" => flag[current]
      PROVE  Simulated(r)
  <2>1. current # Nobody /\ ~Won(current) /\ o \in Outcome /\ o # "ok"
    BY <1>0, <1>3 DEF TypeOK, Won, Outcome
  <2> QED
    BY <1>3, <2>1, AnswerSimulates
<1>4. ASSUME UNCHANGED <<answers, caller, flag, clock>>, stage # "respond", stage' # "respond"
      PROVE  Simulated(r)
  <2>1. Won(r)' = Won(r) /\ DeadlineReached(r)' = DeadlineReached(r)
    BY <1>4, WonOnlyAtEnd DEF DeadlineReached
  <2> QED
    BY <1>4, <2>1, Untouched DEF Simulated
<1>5. CASE TakeStream \/ Select \/ ExitWhileWaiting \/ CheckStreaming \/ Wake
  BY <1>4, <1>5 DEF TakeStream, Select, ExitWhileWaiting, CheckStreaming, Wake, queueVars
<1>6. CASE Ingress
  BY <1>3, <1>4, <1>6 DEF Ingress, Advance, queueVars
<1>7. CASE Admit
  <2>1. CASE current \in Unary /\ ShouldStop(current) /\ Answer(StopError(current))
    <3>1. /\ StopError(current) \in {"cancelled", "timeout", "refused"}
          /\ StopError(current) = "cancelled" => flag[current]
      BY <2>1 DEF StopError, ShouldStop
    <3> QED
      BY <1>3, <1>7, <2>1, <3>1 DEF Admit
  <2>2. CASE Answer(IF flag[current] THEN "cancelled" ELSE "timeout")
    BY <1>3, <1>7, <2>2 DEF Admit
  <2>3. CASE Answer("refused") \/ Advance("run")
    BY <1>3, <1>4, <1>7, <2>3 DEF Admit, Advance, queueVars
  <2> QED
    BY <1>7, <2>1, <2>2, <2>3 DEF Admit
<1>8. CASE RunUnary \/ RunStream
  <2>1. /\ UNCHANGED <<answers, caller, flag, clock, current>>
        /\ stage = "run" /\ stage' = "respond" /\ DeadlineReached(r)' = DeadlineReached(r)
        /\ result' = "ok" => ~ShouldStop(current)
    BY <1>8 DEF RunUnary, RunStream, Advance, queueVars, DeadlineReached, StopError
  <2>2. CASE r = current /\ result' = "ok"
    <3>1. Waiting(r) /\ ~Won(r) /\ Won(r)'
      BY <1>0, <2>1, <2>2, QueueAssumption DEF PlaceInv, CurrentInv, Won
    <3>2. Status(r) = "pending" /\ Status(r)' = "won"
      BY <2>1, <3>1 DEF Status, Waiting
    <3>3. Signal(r) = {} /\ Signal(r)' = Signal(r)
      BY <2>1, <2>2 DEF Signal, ShouldStop
    <3> QED
      BY <3>2, <3>3 DEF Simulated, Moves
  <2>3. CASE r # current \/ result' # "ok"
    <3>1. Won(r)' = Won(r)
      BY <2>1, <2>3 DEF Won
    <3> QED
      BY <2>1, <3>1, Untouched DEF Simulated
  <2> QED
    BY <2>2, <2>3
<1>9. CASE Respond
  <2>1. /\ current # Nobody /\ result \in Outcome /\ Answer(result)
        /\ Won(current) <=> result = "ok"
        /\ result = "cancelled" => flag[current]
    BY <1>0, <1>9 DEF Respond, TypeOK, Won, SignalInv
  <2> QED
    BY <2>1, AnswerSimulates
<1> QED
  BY <1>1, <1>2, <1>5, <1>6, <1>7, <1>8, <1>9 DEF WorkerStep

LEMMA StepSimulates ==
    ASSUME SchedulerInv, SignalInv, [Next]_vars
    PROVE  Service!Next
<1>1. ASSUME NEW r \in Requests
      PROVE  Simulated(r)
  <2>1. CASE RequestShutdown \/ UNCHANGED vars
    <3>1. UNCHANGED <<answers, flag, clock, caller, current, stage, result>>
      BY <2>1 DEF RequestShutdown, vars, queueVars, workerVars
    <3>2. Won(r)' = Won(r) /\ DeadlineReached(r)' = DeadlineReached(r)
      BY <3>1 DEF Won, DeadlineReached
    <3> QED
      BY <3>1, <3>2, Untouched DEF Simulated
  <2> QED
    BY <2>1, CallerSimulates, EnvironmentSimulates, WorkerSimulates DEF Next, Callers
<1> DEFINE status == [r \in Requests |-> Status(r)]
           signal == [r \in Requests |-> Signal(r)]
<1>2. ASSUME NEW r \in Requests
      PROVE  /\ status[r] = Status(r) /\ status'[r] = Status(r)'
             /\ signal[r] = Signal(r) /\ signal'[r] = Signal(r)'
  OBVIOUS
<1>3. ASSUME NEW r \in Requests
      PROVE  \/ Service!Keep(r) \/ Service!Raise(r) \/ Service!TurnAway(r) \/ Service!Accept(r)
             \/ Service!Win(r) \/ Service!Succeed(r) \/ Service!Fail(r)
  BY <1>1, <1>2 DEF Simulated, Keeps, Raises, Moves, Service!Keep, Service!Raise, Service!TurnAway,
     Service!Accept, Service!Win, Service!Succeed, Service!Fail, Service!Failure
<1> QED
  BY <1>3 DEF Service!Next

\* The scheduler implements RequestService: queues, locks, deadlines and the worker
\* amount to requests that are refused, or accepted and answered once, with a
\* success only if nothing had stopped them at the engine's last check, and with
\* "cancelled" only if the caller cancelled.
THEOREM PromiseCorrect == Spec => KeepsPromise
<1>1. Init => Service!Init
  <2> SUFFICES ASSUME Init PROVE Service!Init
    OBVIOUS
  <2>1. ASSUME NEW r \in Requests
        PROVE  Status(r) = "idle" /\ Signal(r) = {}
    BY QueueAssumption DEF Init, QueueInit, Status, Signal, Won, DeadlineReached, Refused
  <2> QED
    BY <2>1 DEF Service!Init
<1>2. SchedulerInv /\ SignalInv /\ [Next]_vars
        => [Service!Next]_<<[r \in Requests |-> Status(r)], [r \in Requests |-> Signal(r)]>>
  BY StepSimulates
<1> QED
  BY <1>1, <1>2, SchedulerInvariant, SignalInit, SignalStep, PTL DEF Spec, KeepsPromise, Service!Spec

-----------------------------------------------------------------------------
(* The continuous batcher *)

SlotStates == [request : Nat, phase : {"Free", "Prefill", "Decode", "Complete"}, tokens : Nat]

\* The requests that have left the pending queue.
Admitted == arrived - Len(waiting)

SlotsInv ==
  /\ arrived \in Nat /\ waiting \in Seq(Nat) /\ Len(waiting) <= arrived
  /\ slots \in [SlotIds -> SlotStates]
  /\ \A i \in SlotIds : slots[i].phase = "Free" <=> slots[i] = NoSlot
WaitingInv == \A i \in DOMAIN waiting : waiting[i] = Admitted + i
ServedInv ==
  /\ Running \union left = 1 .. Admitted
  /\ Running \intersect left = {}
  /\ \A i, k \in SlotIds : slots[i].request = slots[k].request /\ i # k => slots[i] = NoSlot
BatcherInv == SlotsInv /\ WaitingInv /\ ServedInv

LEMMA BatcherInitial == BatchInit => BatcherInv
  <1> SUFFICES ASSUME BatchInit PROVE BatcherInv OBVIOUS
  <1>1. /\ slots = [i \in SlotIds |-> NoSlot] /\ waiting = <<>> /\ arrived = 0 /\ left = {}
    BY DEF BatchInit
  <1>2. NoSlot \in SlotStates /\ NoSlot.phase = "Free" BY DEF NoSlot, SlotStates
  <1>3. SlotsInv
    <2>1. waiting \in Seq(Nat) /\ Len(waiting) = 0 BY <1>1
    <2>2. slots \in [SlotIds -> SlotStates] /\ \A i \in SlotIds : slots[i] = NoSlot BY <1>1, <1>2
    <2> QED BY <1>1, <1>2, <2>1, <2>2 DEF SlotsInv
  <1>4. WaitingInv BY <1>1 DEF WaitingInv
  <1>5. ServedInv
    <2>1. Running = {} BY <1>1 DEF Running
    <2>2. Len(waiting) = 0 /\ arrived = 0 BY <1>1
    <2>3. Admitted = 0 BY <2>2 DEF Admitted
    <2>4. 1 .. 0 = {} OBVIOUS
    <2> QED BY <1>1, <2>1, <2>3, <2>4 DEF ServedInv
  <1> QED BY <1>3, <1>4, <1>5 DEF BatcherInv

LEMMA EnqueueStep == ASSUME BatcherInv, EnqueuePending PROVE BatcherInv'
  <1>1. /\ arrived' = arrived + 1 /\ waiting' = Append(waiting, arrived + 1) /\ UNCHANGED <<slots, left>>
    BY DEF EnqueuePending
  <1>2. arrived \in Nat /\ waiting \in Seq(Nat) /\ Len(waiting) <= arrived /\ Len(waiting) \in Nat
    BY DEF BatcherInv, SlotsInv
  <1>3. waiting' \in Seq(Nat) /\ Len(waiting') = Len(waiting) + 1 BY <1>1, <1>2
  <1>4. Admitted' = Admitted BY <1>1, <1>2, <1>3 DEF Admitted
  <1>5. SlotsInv' BY <1>1, <1>2, <1>3 DEF BatcherInv, SlotsInv
  <1>6. WaitingInv'
    <2> SUFFICES ASSUME NEW i \in DOMAIN waiting' PROVE waiting'[i] = Admitted + i BY <1>4 DEF WaitingInv
    <2>1. i \in 1 .. Len(waiting) + 1 BY <1>3
    <2>2. CASE i = Len(waiting) + 1
      <3>1. waiting'[i] = arrived + 1 BY <1>1, <1>2, <2>2
      <3> QED BY <1>2, <2>2, <3>1 DEF Admitted
    <2>3. CASE i # Len(waiting) + 1
      <3>1. i \in DOMAIN waiting BY <1>2, <2>1, <2>3
      <3>2. waiting'[i] = waiting[i] BY <1>1, <1>2, <2>1, <2>3
      <3> QED BY <3>1, <3>2 DEF BatcherInv, WaitingInv
    <2> QED BY <2>2, <2>3
  <1>7. ServedInv' BY <1>1, <1>4 DEF BatcherInv, ServedInv, Running
  <1> QED BY <1>5, <1>6, <1>7 DEF BatcherInv

LEMMA StepSlotStep == ASSUME BatcherInv, NEW i \in SlotIds, StepSlot(i) PROVE BatcherInv'
  <1>1. UNCHANGED <<waiting, arrived, left>> /\ slots[i].phase \in {"Prefill", "Decode"} BY DEF StepSlot
  <1>2. slots \in [SlotIds -> SlotStates] /\ \A k \in SlotIds : slots[k].phase = "Free" <=> slots[k] = NoSlot
    BY DEF BatcherInv, SlotsInv
  <1>3. /\ slots' \in [SlotIds -> SlotStates] /\ slots'[i].request = slots[i].request
        /\ slots'[i].phase \in {"Decode", "Complete"}
        /\ \A k \in SlotIds : k # i => slots'[k] = slots[k]
    <2>1. CASE slots[i].phase = "Prefill" /\ slots' = [slots EXCEPT ![i].phase = "Decode"]
      BY <1>2, <2>1 DEF SlotStates
    <2>2. CASE /\ slots[i].phase = "Decode" /\ slots[i].tokens < MaxSlotTokens
               /\ slots' = [slots EXCEPT ![i].tokens = @ + 1]
      BY <1>2, <2>2 DEF SlotStates
    <2>3. CASE slots' = [slots EXCEPT ![i].phase = "Complete"] BY <1>2, <2>3 DEF SlotStates
    <2> QED BY <2>1, <2>2, <2>3 DEF StepSlot
  <1>4. NoSlot.phase = "Free" BY DEF NoSlot
  <1>5. slots[i] # NoSlot /\ slots'[i] # NoSlot BY <1>1, <1>3, <1>4
  <1>6. \A k \in SlotIds : (slots'[k] = NoSlot <=> slots[k] = NoSlot) /\ slots'[k].request = slots[k].request
    BY <1>3, <1>5
  <1>7. SlotsInv'
    <2>1. \A k \in SlotIds : slots'[k].phase = "Free" <=> slots'[k] = NoSlot BY <1>2, <1>3, <1>5
    <2> QED BY <1>1, <1>3, <2>1 DEF BatcherInv, SlotsInv
  <1>8. WaitingInv' BY <1>1 DEF BatcherInv, WaitingInv, Admitted
  <1>9. ServedInv'
    <2>1. Running' = Running BY <1>6 DEF Running
    <2>2. Admitted' = Admitted BY <1>1 DEF Admitted
    <2> QED BY <1>1, <1>6, <2>1, <2>2 DEF BatcherInv, ServedInv
  <1> QED BY <1>7, <1>8, <1>9 DEF BatcherInv

LEMMA EvictStep == ASSUME BatcherInv, EvictCompleted PROVE BatcherInv'
  <1> DEFINE done == {i \in SlotIds : slots[i].phase = "Complete"}
             gone == {slots[i].request : i \in done}
  <1>1. /\ slots' = [i \in SlotIds |-> IF i \in done THEN NoSlot ELSE slots[i]]
        /\ left' = left \union gone /\ UNCHANGED <<waiting, arrived>>
    BY DEF EvictCompleted
  <1>2. slots \in [SlotIds -> SlotStates] /\ \A k \in SlotIds : slots[k].phase = "Free" <=> slots[k] = NoSlot
    BY DEF BatcherInv, SlotsInv
  <1>3. NoSlot \in SlotStates /\ NoSlot.phase = "Free" BY DEF NoSlot, SlotStates
  <1>4. \A i \in done : i \in SlotIds /\ slots[i] # NoSlot BY <1>3
  <1>5. \A i \in SlotIds : slots'[i] = IF i \in done THEN NoSlot ELSE slots[i] BY <1>1
  <1>6. \A x : x \in gone <=> \E i \in done : slots[i].request = x OBVIOUS
  <1>7. slots' \in [SlotIds -> SlotStates] BY <1>1, <1>2, <1>3
  <1> HIDE DEF done, gone
  <1>8. SlotsInv'
    <2>1. \A k \in SlotIds : slots'[k].phase = "Free" <=> slots'[k] = NoSlot BY <1>2, <1>3, <1>5
    <2> QED BY <1>1, <1>7, <2>1 DEF BatcherInv, SlotsInv
  <1>9. WaitingInv' BY <1>1 DEF BatcherInv, WaitingInv, Admitted
  <1>10. ServedInv'
    <2>1. \A x : x \in Running <=> \E i \in SlotIds : slots[i] # NoSlot /\ slots[i].request = x BY DEF Running
    <2>2. \A x : x \in Running' <=> \E i \in SlotIds : slots'[i] # NoSlot /\ slots'[i].request = x BY DEF Running
    <2>3. \A i, k \in SlotIds : slots[i].request = slots[k].request /\ i # k => slots[i] = NoSlot
      BY DEF BatcherInv, ServedInv
    <2>4. \A x : x \in Running' <=> x \in Running /\ x \notin gone BY <1>4, <1>5, <1>6, <2>1, <2>2, <2>3
    <2>5. gone \subseteq Running BY <1>4, <1>6, <2>1
    <2>6. Admitted' = Admitted BY <1>1 DEF Admitted
    <2>7. Running \union left = 1 .. Admitted /\ Running \intersect left = {} BY DEF BatcherInv, ServedInv
    <2>8. Running' \union left' = 1 .. Admitted' BY <1>1, <2>4, <2>5, <2>6, <2>7
    <2>9. Running' \intersect left' = {} BY <1>1, <2>4, <2>7
    <2>10. \A i, k \in SlotIds : slots'[i].request = slots'[k].request /\ i # k => slots'[i] = NoSlot
      <3> SUFFICES ASSUME NEW i \in SlotIds, NEW k \in SlotIds,
                          slots'[i].request = slots'[k].request, i # k, slots'[i] # NoSlot
                   PROVE  FALSE
        OBVIOUS
      <3>1. slots'[i] = slots[i] /\ slots[i] # NoSlot BY <1>5
      <3>2. CASE slots'[k] = slots[k] BY <2>3, <3>1, <3>2
      <3>3. CASE slots'[k] = NoSlot
        <4>1. slots[i].request = 0 BY <3>1, <3>3 DEF NoSlot
        <4>2. 0 \in Running BY <2>1, <3>1, <4>1
        <4> QED BY <2>7, <4>2
      <3> QED BY <1>5, <3>2, <3>3
    <2> QED BY <2>8, <2>9, <2>10 DEF ServedInv
  <1> QED BY <1>8, <1>9, <1>10 DEF BatcherInv

\* admit_pending: the free slots in order take the front of the queue in order.
LEMMA AdmitStep == ASSUME BatcherInv, AdmitPending PROVE BatcherInv'
  <1> DEFINE S == {i \in SlotIds : slots[i] = NoSlot}
             free == Ascending(S)
             n == IF Len(free) < Len(waiting) THEN Len(free) ELSE Len(waiting)
             Taken(i) == \E k \in 1 .. n : free[k] = i
             Rank(i) == CHOOSE k \in 1 .. n : free[k] = i
             Begun(i) == [request |-> waiting[Rank(i)], phase |-> "Prefill", tokens |-> 0]
  <1>1. /\ slots' = [i \in SlotIds |-> IF Taken(i) THEN Begun(i) ELSE slots[i]]
        /\ waiting' = SubSeq(waiting, n + 1, Len(waiting)) /\ UNCHANGED <<arrived, left>>
    BY DEF AdmitPending
  <1>2. /\ arrived \in Nat /\ waiting \in Seq(Nat) /\ Len(waiting) <= arrived /\ Len(waiting) \in Nat
        /\ slots \in [SlotIds -> SlotStates] /\ \A k \in SlotIds : slots[k].phase = "Free" <=> slots[k] = NoSlot
        /\ \A i \in 1 .. Len(waiting) : waiting[i] = Admitted + i
    BY DEF BatcherInv, SlotsInv, WaitingInv
  <1>3. /\ n \in Nat /\ n <= Len(waiting)
        /\ \A k \in 1 .. n : free[k] \in SlotIds /\ slots[free[k]] = NoSlot
        /\ \A k, l \in 1 .. n : free[k] = free[l] => k = l
    <2>1. S \in SUBSET Nat /\ IsFiniteSet(S)
      <3>1. IsFiniteSet(SlotIds) BY FirstNumbers, BatchAssumption DEF SlotIds
      <3>2. SlotIds \in SUBSET Nat BY BatchAssumption DEF SlotIds
      <3> QED BY <3>1, <3>2, FS_Subset
    <2> DEFINE m == Cardinality(S)
    <2>2. /\ m \in Nat /\ free \in [1 .. m -> S]
          /\ \A k, l \in 1 .. m : free[k] = free[l] => k = l
      <3> HIDE DEF S
      <3> QED BY <2>1, AscendingIs
    <2>3. \A i \in S : i \in SlotIds /\ slots[i] = NoSlot OBVIOUS
    <2> HIDE DEF S, m, free
    <2>4. Len(free) = m BY <2>2
    <2>5. n \in Nat /\ n <= Len(waiting) /\ \A k \in 1 .. n : k \in 1 .. m BY <1>2, <2>2, <2>4
    <2> HIDE DEF n
    <2> QED BY <2>2, <2>3, <2>5
  <1>4. ASSUME NEW i, Taken(i) PROVE Rank(i) \in 1 .. n /\ free[Rank(i)] = i BY <1>4, Zenon
  <1> HIDE DEF free, n
  <1>5. Admitted \in Nat BY <1>2 DEF Admitted
  <1>6. waiting' \in Seq(Nat) /\ Len(waiting') = Len(waiting) - n
        /\ \A j \in 1 .. Len(waiting) - n : waiting'[j] = waiting[n + j]
    BY <1>1, <1>2, <1>3
  <1>7. Admitted' = Admitted + n
    <2>1. arrived' = arrived /\ Len(waiting') = Len(waiting) - n BY <1>1, <1>6
    <2>2. arrived \in Nat /\ Len(waiting) \in Nat /\ n \in Nat BY <1>2, <1>3
    <2> QED BY <2>1, <2>2 DEF Admitted
  <1>8. WaitingInv'
    <2> SUFFICES ASSUME NEW j \in DOMAIN waiting' PROVE waiting'[j] = Admitted + n + j
      BY <1>3, <1>5, <1>7 DEF WaitingInv
    <2>1. j \in 1 .. Len(waiting) - n BY <1>6
    <2>2. n + j \in 1 .. Len(waiting) BY <1>2, <1>3, <2>1
    <2>3. waiting[n + j] = Admitted + (n + j) BY <1>2, <2>2
    <2>4. waiting'[j] = Admitted + (n + j) BY <1>6, <2>1, <2>3
    <2>5. j \in Int /\ n \in Int /\ Admitted \in Int BY <1>3, <1>5, <2>1
    <2> QED BY <2>4, <2>5
  <1>9. ASSUME NEW i \in SlotIds, Taken(i)
        PROVE  /\ slots'[i] = Begun(i) /\ slots[i] = NoSlot
               /\ Rank(i) \in 1 .. n /\ free[Rank(i)] = i /\ waiting[Rank(i)] = Admitted + Rank(i)
               /\ Admitted + Rank(i) \in Nat
    <2>1. Rank(i) \in 1 .. n /\ free[Rank(i)] = i BY <1>4, <1>9
    <2> HIDE DEF Rank
    <2>2. Rank(i) \in 1 .. Len(waiting) BY <1>2, <1>3, <2>1
    <2>3. waiting[Rank(i)] = Admitted + Rank(i) BY <1>2, <2>2
    <2>4. slots'[i] = Begun(i) BY <1>1, <1>9
    <2>5. Admitted + Rank(i) \in Nat BY <1>5, <2>1
    <2> QED BY <1>3, <2>1, <2>3, <2>4, <2>5
  <1>10. \A i \in SlotIds : ~Taken(i) => slots'[i] = slots[i] BY <1>1
  <1>11. DOMAIN slots' = SlotIds /\ slots' = [i \in SlotIds |-> slots'[i]] BY <1>1
  <1> HIDE DEF Taken, Rank
  <1>12. ASSUME NEW i \in SlotIds, Taken(i)
         PROVE  /\ slots'[i].request = Admitted + Rank(i) /\ slots'[i].phase = "Prefill"
                /\ slots'[i] # NoSlot /\ slots'[i] \in SlotStates
    <2>1. Begun(i).request = Admitted + Rank(i) /\ Begun(i).phase = "Prefill" BY <1>9, <1>12
    <2>2. NoSlot.phase = "Free" BY DEF NoSlot
    <2>3. Begun(i) \in SlotStates BY <1>9, <1>12 DEF SlotStates
    <2> QED BY <1>9, <1>12, <2>1, <2>2, <2>3
  <1> HIDE DEF Begun
  <1>13. SlotsInv'
    <2>1. \A k \in SlotIds : slots'[k].phase = "Free" <=> slots'[k] = NoSlot BY <1>2, <1>10, <1>12
    <2>2. \A k \in SlotIds : slots'[k] \in SlotStates BY <1>2, <1>10, <1>12
    <2>3. slots' \in [SlotIds -> SlotStates] BY <1>11, <2>2
    <2>4. arrived' \in Nat /\ waiting' \in Seq(Nat) /\ Len(waiting') <= arrived' BY <1>1, <1>2, <1>3, <1>6
    <2> QED BY <2>1, <2>3, <2>4 DEF SlotsInv
  <1>14. ServedInv'
    <2>1. \A x : x \in Running <=> \E i \in SlotIds : slots[i] # NoSlot /\ slots[i].request = x BY DEF Running
    <2>2. \A x : x \in Running' <=> \E i \in SlotIds : slots'[i] # NoSlot /\ slots'[i].request = x BY DEF Running
    <2>3. \A i, k \in SlotIds : slots[i].request = slots[k].request /\ i # k => slots[i] = NoSlot
      BY DEF BatcherInv, ServedInv
    <2>4. Running \union left = 1 .. Admitted /\ Running \intersect left = {} BY DEF BatcherInv, ServedInv
    <2> DEFINE New == {Admitted + k : k \in 1 .. n}
    <2>5. \A x : x \in Running' <=> x \in Running \/ x \in New
      <3>1. ASSUME NEW x \in Running PROVE x \in Running'
        <4>1. PICK i \in SlotIds : slots[i] # NoSlot /\ slots[i].request = x BY <2>1
        <4>2. ~Taken(i) BY <1>9, <4>1
        <4> QED BY <1>10, <2>2, <4>1, <4>2
      <3>2. ASSUME NEW k \in 1 .. n PROVE Admitted + k \in Running'
        <4> DEFINE i == free[k]
        <4>1. i \in SlotIds /\ Taken(i) BY <1>3 DEF Taken
        <4>2. Rank(i) = k
          <5>1. Rank(i) \in 1 .. n /\ free[Rank(i)] = free[k] BY <1>9, <4>1
          <5> QED BY <1>3, <5>1
        <4> HIDE DEF i
        <4> QED BY <1>12, <2>2, <4>1, <4>2
      <3>3. ASSUME NEW x \in Running' PROVE x \in Running \/ x \in New
        <4>1. PICK i \in SlotIds : slots'[i] # NoSlot /\ slots'[i].request = x BY <2>2
        <4>2. CASE Taken(i)
          <5>1. x = Admitted + Rank(i) /\ Rank(i) \in 1 .. n BY <1>9, <1>12, <4>1, <4>2
          <5> QED BY <5>1
        <4>3. CASE ~Taken(i) BY <1>10, <2>1, <4>1, <4>3
        <4> QED BY <4>2, <4>3
      <3> QED BY <3>1, <3>2, <3>3
    <2>6. 1 .. Admitted + n = (1 .. Admitted) \union New /\ (1 .. Admitted) \intersect New = {}
      <3>1. \A x \in 1 .. Admitted + n : x \notin 1 .. Admitted => x - Admitted \in 1 .. n /\ x = Admitted + (x - Admitted)
        BY <1>3, <1>5
      <3>2. \A x \in New : x \in 1 .. Admitted + n /\ x \notin 1 .. Admitted BY <1>3, <1>5
      <3>3. 1 .. Admitted \subseteq 1 .. Admitted + n BY <1>3, <1>5
      <3> QED BY <3>1, <3>2, <3>3
    <2> HIDE DEF New
    <2>7. Running' \union left' = 1 .. Admitted' BY <1>1, <1>7, <2>4, <2>5, <2>6
    <2>8. Running' \intersect left' = {} BY <1>1, <2>4, <2>5, <2>6
    <2>9. ASSUME NEW i \in SlotIds, NEW k \in SlotIds, slots'[i].request = slots'[k].request, i # k, slots'[i] # NoSlot
          PROVE  FALSE
      <3>1. CASE Taken(i) /\ Taken(k)
        <4>1. Admitted + Rank(i) = Admitted + Rank(k) /\ Rank(i) \in 1 .. n /\ Rank(k) \in 1 .. n
          BY <1>9, <1>12, <2>9, <3>1
        <4>2. Rank(i) = Rank(k) BY <1>3, <1>5, <4>1
        <4> QED BY <1>9, <2>9, <3>1, <4>2
      <3>2. ASSUME NEW a \in SlotIds, NEW b \in SlotIds, Taken(a), ~Taken(b), slots'[a].request = slots'[b].request
            PROVE  FALSE
        <4>1. slots[b].request = Admitted + Rank(a) /\ Rank(a) \in 1 .. n BY <1>9, <1>10, <1>12, <3>2
        <4>2. slots[b].request \notin 0 .. Admitted BY <1>3, <1>5, <4>1
        <4>3. CASE slots[b] = NoSlot
          <5>1. slots[b].request = 0 BY <4>3 DEF NoSlot
          <5> QED BY <1>5, <4>2, <5>1
        <4>4. CASE slots[b] # NoSlot
          <5>1. slots[b].request \in 1 .. Admitted BY <2>1, <2>4, <4>4
          <5> QED BY <1>5, <4>2, <5>1
        <4> QED BY <4>3, <4>4
      <3>3. CASE ~Taken(i) /\ ~Taken(k) BY <1>10, <2>3, <2>9, <3>3
      <3> QED BY <2>9, <3>1, <3>2, <3>3
    <2> QED BY <2>7, <2>8, <2>9 DEF ServedInv
  <1> QED BY <1>8, <1>13, <1>14 DEF BatcherInv

-----------------------------------------------------------------------------
(* The batch processor *)

LEMMA Bounded ==
  ASSUME NEW L \in Nat, NEW f, \A i \in 1 .. L : f[i] \in Nat
  PROVE  \E B \in Nat : \A i \in 1 .. L : f[i] <= B
  <1> DEFINE Good(n) == \E B \in Nat : \A i \in 1 .. n : f[i] <= B
             Bad == {n \in 0 .. L : ~Good(n)}
  <1>1. Bad = {}
    <2> SUFFICES ASSUME Bad # {} PROVE FALSE OBVIOUS
    <2>1. Bad \in SUBSET Nat OBVIOUS
    <2>2. PICK n \in Bad : \A k \in Bad : n <= k
      <3> HIDE DEF Bad
      <3> QED BY <2>1, FirstOfNumbers
    <2>3. n \in 0 .. L /\ ~Good(n) BY <2>2
    <2>4. CASE n = 0
      <3>1. \A i \in 1 .. n : f[i] <= 0 BY <2>4
      <3> QED BY <2>3, <3>1
    <2>5. CASE n # 0
      <3>1. n - 1 \in 0 .. L /\ n - 1 < n /\ n \in 1 .. L BY <2>3, <2>5
      <3>2. Good(n - 1)
        <4> HIDE DEF Good
        <4>1. \A k \in Bad : ~(k < n) BY <2>2
        <4>2. n - 1 \notin Bad BY <3>1, <4>1
        <4> QED BY <3>1, <4>2
      <3>3. PICK B \in Nat : \A i \in 1 .. n - 1 : f[i] <= B BY <3>2
      <3> DEFINE C == B + f[n]
      <3>4. f[n] \in Nat /\ C \in Nat /\ f[n] <= C /\ B <= C BY <3>1, <3>3
      <3>5. \A i \in 1 .. n : f[i] <= C
        <4> SUFFICES ASSUME NEW i \in 1 .. n PROVE f[i] <= C OBVIOUS
        <4>1. CASE i = n BY <3>4, <4>1
        <4>2. CASE i # n
          <5>1. i \in 1 .. n - 1 /\ i \in 1 .. L BY <3>1, <4>2
          <5>2. f[i] <= B /\ f[i] \in Nat BY <3>3, <5>1
          <5> HIDE DEF C
          <5> QED BY <3>3, <3>4, <5>2
        <4> QED BY <4>1, <4>2
      <3> QED BY <2>3, <3>4, <3>5
    <2> QED BY <2>4, <2>5
  <1>2. L \in 0 .. L OBVIOUS
  <1>3. Good(L) BY <1>1, <1>2
  <1> QED BY <1>3

LEMMA EstimateIs == \A p \in Nat : EstimatedTokens(p) \in Nat
  BY DEF EstimatedTokens

\* The tokens of a batch grow by the estimate of the request added to it.
LEMMA TokensGrow ==
  ASSUME NEW b \in Seq(Nat), NEW p \in Nat
  PROVE  /\ Append(b, p) = b \o <<p>>
         /\ BatchTokens(Append(b, p)) = BatchTokens(b) + EstimatedTokens(p)
  <1> DEFINE L == Len(b)
             c == Append(b, p)
             f == [i \in DOMAIN b |-> EstimatedTokens(b[i])]
             g == [i \in DOMAIN c |-> EstimatedTokens(c[i])]
  <1>1. L \in Nat /\ DOMAIN b = 1 .. L /\ c \in Seq(Nat) /\ DOMAIN c = 1 .. L + 1
    OBVIOUS
  <1>2. c[L + 1] = p /\ \A i \in 1 .. L : c[i] = b[i] OBVIOUS
  <1>3. Append(b, p) = b \o <<p>> OBVIOUS
  <1> HIDE DEF L, c
  <1>4. \A i \in 1 .. L + 1 : c[i] \in Nat BY <1>1
  <1>5. \A i \in 1 .. L + 1 : g[i] = EstimatedTokens(c[i]) /\ g[i] \in Nat BY <1>1, <1>4, EstimateIs
  <1>6. \A i \in 1 .. L : f[i] = g[i]
    <2> SUFFICES ASSUME NEW i \in 1 .. L PROVE f[i] = g[i] OBVIOUS
    <2>1. i \in 1 .. L + 1 BY <1>1
    <2> QED BY <1>1, <1>2, <1>5, <2>1
  <1>7. L + 1 \in 1 .. L + 1 /\ L + 1 \in Nat BY <1>1
  <1>8. g[L + 1] = EstimatedTokens(p) BY <1>2, <1>5, <1>7
  <1>9. BatchTokens(b) = Total(f, 1 .. L) /\ BatchTokens(c) = Total(g, 1 .. L + 1) BY <1>1 DEF BatchTokens
  <1> HIDE DEF f, g
  <1>10. Total(f, 1 .. L) = Total(g, 1 .. L) BY <1>6, TotalSame
  <1>11. PICK B \in Nat : \A i \in 1 .. L + 1 : g[i] <= B
    <2> DEFINE M == L + 1
    <2>1. M \in Nat /\ \A i \in 1 .. M : g[i] \in Nat BY <1>5, <1>7
    <2> HIDE DEF M
    <2>2. \E B \in Nat : \A i \in 1 .. M : g[i] <= B BY <2>1, Bounded
    <2> QED BY <2>2 DEF M
  <1>12. \A i \in 1 .. L + 1 : g[i] \in Nat /\ g[i] <= B BY <1>5, <1>11
  <1>13. Total(g, 1 .. L + 1) = Total(g, 1 .. L) + g[L + 1] BY <1>1, <1>11, <1>12, TotalNext
  <1> QED BY <1>3, <1>8, <1>9, <1>10, <1>13 DEF c

LEMMA TokensNumber == ASSUME NEW b \in Seq(Nat) PROVE BatchTokens(b) \in Nat
  <1> DEFINE L == Len(b)
             f == [i \in DOMAIN b |-> EstimatedTokens(b[i])]
  <1>1. L \in Nat /\ DOMAIN b = 1 .. L /\ \A i \in 1 .. L : b[i] \in Nat OBVIOUS
  <1>2. \A i \in 1 .. L : f[i] \in Nat BY <1>1, EstimateIs
  <1>3. BatchTokens(b) = Total(f, 1 .. L) BY <1>1 DEF BatchTokens
  <1> HIDE DEF L, f
  <1>4. PICK B \in Nat : \A i \in 1 .. L : f[i] <= B BY <1>1, <1>2, Bounded
  <1> DEFINE S == 1 .. L
  <1>5. IsFiniteSet(S) /\ \A i \in S : f[i] \in Nat /\ f[i] <= B BY <1>1, <1>2, <1>4, FirstNumbers
  <1> HIDE DEF S
  <1>6. Total(f, S) \in Nat BY <1>4, <1>5, TotalFinite
  <1> QED BY <1>3, <1>6 DEF S

LEMMA PieceGrows ==
  ASSUME NEW X, NEW e \in Nat, NEW b \in Nat
  PROVE  Append([k \in 1 .. b |-> X[e + k]], X[e + b + 1]) = [k \in 1 .. b + 1 |-> X[e + k]]
  <1> DEFINE W == {X[e + k] : k \in 1 .. b + 1}
             s == [k \in 1 .. b |-> X[e + k]]
             x == X[e + b + 1]
             t == Append(s, x)
  <1>1. s \in [1 .. b -> W] OBVIOUS
  <1>2. s \in Seq(W) /\ Len(s) = b
    <2> HIDE DEF s, W
    <2> QED BY <1>1
  <1>3. x \in W
    <2>1. b + 1 \in 1 .. b + 1 /\ e + (b + 1) = e + b + 1 OBVIOUS
    <2> QED BY <2>1
  <1>4. \A k \in 1 .. b : s[k] = X[e + k] OBVIOUS
  <1> HIDE DEF W, s, x
  <1>5. t \in Seq(W) /\ Len(t) = b + 1 /\ t[b + 1] = x /\ \A k \in 1 .. b : t[k] = s[k] BY <1>2, <1>3
  <1> HIDE DEF t
  <1>6. t \in [1 .. b + 1 -> W] BY <1>5
  <1>7. ASSUME NEW k \in 1 .. b + 1 PROVE t[k] = X[e + k]
    <2>1. CASE k = b + 1
      <3>1. e + k = e + b + 1 BY <2>1
      <3> QED BY <1>5, <2>1, <3>1 DEF x
    <2>2. CASE k # b + 1
      <3>1. k \in 1 .. b BY <2>2
      <3> QED BY <1>4, <1>5, <3>1
    <2> QED BY <2>1, <2>2
  <1>8. t = [k \in 1 .. b + 1 |-> X[e + k]] BY <1>6, <1>7
  <1> QED BY <1>8 DEF t, s, x

\* The first n of the requests ps are cut into the batches acc, the i-th of
\* which ends with request ends[i].
CutAt(ps, n, acc, ends) ==
  /\ acc \in Seq(Seq(Nat)) /\ ends \in [0 .. Len(acc) -> Nat]
  /\ ends[0] = 0 /\ ends[Len(acc)] = n
  /\ \A i \in 1 .. Len(acc) :
        /\ ends[i - 1] < ends[i]
        /\ acc[i] = [k \in 1 .. ends[i] - ends[i - 1] |-> ps[ends[i - 1] + k]]
WithinLimits(b) == Len(b) > MaxBatchSize \/ BatchTokens(b) > MaxBatchTokens => Len(b) = 1
ClosedBy(b, p) == ~ /\ Len(b) < MaxBatchSize
                    /\ BatchTokens(b \o <<p>>) <= MaxBatchTokens
LimitsKept(acc) == \A i \in 1 .. Len(acc) : WithinLimits(acc[i]) /\ (i > 1 => ClosedBy(acc[i - 1], acc[i][1]))

\* A request joins the last batch.
LEMMA CutJoins ==
  ASSUME NEW ps \in Seq(Nat), NEW n \in Nat, n + 1 <= Len(ps), NEW acc, NEW ends,
         CutAt(ps, n, acc, ends), LimitsKept(acc), acc # <<>>, CanAdd(Last(acc), ps[n + 1])
  PROVE  LET new == [acc EXCEPT ![Len(acc)] = Append(@, ps[n + 1])]
         IN  (\E e : CutAt(ps, n + 1, new, e)) /\ LimitsKept(new)
  <1> DEFINE m == Len(acc)
             b == acc[m]
             p == ps[n + 1]
             c == Append(b, p)
             new == [acc EXCEPT ![m] = c]
             e == [ends EXCEPT ![m] = n + 1]
  <1>1. /\ acc \in Seq(Seq(Nat)) /\ ends \in [0 .. m -> Nat] /\ ends[0] = 0 /\ ends[m] = n
        /\ \A i \in 1 .. m : /\ ends[i - 1] < ends[i]
                             /\ acc[i] = [k \in 1 .. ends[i] - ends[i - 1] |-> ps[ends[i - 1] + k]]
    BY DEF CutAt
  <1>2. m \in Nat /\ m # 0 /\ m \in 1 .. m /\ p \in Nat BY <1>1
  <1>3. b \in Seq(Nat) BY <1>1, <1>2
  <1>4. CanAdd(b, p) BY DEF Last
  <1> HIDE DEF m, p
  <1>5. c \in Seq(Nat) /\ Len(c) = Len(b) + 1 /\ Len(b) \in Nat /\ (Len(b) >= 1 => c[1] = b[1]) BY <1>2, <1>3
  <1>6. BatchTokens(c) = BatchTokens(b) + EstimatedTokens(p) BY <1>2, <1>3, TokensGrow
  <1> DEFINE d == ends[m - 1]
  <1>7. d \in Nat /\ d < n /\ b = [k \in 1 .. n - d |-> ps[d + k]]
    <2>1. m - 1 \in 0 .. m BY <1>2
    <2>2. d \in Nat BY <1>1, <2>1
    <2>3. d < n BY <1>1, <1>2
    <2>4. b = [k \in 1 .. ends[m] - d |-> ps[d + k]] BY <1>1, <1>2
    <2> HIDE DEF b, d
    <2> QED BY <1>1, <2>2, <2>3, <2>4
  <1>8. c = [k \in 1 .. (n + 1) - d |-> ps[d + k]]
    <2> DEFINE l == n - d
    <2>0. d \in Nat /\ d < n BY <1>7
    <2> HIDE DEF d
    <2>1. l \in Nat /\ d + l + 1 = n + 1 /\ l + 1 = (n + 1) - d BY <2>0
    <2> HIDE DEF l
    <2>2. Append([k \in 1 .. l |-> ps[d + k]], ps[d + l + 1]) = [k \in 1 .. l + 1 |-> ps[d + k]]
      BY <1>7, <2>1, PieceGrows
    <2>3. b = [k \in 1 .. l |-> ps[d + k]] BY <1>7 DEF l
    <2> HIDE DEF b
    <2> QED BY <2>1, <2>2, <2>3 DEF p
  <1>9. Len(b) >= 1
    <2>1. n - d \in Nat /\ n - d >= 1 BY <1>7
    <2> HIDE DEF b, d
    <2>2. Len(b) = n - d BY <1>7, <2>1
    <2> QED BY <2>1, <2>2
  <1>10. /\ new \in Seq(Seq(Nat)) /\ Len(new) = m /\ new[m] = c
         /\ \A i \in 1 .. m : i # m => new[i] = acc[i]
    <2> HIDE DEF c
    <2>1. acc \in [1 .. m -> Seq(Nat)] BY <1>1 DEF m
    <2>2. new \in [1 .. m -> Seq(Nat)] /\ new[m] = c /\ \A i \in 1 .. m : i # m => new[i] = acc[i]
      BY <1>2, <1>5, <2>1
    <2> HIDE DEF new
    <2> QED BY <1>2, <2>2
  <1>11. e \in [0 .. m -> Nat] /\ e[m] = n + 1 /\ \A i \in 0 .. m : i # m => e[i] = ends[i] BY <1>1, <1>2
  <1> HIDE DEF new, e, c, b
  <1>12. CutAt(ps, n + 1, new, e)
    <2>1. ASSUME NEW i \in 1 .. m
          PROVE  /\ e[i - 1] < e[i]
                 /\ new[i] = [k \in 1 .. e[i] - e[i - 1] |-> ps[e[i - 1] + k]]
      <3>1. i - 1 \in 0 .. m /\ i - 1 # m /\ i \in 0 .. m BY <1>2
      <3>2. e[i - 1] = ends[i - 1] BY <1>11, <3>1
      <3>3. CASE i = m
        <4>1. e[i - 1] = d /\ e[i] = n + 1 BY <1>11, <3>2, <3>3
        <4>2. d < n + 1 BY <1>7
        <4>3. new[i] = c BY <1>10, <3>3
        <4> DEFINE lo == e[i - 1]
                   hi == e[i]
        <4>4. lo = d /\ hi = n + 1 BY <4>1
        <4> HIDE DEF d, lo, hi
        <4>5. lo < hi BY <4>2, <4>4
        <4> DEFINE Piece(l, h) == [k \in 1 .. h - l |-> ps[l + k]]
        <4>6. c = Piece(d, n + 1) BY <1>8
        <4> HIDE DEF Piece
        <4>7. c = Piece(lo, hi) BY <4>4, <4>6
        <4> QED BY <4>3, <4>5, <4>7 DEF lo, hi, Piece
      <3>4. CASE i # m
        <4>1. e[i] = ends[i] /\ new[i] = acc[i] BY <1>10, <1>11, <3>1, <3>4
        <4> QED BY <1>1, <3>2, <4>1
      <3> QED BY <3>3, <3>4
    <2>2. e[0] = 0 BY <1>1, <1>2, <1>11
    <2> QED BY <1>10, <1>11, <2>1, <2>2 DEF CutAt
  <1>13. LimitsKept(new)
    <2>1. Len(c) <= MaxBatchSize /\ BatchTokens(c) <= MaxBatchTokens
      BY <1>3, <1>4, <1>5, <1>6, BatchAssumption DEF CanAdd
    <2>2. BatchTokens(c) \in Nat BY <1>5, TokensNumber
    <2>3. WithinLimits(c) BY <1>5, <2>1, <2>2, BatchAssumption DEF WithinLimits
    <2>4. \A i \in 1 .. m : WithinLimits(acc[i]) /\ (i > 1 => ClosedBy(acc[i - 1], acc[i][1])) BY DEF LimitsKept, m
    <2>5. ASSUME NEW i \in 1 .. m
          PROVE  WithinLimits(new[i]) /\ (i > 1 => ClosedBy(new[i - 1], new[i][1]))
      <3>1. i > 1 => i - 1 \in 1 .. m /\ i - 1 # m BY <1>2
      <3>2. i > 1 => new[i - 1] = acc[i - 1] BY <1>10, <3>1
      <3>3. new[i][1] = acc[i][1]
        <4>1. CASE i = m BY <1>5, <1>9, <1>10, <4>1 DEF b
        <4>2. CASE i # m BY <1>10, <4>2
        <4> QED BY <4>1, <4>2
      <3>4. WithinLimits(new[i]) BY <1>10, <2>3, <2>4
      <3> QED BY <2>4, <3>2, <3>3, <3>4
    <2> QED BY <1>10, <2>5 DEF LimitsKept
  <1> QED BY <1>12, <1>13 DEF new, c, b, p, m

\* A request opens a batch.
LEMMA CutOpens ==
  ASSUME NEW ps \in Seq(Nat), NEW n \in Nat, n + 1 <= Len(ps), NEW acc, NEW ends,
         CutAt(ps, n, acc, ends), LimitsKept(acc), acc # <<>> => ~CanAdd(Last(acc), ps[n + 1])
  PROVE  LET new == Append(acc, <<ps[n + 1]>>)
         IN  (\E e : CutAt(ps, n + 1, new, e)) /\ LimitsKept(new)
  <1> DEFINE m == Len(acc)
             p == ps[n + 1]
             c == <<p>>
             new == Append(acc, c)
             e == [k \in 0 .. m + 1 |-> IF k = m + 1 THEN n + 1 ELSE ends[k]]
  <1>1. /\ acc \in Seq(Seq(Nat)) /\ ends \in [0 .. m -> Nat] /\ ends[0] = 0 /\ ends[m] = n
        /\ \A i \in 1 .. m : /\ ends[i - 1] < ends[i]
                             /\ acc[i] = [k \in 1 .. ends[i] - ends[i - 1] |-> ps[ends[i - 1] + k]]
    BY DEF CutAt
  <1>2. m \in Nat /\ p \in Nat BY <1>1
  <1>3. c \in Seq(Nat) /\ Len(c) = 1 /\ c[1] = p BY <1>2
  <1>4. c = [k \in 1 .. 1 |-> ps[n + k]]
    <2> DEFINE t == [k \in 1 .. 1 |-> ps[n + k]]
    <2>1. t \in [1 .. 1 -> Nat] /\ t[1] = p BY <1>2
    <2> HIDE DEF t
    <2>2. c \in [1 .. 1 -> Nat] BY <1>3
    <2> HIDE DEF c, p
    <2>3. \A k \in 1 .. 1 : c[k] = t[k] BY <1>3, <2>1
    <2> QED BY <2>1, <2>2, <2>3 DEF t
  <1> HIDE DEF c
  <1>5. new \in Seq(Seq(Nat)) /\ Len(new) = m + 1 /\ new[m + 1] = c /\ \A i \in 1 .. m : new[i] = acc[i]
    BY <1>1, <1>2, <1>3
  <1> HIDE DEF new, m, p
  <1>6. e \in [0 .. m + 1 -> Nat] /\ e[m + 1] = n + 1 /\ \A k \in 0 .. m : e[k] = ends[k]
    <2>1. \A k \in 0 .. m + 1 : k # m + 1 => k \in 0 .. m BY <1>2
    <2>2. \A k \in 0 .. m : k \in 0 .. m + 1 /\ k # m + 1 BY <1>2
    <2>3. m + 1 \in 0 .. m + 1 BY <1>2
    <2> QED BY <1>1, <2>1, <2>2, <2>3
  <1> HIDE DEF e
  <1>7. CutAt(ps, n + 1, new, e)
    <2>1. ASSUME NEW i \in 1 .. m + 1
          PROVE  /\ e[i - 1] < e[i]
                 /\ new[i] = [k \in 1 .. e[i] - e[i - 1] |-> ps[e[i - 1] + k]]
      <3>1. i - 1 \in 0 .. m BY <1>2
      <3>2. e[i - 1] = ends[i - 1] BY <1>6, <3>1
      <3>3. CASE i = m + 1
        <4>1. e[i - 1] = n /\ e[i] = n + 1 /\ new[i] = c BY <1>1, <1>2, <1>5, <1>6, <3>2, <3>3
        <4>2. n + 1 - n = 1 /\ n < n + 1 OBVIOUS
        <4> QED BY <1>4, <4>1, <4>2
      <3>4. CASE i # m + 1
        <4>1. i \in 1 .. m /\ i \in 0 .. m BY <1>2, <3>4
        <4>2. e[i] = ends[i] /\ new[i] = acc[i] BY <1>5, <1>6, <4>1
        <4> QED BY <1>1, <3>2, <4>1, <4>2
      <3> QED BY <3>3, <3>4
    <2>2. e[0] = 0 BY <1>1, <1>2, <1>6
    <2> QED BY <1>2, <1>5, <1>6, <2>1, <2>2 DEF CutAt
  <1>8. LimitsKept(new)
    <2>1. WithinLimits(c) BY <1>3 DEF WithinLimits
    <2>2. \A i \in 1 .. m : WithinLimits(acc[i]) /\ (i > 1 => ClosedBy(acc[i - 1], acc[i][1])) BY DEF LimitsKept, m
    <2>3. ASSUME NEW i \in 1 .. m + 1
          PROVE  WithinLimits(new[i]) /\ (i > 1 => ClosedBy(new[i - 1], new[i][1]))
      <3>1. i > 1 => i - 1 \in 1 .. m BY <1>2
      <3>2. CASE i = m + 1
        <4>1. WithinLimits(new[i]) BY <1>5, <2>1, <3>2
        <4>2. ASSUME i > 1 PROVE ClosedBy(new[i - 1], new[i][1])
          <5> DEFINE b == acc[m]
          <5>1. i - 1 = m /\ m \in 1 .. m BY <1>2, <3>2, <4>2
          <5>2. new[i - 1] = b /\ new[i][1] = p /\ b \in Seq(Nat) BY <1>1, <1>3, <1>5, <3>2, <5>1 DEF m
          <5>3. acc # <<>> BY <1>1, <5>1 DEF m
          <5>4. ~CanAdd(b, p) BY <5>3 DEF Last, m, p
          <5> HIDE DEF b
          <5>5. BatchTokens(b \o <<p>>) = BatchTokens(b) + EstimatedTokens(p)
            <6>1. Append(b, p) = b \o <<p>> /\ BatchTokens(Append(b, p)) = BatchTokens(b) + EstimatedTokens(p)
              BY <1>2, <5>2, TokensGrow
            <6> QED BY <6>1, Zenon
          <5>6. ClosedBy(b, p) BY <5>4, <5>5 DEF ClosedBy, CanAdd
          <5> QED BY <5>2, <5>6
        <4> QED BY <4>1, <4>2
      <3>3. CASE i # m + 1
        <4>1. i \in 1 .. m BY <1>2, <3>3
        <4> QED BY <1>5, <2>2, <3>1, <4>1
      <3> QED BY <3>2, <3>3
    <2> QED BY <1>5, <2>3 DEF LimitsKept
  <1> QED BY <1>7, <1>8 DEF new, c, p

\* create_batches as the function it computes: the batches after the first n requests.
Cutting(f, ps, n) == f = [k \in 0 .. n |-> IF k = 0 THEN <<>> ELSE AddToBatches(f[k - 1], ps[k])]

LEMMA CuttingExists == ASSUME NEW ps, NEW L \in Nat PROVE \E f : Cutting(f, ps, L)
  <1> DEFINE Good(n) == \E f : Cutting(f, ps, n)
             Bad == {n \in 0 .. L : ~Good(n)}
  <1>1. Good(0)
    <2> DEFINE f == [k \in 0 .. 0 |-> <<>>]
    <2>1. f = [k \in 0 .. 0 |-> IF k = 0 THEN <<>> ELSE AddToBatches(f[k - 1], ps[k])] OBVIOUS
    <2>2. Cutting(f, ps, 0) BY <2>1 DEF Cutting
    <2> HIDE DEF f
    <2> QED BY <2>2
  <1>2. ASSUME NEW n \in Nat, Good(n) PROVE Good(n + 1)
    <2>1. PICK f : Cutting(f, ps, n) BY <1>2
    <2>2. /\ f[0] = <<>>
          /\ \A k \in 1 .. n : f[k] = AddToBatches(f[k - 1], ps[k])
      <3>1. \A k \in 0 .. n : f[k] = IF k = 0 THEN <<>> ELSE AddToBatches(f[k - 1], ps[k]) BY <2>1 DEF Cutting
      <3> QED BY <3>1
    <2> DEFINE x == AddToBatches(f[n], ps[n + 1])
               g == [k \in 0 .. n + 1 |-> IF k = n + 1 THEN x ELSE f[k]]
    <2>3. g[n + 1] = x /\ \A k \in 0 .. n : g[k] = f[k]
      <3>1. n + 1 \in 0 .. n + 1 /\ \A k \in 0 .. n : k \in 0 .. n + 1 /\ k # n + 1 OBVIOUS
      <3> HIDE DEF x
      <3> QED BY <3>1
    <2>4. ASSUME NEW k \in 0 .. n + 1
          PROVE  g[k] = IF k = 0 THEN <<>> ELSE AddToBatches(g[k - 1], ps[k])
      <3> HIDE DEF g
      <3>1. CASE k = 0 BY <2>2, <2>3, <3>1
      <3>2. CASE k = n + 1
        <4>1. k - 1 = n /\ n \in 0 .. n /\ k # 0 BY <3>2
        <4>2. g[k - 1] = f[n] BY <2>3, <4>1
        <4> QED BY <2>3, <3>2, <4>1, <4>2
      <3>3. CASE k # 0 /\ k # n + 1
        <4>1. k \in 1 .. n /\ k \in 0 .. n /\ k - 1 \in 0 .. n BY <3>3
        <4>2. g[k] = f[k] /\ g[k - 1] = f[k - 1] /\ f[k] = AddToBatches(f[k - 1], ps[k]) BY <2>2, <2>3, <4>1
        <4> QED BY <3>3, <4>2
      <3> QED BY <3>1, <3>2, <3>3
    <2>5. g = [k \in 0 .. n + 1 |-> g[k]] OBVIOUS
    <2> HIDE DEF g
    <2>6. Cutting(g, ps, n + 1) BY <2>4, <2>5 DEF Cutting
    <2> QED BY <2>6
  <1> HIDE DEF Good
  <1>3. Bad = {}
    <2> SUFFICES ASSUME Bad # {} PROVE FALSE OBVIOUS
    <2>1. Bad \in SUBSET Nat OBVIOUS
    <2>2. PICK n \in Bad : \A k \in Bad : n <= k
      <3> HIDE DEF Bad
      <3> QED BY <2>1, FirstOfNumbers
    <2>3. n \in 0 .. L /\ ~Good(n) BY <2>2
    <2>4. n # 0 BY <1>1, <2>3
    <2> DEFINE k == n - 1
    <2>5. k \in 0 .. L /\ k \in Nat /\ k + 1 = n /\ ~(n <= k) BY <2>3, <2>4
    <2> HIDE DEF k
    <2>6. Good(k) BY <2>2, <2>5
    <2> QED BY <1>2, <2>3, <2>5, <2>6
  <1>4. Good(L) BY <1>3
  <1> QED BY <1>4 DEF Good

LEMMA CutNothing == ASSUME NEW ps PROVE (\E e : CutAt(ps, 0, <<>>, e)) /\ LimitsKept(<<>>)
  <1> DEFINE e == [k \in 0 .. 0 |-> 0]
  <1>1. <<>> \in Seq(Seq(Nat)) /\ Len(<<>>) = 0 /\ 1 .. 0 = {} OBVIOUS
  <1>2. e \in [0 .. 0 -> Nat] /\ e[0] = 0 OBVIOUS
  <1> HIDE DEF e
  <1>3. CutAt(ps, 0, <<>>, e) BY <1>1, <1>2 DEF CutAt
  <1>4. LimitsKept(<<>>) BY <1>1 DEF LimitsKept
  <1> QED BY <1>3, <1>4

LEMMA CuttingCuts ==
  ASSUME NEW ps \in Seq(Nat), NEW f, Cutting(f, ps, Len(ps))
  PROVE  (\E e : CutAt(ps, Len(ps), f[Len(ps)], e)) /\ LimitsKept(f[Len(ps)])
  <1> DEFINE L == Len(ps)
             Good(n) == (\E e : CutAt(ps, n, f[n], e)) /\ LimitsKept(f[n])
             Bad == {n \in 0 .. L : ~Good(n)}
  <1>1. L \in Nat OBVIOUS
  <1>2. f[0] = <<>> /\ \A k \in 1 .. L : f[k] = AddToBatches(f[k - 1], ps[k])
    <2>1. \A k \in 0 .. L : f[k] = IF k = 0 THEN <<>> ELSE AddToBatches(f[k - 1], ps[k]) BY DEF Cutting
    <2> HIDE DEF L
    <2> QED BY <1>1, <2>1
  <1>3. Good(0) BY <1>2, CutNothing
  <1>4. ASSUME NEW n \in Nat, n + 1 <= L, Good(n) PROVE Good(n + 1)
    <2> DEFINE acc == f[n]
               p == ps[n + 1]
    <2>1. PICK e : CutAt(ps, n, acc, e) BY <1>4
    <2>2. LimitsKept(acc) BY <1>4
    <2>3. f[n + 1] = AddToBatches(acc, p)
      <3>1. n + 1 \in 1 .. L /\ n + 1 - 1 = n BY <1>1, <1>4
      <3> QED BY <1>2, <3>1
    <2>4. CASE acc # <<>> /\ CanAdd(Last(acc), p)
      <3>1. f[n + 1] = [acc EXCEPT ![Len(acc)] = Append(@, p)] BY <2>3, <2>4 DEF AddToBatches
      <3> HIDE DEF acc
      <3>2. (\E x : CutAt(ps, n + 1, f[n + 1], x)) /\ LimitsKept(f[n + 1])
        <4> HIDE DEF Good
        <4>1. ps \in Seq(Nat) /\ n \in Nat /\ n + 1 <= Len(ps) BY <1>4
        <4>2. CutAt(ps, n, acc, e) /\ LimitsKept(acc) /\ acc # <<>> /\ CanAdd(Last(acc), ps[n + 1]) BY <2>1, <2>2, <2>4
        <4>3. (\E x : CutAt(ps, n + 1, [acc EXCEPT ![Len(acc)] = Append(@, ps[n + 1])], x)) /\ LimitsKept([acc EXCEPT ![Len(acc)] = Append(@, ps[n + 1])])
          BY ONLY <4>1, <4>2, CutJoins, ZenonT(60)
        <4> QED BY <3>1, <4>3, Zenon
      <3> QED BY <3>2
    <2>5. CASE ~(acc # <<>> /\ CanAdd(Last(acc), p))
      <3>1. f[n + 1] = Append(acc, <<p>>) BY <2>3, <2>5 DEF AddToBatches
      <3> HIDE DEF acc
      <3>2. (\E x : CutAt(ps, n + 1, f[n + 1], x)) /\ LimitsKept(f[n + 1])
        <4> HIDE DEF Good
        <4>1. ps \in Seq(Nat) /\ n \in Nat /\ n + 1 <= Len(ps) BY <1>4
        <4>2. CutAt(ps, n, acc, e) /\ LimitsKept(acc) /\ ~(acc # <<>> /\ CanAdd(Last(acc), ps[n + 1])) BY <2>1, <2>2, <2>5
        <4>3. (\E x : CutAt(ps, n + 1, Append(acc, <<ps[n + 1]>>), x)) /\ LimitsKept(Append(acc, <<ps[n + 1]>>))
          BY ONLY <4>1, <4>2, CutOpens, ZenonT(60)
        <4> QED BY <3>1, <4>3, Zenon
      <3> QED BY <3>2
    <2> QED BY <2>4, <2>5
  <1> HIDE DEF L, Good
  <1>5. Bad = {}
    <2> SUFFICES ASSUME Bad # {} PROVE FALSE OBVIOUS
    <2>1. Bad \in SUBSET Nat BY <1>1
    <2>2. PICK n \in Bad : \A k \in Bad : n <= k
      <3> HIDE DEF Bad
      <3> QED BY <2>1, FirstOfNumbers
    <2>3. n \in 0 .. L /\ ~Good(n) BY <2>2
    <2>4. n # 0 BY <1>3, <2>3
    <2> DEFINE k == n - 1
    <2>5. k \in 0 .. L /\ k \in Nat /\ k + 1 = n /\ ~(n <= k) /\ k + 1 <= L BY <1>1, <2>3, <2>4
    <2> HIDE DEF k
    <2>6. Good(k) BY <2>2, <2>5
    <2> QED BY <1>4, <2>3, <2>5, <2>6
  <1>6. Good(L) BY <1>1, <1>5
  <1> QED BY <1>6 DEF Good, L

\* Batches that cut the requests, put together again, are the requests.
LEMMA CutFlattens ==
  ASSUME NEW ps \in Seq(Nat), NEW acc, NEW e, CutAt(ps, Len(ps), acc, e)
  PROVE  FlattenSeq(acc) = ps /\ DOMAIN acc = 1 .. Len(acc) /\ \A i \in DOMAIN acc : acc[i] # <<>>
  <1> DEFINE m == Len(acc)
             L == Len(ps)
             F == [i \in 1 .. m |-> [k \in 1 .. e[i] |-> ps[k]]]
  <1>1. /\ acc \in Seq(Seq(Nat)) /\ e \in [0 .. m -> Nat] /\ e[0] = 0 /\ e[m] = L
        /\ \A i \in 1 .. m : /\ e[i - 1] < e[i]
                             /\ acc[i] = [k \in 1 .. e[i] - e[i - 1] |-> ps[e[i - 1] + k]]
    BY DEF CutAt
  <1>2. m \in Nat /\ L \in Nat /\ DOMAIN acc = 1 .. m BY <1>1
  <1>3. ps = [k \in 1 .. L |-> ps[k]] OBVIOUS
  <1>4. m = 0 => acc = <<>> BY <1>1
  <1>5. L = 0 => ps = <<>> OBVIOUS
  <1>6. Len(acc) = m OBVIOUS
  <1> HIDE DEF m, L
  <1>7. ASSUME NEW i \in 1 .. m
        PROVE  e[i - 1] \in Nat /\ e[i] \in Nat /\ e[i] - e[i - 1] \in Nat /\ e[i] - e[i - 1] >= 1
               /\ e[i - 1] + (e[i] - e[i - 1]) = e[i]
    <2>1. i - 1 \in 0 .. m /\ i \in 0 .. m BY <1>2
    <2>2. e[i - 1] \in Nat /\ e[i] \in Nat /\ e[i - 1] < e[i] BY <1>1, <2>1
    <2> QED BY <2>2
  <1>8. \A i \in 1 .. m : acc[i] # <<>>
    <2> SUFFICES ASSUME NEW i \in 1 .. m, acc[i] = <<>> PROVE FALSE OBVIOUS
    <2> DEFINE w == e[i] - e[i - 1]
    <2>1. w \in Nat /\ w >= 1 BY <1>7
    <2>2. acc[i] = [k \in 1 .. w |-> ps[e[i - 1] + k]] BY <1>1
    <2> HIDE DEF w
    <2>3. 1 \in DOMAIN acc[i] BY <2>1, <2>2
    <2> QED BY <2>3
  <1>9. FlattenSeq(acc) = ps
    <2>1. CASE m = 0
      <3>1. L = 0 BY <1>1, <2>1
      <3>2. acc = <<>> /\ ps = <<>> BY <1>4, <1>5, <2>1, <3>1
      <3>3. FlattenSeq(acc) = acc BY <1>6, <2>1 DEF FlattenSeq
      <3> QED BY <3>2, <3>3
    <2>2. CASE m # 0
      <3>1. ASSUME NEW i \in 1 .. m
            PROVE  F[i] = IF i = 1 THEN acc[i] ELSE F[i - 1] \o acc[i]
        <4> DEFINE a == e[i - 1]
                   b == e[i] - e[i - 1]
        <4>1. a \in Nat /\ b \in Nat /\ a + b = e[i] BY <1>7
        <4>2. F[i] = [k \in 1 .. e[i] |-> ps[k]] OBVIOUS
        <4>3. acc[i] = [k \in 1 .. b |-> ps[a + k]] BY <1>1
        <4>4. CASE i = 1
          <5>1. a = 0 BY <1>1, <4>4
          <5>2. b = e[i] /\ \A k \in 1 .. b : a + k = k BY <4>1, <5>1
          <5> HIDE DEF a, b
          <5>3. acc[i] = [k \in 1 .. e[i] |-> ps[k]] BY <4>3, <5>2
          <5> QED BY <4>2, <4>4, <5>3
        <4>5. CASE i # 1
          <5>1. i - 1 \in 1 .. m BY <1>2, <4>5
          <5>2. F[i - 1] = [k \in 1 .. a |-> ps[k]] BY <5>1
          <5> HIDE DEF a, b, F
          <5>3. F[i - 1] \o acc[i] = [k \in 1 .. a + b |-> ps[k]] BY <4>1, <4>3, <5>2, PiecesJoin
          <5> QED BY <4>1, <4>2, <4>5, <5>3
        <4> QED BY <4>4, <4>5
      <3>2. m \in 1 .. m /\ m \in Nat \ {0} BY <1>2, <2>2
      <3>3. F = [i \in 1 .. m |-> F[i]] /\ F[m] = [k \in 1 .. L |-> ps[k]] BY <1>1, <3>2
      <3> HIDE DEF F
      <3>4. Flattens(F, acc, m) BY <3>1, <3>3 DEF Flattens
      <3>5. FlattenSeq(acc) = F[m] BY <1>6, <3>2, <3>4, FlattenIs
      <3> QED BY <1>3, <3>3, <3>5
    <2> QED BY <2>1, <2>2
  <1> QED BY <1>2, <1>6, <1>8, <1>9

CutInv == /\ FlattenSeq(batches) = prompts
          /\ DOMAIN batches = 1 .. Len(batches)
          /\ \A i \in DOMAIN batches : batches[i] # <<>>
          /\ LimitsKept(batches)
BatchInv == BatcherInv /\ CutInv

LEMMA CutInitial == BatchInit => CutInv
  <1> SUFFICES ASSUME BatchInit PROVE CutInv OBVIOUS
  <1>1. prompts = <<>> /\ batches = <<>> BY DEF BatchInit
  <1>2. Len(batches) = 0 /\ DOMAIN batches = {} /\ 1 .. 0 = {} BY <1>1
  <1>3. FlattenSeq(batches) = batches BY <1>2 DEF FlattenSeq
  <1>4. LimitsKept(batches) BY <1>1, CutNothing
  <1> QED BY <1>1, <1>2, <1>3, <1>4 DEF CutInv

LEMMA CutStep == CutNext => CutInv'
  <1> SUFFICES ASSUME NEW n \in 0 .. BatchRequests, NEW ps \in [1 .. n -> BatchPrompts], CreateBatches(ps)
               PROVE  CutInv'
    BY DEF CutNext
  <1>1. ps \in Seq(Nat) /\ Len(ps) \in Nat
    <2>1. n \in Nat /\ BatchPrompts \subseteq Nat BY BatchAssumption
    <2>2. ps \in [1 .. n -> Nat] BY <2>1
    <2> QED BY <2>1, <2>2
  <1> DEFINE cut == CHOOSE f : Cutting(f, ps, Len(ps))
  <1>2. prompts' = ps /\ batches' = cut[Len(ps)] BY DEF CreateBatches, Cutting
  <1>3. Cutting(cut, ps, Len(ps))
    <2>1. \E f : Cutting(f, ps, Len(ps)) BY <1>1, CuttingExists
    <2> QED BY <2>1, Zenon
  <1> HIDE DEF cut
  <1>4. (\E e : CutAt(ps, Len(ps), batches', e)) /\ LimitsKept(batches') BY <1>1, <1>2, <1>3, CuttingCuts
  <1>5. PICK e : CutAt(ps, Len(ps), batches', e) BY <1>4
  <1> DEFINE acc == batches'
  <1>6. CutAt(ps, Len(ps), acc, e) /\ LimitsKept(acc) BY <1>4, <1>5
  <1> HIDE DEF acc
  <1>7. FlattenSeq(acc) = ps /\ DOMAIN acc = 1 .. Len(acc) /\ \A i \in DOMAIN acc : acc[i] # <<>>
    BY <1>1, <1>6, CutFlattens
  <1>8. LimitsKept(batches)' BY <1>6 DEF acc, LimitsKept, WithinLimits, ClosedBy, BatchTokens
  <1> QED BY <1>2, <1>7, <1>8 DEF CutInv, acc

\* Whatever the requests and the limits, create_batches loses, repeats and
\* moves nothing, cuts no earlier than it must and keeps the limits, and
\* admit_pending fills the slots in the order of arrival and gives no request
\* to two of them (scheduler/batch.rs, scheduler/continuous.rs).
THEOREM BatchesCorrect == BatchSpec => []BatchesInOrder
  <1>1. BatchInit => BatchInv BY BatcherInitial, CutInitial DEF BatchInv
  <1>2. BatchInv /\ [CutNext \/ SlotNext]_batchVars => BatchInv'
    <2> SUFFICES ASSUME BatchInv, [CutNext \/ SlotNext]_batchVars PROVE BatchInv' OBVIOUS
    <2>1. BatcherInv /\ CutInv BY DEF BatchInv
    <2>2. ASSUME UNCHANGED <<slots, waiting, arrived, left>> PROVE BatcherInv'
      BY <2>1, <2>2 DEF BatcherInv, SlotsInv, WaitingInv, ServedInv, Running, Admitted
    <2>3. ASSUME UNCHANGED <<prompts, batches>> PROVE CutInv'
      BY <2>1, <2>3 DEF CutInv, LimitsKept, WithinLimits, ClosedBy, BatchTokens
    <2>4. CASE UNCHANGED batchVars BY <2>2, <2>3, <2>4 DEF batchVars, BatchInv
    <2>5. CASE CutNext
      <3>1. UNCHANGED <<slots, waiting, arrived, left>> BY <2>5 DEF CutNext, CreateBatches
      <3> QED BY <2>2, <2>5, <3>1, CutStep DEF BatchInv
    <2>6. CASE SlotNext
      <3>1. UNCHANGED <<prompts, batches>>
        BY <2>6 DEF SlotNext, EnqueuePending, AdmitPending, EvictCompleted, StepSlot
      <3>2. BatcherInv' BY <2>1, <2>6, EnqueueStep, AdmitStep, EvictStep, StepSlotStep DEF SlotNext
      <3> QED BY <2>3, <3>1, <3>2 DEF BatchInv
    <2> QED BY <2>4, <2>5, <2>6
  <1>3. BatchInv => BatchesInOrder
    <2> SUFFICES ASSUME BatchInv PROVE BatchesInOrder OBVIOUS
    <2>1. \A i \in DOMAIN batches :
            /\ Len(batches[i]) > MaxBatchSize \/ BatchTokens(batches[i]) > MaxBatchTokens => Len(batches[i]) = 1
            /\ i > 1 => ~ /\ Len(batches[i - 1]) < MaxBatchSize
                          /\ BatchTokens(batches[i - 1] \o <<batches[i][1]>>) <= MaxBatchTokens
      BY DEF BatchInv, CutInv, LimitsKept, WithinLimits, ClosedBy
    <2>2. \A i \in DOMAIN waiting : waiting[i] = arrived - Len(waiting) + i BY DEF BatchInv, BatcherInv, WaitingInv, Admitted
    <2>3. /\ Running \union left = 1 .. arrived - Len(waiting) /\ Running \intersect left = {}
          /\ \A i, k \in SlotIds : slots[i].request = slots[k].request /\ i # k => slots[i] = NoSlot
      BY DEF BatchInv, BatcherInv, ServedInv, Admitted
    <2>4. FlattenSeq(batches) = prompts /\ \A i \in DOMAIN batches : batches[i] # <<>> BY DEF BatchInv, CutInv
    <2> QED BY <2>1, <2>2, <2>3, <2>4 DEF BatchesInOrder
  <1> QED BY <1>1, <1>2, <1>3, PTL DEF BatchSpec
=============================================================================
