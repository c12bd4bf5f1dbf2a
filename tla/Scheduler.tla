------------------------------ MODULE Scheduler ------------------------------
(***************************************************************************)
(* The single inference worker (scheduler/worker.rs,                       *)
(* scheduler/worker_streaming.rs) over the request queue, with the         *)
(* engine's stop checks (engine/inference.rs, inference_streaming.rs).     *)
(*                                                                         *)
(* The worker is one task; its stage moves at every point where another    *)
(* task can run in between.  Security verdicts, admission by               *)
(* ResourceLimits and what the backend produces are data: each is a free   *)
(* choice.  Telemetry and the registry's request statistics are left out.  *)
(***************************************************************************)
EXTENDS RequestQueue

VARIABLES
    stage,     \* where worker_loop is
    current,   \* the request it executes
    result,    \* what the engine made of it
    shutdown,  \* the worker's cancellation token
    bypass     \* history: unary requests started while a stream was queued

workerVars == <<stage, current, result, shutdown, bypass>>
vars == <<queueVars, workerVars>>

NoResult == "failed"  \* out of scope

Stage == {"top", "select", "dequeue", "streamLen", "wait", "ingress", "admit",
          "run", "respond", "exited"}

Init ==
    /\ QueueInit
    /\ stage = "top" /\ current = Nobody /\ result = NoResult
    /\ shutdown = FALSE /\ bypass = [r \in Requests |-> 0]

TypeOK ==
    /\ QueueTypeOK
    /\ stage \in Stage
    /\ current \in Requests \cup {Nobody}
    /\ (stage \in {"ingress", "admit", "run", "respond"}) <=> current # Nobody
    /\ result \in Outcome
    /\ shutdown \in BOOLEAN
    /\ bypass \in [Requests -> Nat]

-----------------------------------------------------------------------------
(* worker_loop and wait_and_dequeue *)

\* dequeue_streaming: the streaming queue is served first, stale entries included.
TakeStream ==
    /\ stage = "top"
    /\ IF streaming = <<>>
       THEN stage' = "select" /\ UNCHANGED <<streaming, current>>
       ELSE /\ stage' = "ingress"
            /\ current' = Head(streaming)
            /\ streaming' = Tail(streaming)
    /\ UNCHANGED <<heap, nextSeq, queueLock, seen, caller, permit, flag, clock,
                   answers, result, shutdown, bypass>>

\* The biased select polls the shutdown token first.
Select ==
    /\ stage = "select"
    /\ stage' = IF shutdown THEN "exited" ELSE "dequeue"
    /\ UNCHANGED <<queueVars, current, result, shutdown, bypass>>

\* Mutant of ExitWhileWaiting: the token is only polled once per round.
ExitNowhere == FALSE

\* Shutdown drops wait_and_dequeue wherever it is suspended.
ExitWhileWaiting ==
    /\ stage \in {"dequeue", "streamLen", "wait"} /\ shutdown
    /\ stage' = "exited"
    /\ UNCHANGED <<queueVars, current, result, shutdown, bypass>>

StartUnary(e) ==
    /\ stage = "dequeue" /\ IsNext(e)
    /\ PopHeap({e})
    /\ stage' = "ingress" /\ current' = e.req
    /\ bypass' = [r \in Requests |->
                    bypass[r] + IF \E i \in 1..Len(streaming) : streaming[i] = r
                                THEN 1 ELSE 0]
    /\ UNCHANGED <<permit, result, shutdown>>

FindNothing ==
    /\ stage = "dequeue" /\ Live = {}
    /\ PopHeap({})
    /\ stage' = "streamLen"
    /\ UNCHANGED <<permit, current, result, shutdown, bypass>>

\* Mutant of CheckStreaming: the worker sleeps without looking.
SleepAtOnce ==
    /\ stage = "streamLen" /\ stage' = "wait"
    /\ UNCHANGED <<queueVars, current, result, shutdown, bypass>>

CheckStreaming ==
    /\ stage = "streamLen"
    /\ stage' = IF streaming # <<>> THEN "top" ELSE "wait"
    /\ UNCHANGED <<queueVars, current, result, shutdown, bypass>>

\* notified().await consumes the permit.
Wake ==
    /\ stage = "wait" /\ permit
    /\ permit' = FALSE /\ stage' = "dequeue"
    /\ UNCHANGED <<heap, nextSeq, streaming, queueLock, seen, caller, flag,
                   clock, answers, current, result, shutdown, bypass>>

-----------------------------------------------------------------------------
(* execute_request and worker_streaming::execute *)

\* Mutant of Answer: the loop goes on with the main queue.
AnswerThenSelect(o) ==
    /\ answers' = [answers EXCEPT ![current] = Append(@, o)]
    /\ stage' = "select" /\ current' = Nobody
    /\ UNCHANGED <<heap, nextSeq, streaming, queueLock, seen, caller, permit,
                   flag, clock, shutdown, bypass>>

\* Mutant of Answer: the request is not let go of.
AnswerAndKeep(o) ==
    /\ answers' = [answers EXCEPT ![current] = Append(@, o)]
    /\ stage' = "top" /\ current' = current
    /\ UNCHANGED <<heap, nextSeq, streaming, queueLock, seen, caller, permit,
                   flag, clock, shutdown, bypass>>

\* The request is answered with o and the loop goes round.
Answer(o) ==
    /\ answers' = [answers EXCEPT ![current] = Append(@, o)]
    /\ stage' = "top" /\ current' = Nobody
    /\ UNCHANGED <<heap, nextSeq, streaming, queueLock, seen, caller, permit,
                   flag, clock, shutdown, bypass>>

Advance(s) ==
    /\ stage' = s
    /\ UNCHANGED <<queueVars, current, shutdown, bypass>>

\* scan_ingress.
Ingress ==
    /\ stage = "ingress"
    /\ Answer("refused") \/ Advance("admit")
    /\ UNCHANGED result

\* The stop check, then acquire_guard.
Admit ==
    /\ stage = "admit"
    /\ \/ /\ current \in Unary /\ ShouldStop(current)
          /\ Answer(StopError(current))
       \/ /\ current \in Streams /\ Stale(current)
          /\ Answer(IF flag[current] THEN "cancelled" ELSE "timeout")
       \/ /\ IF current \in Unary THEN ~ShouldStop(current) ELSE ~Stale(current)
          /\ Answer("refused") \/ Advance("run")
    /\ UNCHANGED result

\* Mutant of RunUnary: the backend's result is returned unchecked.
RunUnaryUnchecked ==
    /\ stage = "run" /\ current \in Unary
    /\ result' \in {"ok", "timeout", "failed"}
    /\ Advance("respond")

\* run_controlled up to its last stop check: a stop wins over whatever the
\* backend returned.  A panic skips the checks and becomes ExecutionFailed; the
\* backend may end generation by its own time limit.
RunUnary ==
    /\ stage = "run" /\ current \in Unary
    /\ \/ ShouldStop(current) /\ result' = StopError(current)
       \/ ~ShouldStop(current) /\ result' \in {"ok", "timeout"}
       \/ result' = "failed"
    /\ Advance("respond")

\* run_stream_sync up to its stop check, which turns an Ok backend result into
\* an Error terminal.  A panic drops the sender without a terminal.
RunStream ==
    /\ stage = "run" /\ current \in Streams
    /\ \/ ~ShouldStop(current) /\ result' = "ok"
       \/ result' = "failed"
    /\ Advance("respond")

\* apply_egress, record_result and send_response; for a stream, sender.end.
Respond ==
    /\ stage = "respond"
    /\ Answer(result)
    /\ result' = NoResult

-----------------------------------------------------------------------------
\* run_ipc_server cancels the worker's token and calls wake().
RequestShutdown ==
    /\ ~shutdown
    /\ shutdown' = TRUE /\ permit' = TRUE
    /\ UNCHANGED <<heap, nextSeq, streaming, queueLock, seen, caller, flag,
                   clock, answers, stage, current, result, bypass>>

WorkerStep ==
    \/ TakeStream \/ Select \/ ExitWhileWaiting \/ FindNothing \/ CheckStreaming
    \/ Wake \/ Ingress \/ Admit \/ RunUnary \/ RunStream \/ Respond
    \/ \E e \in heap : StartUnary(e)

Environment == \E r \in Requests :
    /\ Tick(r) \/ CallerStops(r) \/ CancelQueued(r)
    /\ UNCHANGED workerVars

Callers == \E r \in Requests : CallerStep(r) /\ UNCHANGED workerVars

Next == Callers \/ WorkerStep \/ Environment \/ RequestShutdown

\* tokio polls a runnable task eventually and its mutex is first come, first served,
\* so an enqueue call and the worker never stop for ever where they can move.
Fairness ==
    /\ \A r \in Requests : WF_vars(CallerStep(r) /\ UNCHANGED workerVars)
    /\ WF_vars(WorkerStep)

Spec == Init /\ [][Next]_vars /\ Fairness

-----------------------------------------------------------------------------
(* Properties *)

\* Queue capacity: the two queues together never hold more than max_pending
\* requests, although enqueue_inner lets go of the streaming mutex between
\* counting and pushing (queue.rs, enqueue_inner and
\* enqueue_streaming_controlled).
CapacityRespected == Pending <= MaxPending

\* No lost wake-up: a worker that has gone to sleep in wait_and_dequeue while
\* either queue holds work has a permit stored, or an enqueue that has pushed
\* and is about to store one.
NoLostWakeup ==
    (stage = "wait" /\ (heap # {} \/ streaming # <<>>))
        => (permit \/ \E r \in Requests : caller[r] = "pushed")

\* Every request is answered at most once, and only the ones the queue took:
\* no path of dequeue, execute_request or worker_streaming::execute both rejects
\* a request and goes on with it, or finds it in the heap again.
AnsweredAtMostOnce ==
    \A r \in Requests :
        /\ Len(answers[r]) <= 1
        /\ answers[r] # <<>> =>
              /\ caller[r] \in {"pushed", "accepted"}
              /\ r # current
              /\ \A e \in heap : e.req # r
              /\ \A i \in 1..Len(streaming) : streaming[i] # r

\* The scheduler keeps the promise of RequestService: a request is answered once;
\* one that was stopped before the engine's last check - in the heap, in the
\* streaming queue or with the worker - never gets a success (request_control.rs,
\* inference.rs infer_controlled, inference_streaming.rs run_stream_sync); and
\* reject_unexecuted's fallback and the strict and non-strict deadline
\* comparisons never tell "cancelled" to a caller who did not cancel.
Won(r) == current = r /\ stage = "respond" /\ result = "ok"
Status(r) ==
    IF answers[r] # <<>> THEN answers[r][1]
    ELSE IF Won(r) THEN "won"
    ELSE IF caller[r] \in {"pushed", "accepted"} THEN "pending"
    ELSE IF caller[r] \in Refused THEN "turnedAway" ELSE "idle"
Signal(r) == (IF flag[r] THEN {"cancel"} ELSE {})
                \cup (IF DeadlineReached(r) THEN {"deadline"} ELSE {})
Service == INSTANCE RequestService WITH
    status <- [r \in Requests |-> Status(r)],
    signal <- [r \in Requests |-> Signal(r)]
KeepsPromise == Service!Spec

\* A queued stream is passed by at most one unary request: worker_loop looks at
\* the streaming queue again after every request.
StreamBypassedOnce == \A r \in Requests : bypass[r] <= 1

\* Whatever is cancelled, expires or is skipped, a caller is answered at most once
\* (dequeue, send_response), and a waiting stream lets at most the one unary request
\* pass that the worker had already chosen (worker_loop polls streams first).
ServedInTurn == AnsweredAtMostOnce /\ StreamBypassedOnce

\* Among live unary requests nobody is overtaken: the one taken has no live
\* request of higher priority, nor an earlier one of the same priority, behind
\* it in the heap (priority.rs cmp, queue.rs dequeue).
NoOvertaking ==
    [][\A r \in Unary :
         (current # r /\ current' = r) =>
            \A e, f \in heap :
               (e.req = r /\ f # e /\ f \in Live) =>
                  \/ PriorityOf[e.req] > PriorityOf[f.req]
                  \/ PriorityOf[e.req] = PriorityOf[f.req] /\ e.seq < f.seq]_vars

\* Unless the worker is told to stop, every request the queue accepted is
\* eventually answered.
AcceptedIsAnswered ==
    \A r \in Requests :
        caller[r] = "accepted" ~> (answers[r] # <<>> \/ shutdown)

\* A worker told to stop does stop, once the streams that were submitted have
\* been served.
WorkerStops == shutdown ~> stage = "exited"
=============================================================================
