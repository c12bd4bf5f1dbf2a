------------------------------ MODULE ThreadPool ------------------------------
(***************************************************************************)
(* The work-stealing thread pool (scheduler/thread_pool.rs).  Every worker *)
(* has a queue behind a lock of its own, ordered by priority and then by   *)
(* the sequence number of the task.  A submitter takes its number, looks   *)
(* for the shortest queue one lock at a time and inserts; a worker takes   *)
(* the front of its own queue or the back of another's.                    *)
(*                                                                         *)
(* An idle worker waits with a timeout, so it looks again whether or not a *)
(* notification reached it.  The global queue takes tasks only from a pool *)
(* without workers: it stays empty.                                        *)
(***************************************************************************)
EXTENDS Naturals, Sequences, FiniteSets, SequencesExt

CONSTANTS
    PoolJobs,       \* the tasks, one submit_with_priority call each
    PoolThreads,    \* num_threads, 1 or more
    PoolQueueSizes, \* what queue_size may be
    JobPriorities   \* the priorities a task may have

PoolWorkers == 1 .. PoolThreads
NoJob == "noTask"

ASSUME ThreadAssumption ==
    /\ PoolThreads \in Nat \ {0} /\ PoolQueueSizes \subseteq Nat /\ JobPriorities \subseteq Nat
    /\ IsFiniteSet(PoolJobs) /\ NoJob \notin PoolJobs

VARIABLES
    poolQueue,     \* the queue of each worker
    taskSequence,  \* task_sequence
    poolShutdown,  \* shutdown
    job,           \* where each submission is: stage, priority, number, queue seen shortest
    thread,        \* where each worker is, and the task in its hands
    ran,           \* how often each task ran
    poolSize       \* queue_size

threadVars == <<poolQueue, taskSequence, poolShutdown, job, thread, ran, poolSize>>

JobNew == [at |-> "new", priority |-> 0, seq |-> 0, look |-> 1, best |-> 1,
           least |-> Cardinality(PoolJobs) + 1]
ThreadTop == [at |-> "top", job |-> NoJob, victim |-> 1]

ThreadInit ==
    /\ poolQueue = [w \in PoolWorkers |-> <<>>]
    /\ taskSequence = 0 /\ poolShutdown = FALSE
    /\ job = [j \in PoolJobs |-> JobNew]
    /\ thread = [w \in PoolWorkers |-> ThreadTop]
    /\ ran = [j \in PoolJobs |-> 0]
    /\ poolSize \in PoolQueueSizes

JobTo(j, at) == job' = [job EXCEPT ![j].at = at]
ThreadTo(w, at) == thread' = [thread EXCEPT ![w] = [ThreadTop EXCEPT !.at = at]]

\* submit_with_priority: a pool that shuts down refuses; else the number.
SubmitJob(j, priority) ==
    /\ job[j].at = "new"
    /\ IF poolShutdown THEN JobTo(j, "refused") /\ UNCHANGED taskSequence
       ELSE /\ job' = [job EXCEPT ![j].at = "look", ![j].priority = priority,
                                     ![j].seq = taskSequence]
            /\ taskSequence' = taskSequence + 1
    /\ UNCHANGED <<poolQueue, poolShutdown, thread, ran, poolSize>>

\* find_least_loaded_worker looks at one queue after the other.
LookAtQueue(j) ==
    LET w == job[j].look IN
    /\ job[j].at = "look"
    /\ job' = [job EXCEPT
         ![j].best = IF Len(poolQueue[w]) < job[j].least THEN w ELSE @,
         ![j].least = IF Len(poolQueue[w]) < @ THEN Len(poolQueue[w]) ELSE @,
         ![j].look = IF w < PoolThreads THEN w + 1 ELSE @,
         ![j].at = IF w < PoolThreads THEN @ ELSE "insert"]
    /\ UNCHANGED <<poolQueue, taskSequence, poolShutdown, thread, ran, poolSize>>

\* t runs after j: a lower priority, or the same and a later number.
RunsAfter(t, j) ==
    \/ job[t].priority < job[j].priority
    \/ job[t].priority = job[j].priority /\ job[t].seq > job[j].seq

\* A slip: the number is left out of the comparison.
InsertPositionByPriority(q, j) ==
    LET after == {i \in DOMAIN q : job[q[i]].priority < job[j].priority}
    IN  IF after = {} THEN Len(q) + 1 ELSE CHOOSE i \in after : \A k \in after : i <= k

\* The place of the first task that runs after j.
InsertPosition(q, j) ==
    LET after == {i \in DOMAIN q : RunsAfter(q[i], j)}
    IN  IF after = {} THEN Len(q) + 1 ELSE CHOOSE i \in after : \A k \in after : i <= k

InsertJob(j) ==
    LET q == poolQueue[job[j].best] IN
    /\ job[j].at = "insert"
    /\ IF Len(q) >= poolSize THEN JobTo(j, "refused") /\ UNCHANGED poolQueue
       ELSE /\ poolQueue' = [poolQueue EXCEPT ![job[j].best] = InsertAt(q, InsertPosition(q, j), j)]
            /\ JobTo(j, "queued")
    /\ UNCHANGED <<taskSequence, poolShutdown, thread, ran, poolSize>>

\* signal_shutdown, join and drop raise the flag and wake everybody; the last
\* two then wait for the workers.
SignalShutdown ==
    /\ ~poolShutdown /\ poolShutdown' = TRUE
    /\ UNCHANGED <<poolQueue, taskSequence, job, thread, ran, poolSize>>

-----------------------------------------------------------------------------
(* worker_loop *)

ThreadCheck(w) ==
    /\ thread[w].at = "top" /\ ThreadTo(w, IF poolShutdown THEN "exit" ELSE "own")
    /\ UNCHANGED <<poolQueue, taskSequence, poolShutdown, job, ran, poolSize>>

TakesJob(w, j) == thread' = [thread EXCEPT ![w] = [ThreadTop EXCEPT !.at = "run", !.job = j]]

\* The front of its own queue, without one the back of another's.
TakeOwn(w) ==
    /\ thread[w].at = "own"
    /\ IF poolQueue[w] = <<>>
       THEN ThreadTo(w, "steal") /\ UNCHANGED poolQueue
       ELSE /\ TakesJob(w, Head(poolQueue[w]))
            /\ poolQueue' = [poolQueue EXCEPT ![w] = Tail(@)]
    /\ UNCHANGED <<taskSequence, poolShutdown, job, ran, poolSize>>

\* A slip: a worker that dies takes its queue with it.
TryStealFromLiving(w) ==
    LET v == thread[w].victim
        nothing == v = w \/ poolQueue[v] = <<>> \/ thread[v].at = "dead"
    IN  /\ thread[w].at = "steal"
        /\ IF ~nothing
           THEN /\ TakesJob(w, Last(poolQueue[v]))
                /\ poolQueue' = [poolQueue EXCEPT ![v] = Front(@)]
           ELSE /\ UNCHANGED poolQueue
                /\ IF v < PoolThreads THEN thread' = [thread EXCEPT ![w].victim = @ + 1]
                   ELSE ThreadTo(w, "wait")
        /\ UNCHANGED <<taskSequence, poolShutdown, job, ran, poolSize>>

TrySteal(w) ==
    LET v == thread[w].victim
        nothing == v = w \/ poolQueue[v] = <<>>
    IN  /\ thread[w].at = "steal"
        /\ IF ~nothing
           THEN /\ TakesJob(w, Last(poolQueue[v]))
                /\ poolQueue' = [poolQueue EXCEPT ![v] = Front(@)]
           ELSE /\ UNCHANGED poolQueue
                /\ IF v < PoolThreads THEN thread' = [thread EXCEPT ![w].victim = @ + 1]
                   ELSE ThreadTo(w, "wait")
        /\ UNCHANGED <<taskSequence, poolShutdown, job, ran, poolSize>>

\* The task runs; one that panics takes its worker down.
RunJob(w) ==
    /\ thread[w].at = "run"
    /\ ran' = [ran EXCEPT ![thread[w].job] = @ + 1]
    /\ ThreadTo(w, "top") \/ ThreadTo(w, "dead")
    /\ UNCHANGED <<poolQueue, taskSequence, poolShutdown, job, poolSize>>

\* wait_timeout ends, by a notification or by itself.
ThreadWakes(w) ==
    /\ thread[w].at = "wait" /\ ThreadTo(w, "top")
    /\ UNCHANGED <<poolQueue, taskSequence, poolShutdown, job, ran, poolSize>>

ThreadStep(w) == ThreadCheck(w) \/ TakeOwn(w) \/ TrySteal(w) \/ RunJob(w) \/ ThreadWakes(w)
JobStep(j) == LookAtQueue(j) \/ InsertJob(j)

ThreadNext ==
    \/ \E w \in PoolWorkers : ThreadStep(w)
    \/ \E j \in PoolJobs : JobStep(j) \/ \E priority \in JobPriorities : SubmitJob(j, priority)
    \/ SignalShutdown

\* A live thread goes on running; nothing makes a caller submit or shut down.
ThreadFairness ==
    /\ \A w \in PoolWorkers : WF_threadVars(ThreadStep(w))
    /\ \A j \in PoolJobs : WF_threadVars(JobStep(j))

ThreadSpec == ThreadInit /\ [][ThreadNext]_threadVars /\ ThreadFairness

-----------------------------------------------------------------------------
(* Properties *)

InHand(j) == {w \in PoolWorkers : thread[w].job = j}
PlacesOf(j) == {p \in PoolWorkers \X (1 .. poolSize) :
                  p[2] \in DOMAIN poolQueue[p[1]] /\ poolQueue[p[1]][p[2]] = j}

\* Submitters that took their numbers in one order and reach a queue in
\* another leave it ordered, and stealing and popping neither lose nor repeat
\* a task: an accepted one is in one place, once (submit_with_priority,
\* worker_loop, try_steal).
TasksInOrder ==
    /\ \A w \in PoolWorkers : \A i, k \in DOMAIN poolQueue[w] :
          i < k => RunsAfter(poolQueue[w][k], poolQueue[w][i])
    /\ \A j \in PoolJobs : job[j].at = "queued" =>
          ran[j] + Cardinality(InHand(j)) + Cardinality(PlacesOf(j)) = 1

\* An accepted task runs unless the pool is shut down or panicking tasks took
\* every worker with them: a worker's queue is drained by the others after
\* it died, and a missed notification costs only the timeout.
AcceptedTaskRuns ==
    \A j \in PoolJobs : job[j].at = "queued" ~>
        ran[j] = 1 \/ poolShutdown \/ \A w \in PoolWorkers : thread[w].at = "dead"
=============================================================================
