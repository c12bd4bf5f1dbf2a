------------------------------- MODULE Batching -------------------------------
(***************************************************************************)
(* Batching of requests: the batch processor that cuts a list of requests  *)
(* into batches (scheduler/batch.rs) and the continuous batcher that fills *)
(* slots as they become free (scheduler/continuous.rs).  Both are owned by *)
(* one caller, so their operations are atomic.  A request is its number in *)
(* the order of arrival; a prompt is its estimated tokens.                 *)
(***************************************************************************)
EXTENDS Integers, Sequences, FiniteSets, SequencesExt, Counting

CONSTANTS
    BatchRequests,   \* bound on the requests enqueued
    MaxBatchSize,    \* BatchConfig.max_batch_size
    MaxBatchTokens,  \* BatchConfig.max_total_tokens
    BatchPrompts,    \* the lengths of prompts
    BatchSlots,      \* max_slots
    MaxSlotTokens    \* bound on the max_tokens of a request

ASSUME BatchAssumption ==
    /\ BatchRequests \in Nat /\ MaxBatchSize \in Nat /\ MaxBatchTokens \in Nat
    /\ BatchPrompts \subseteq Nat /\ BatchSlots \in Nat /\ MaxSlotTokens \in Nat

VARIABLES
    prompts,   \* the prompt lengths handed to create_batches
    batches,   \* what it returned
    slots,     \* ContinuousBatcher.slots
    waiting,   \* ContinuousBatcher.pending
    arrived,   \* requests enqueued so far
    left       \* history: the requests evicted, in order

batchVars == <<prompts, batches, slots, waiting, arrived, left>>

NoSlot == [request |-> 0, phase |-> "Free", tokens |-> 0]
SlotIds == 1 .. BatchSlots

BatchInit ==
    /\ prompts = <<>> /\ batches = <<>>
    /\ slots = [i \in SlotIds |-> NoSlot]
    /\ waiting = <<>> /\ arrived = 0 /\ left = {}

-----------------------------------------------------------------------------
(* BatchProcessor *)

\* A token is estimated for every 4 bytes begun.
EstimatedTokens(p) == (p + 3) \div 4
BatchTokens(batch) == Total([i \in DOMAIN batch |-> EstimatedTokens(batch[i])], DOMAIN batch)

\* A slip: the request itself is not counted.
CanAddLate(batch, p) == Len(batch) < MaxBatchSize /\ BatchTokens(batch) <= MaxBatchTokens

CanAdd(batch, p) ==
    Len(batch) < MaxBatchSize /\ BatchTokens(batch) + EstimatedTokens(p) <= MaxBatchTokens

\* create_batches: a request that does not fit closes the batch, unless the
\* batch is empty; an oversized one is a batch of its own.
AddToBatches(acc, p) ==
    IF acc # <<>> /\ CanAdd(Last(acc), p)
    THEN [acc EXCEPT ![Len(acc)] = Append(@, p)]
    ELSE Append(acc, <<p>>)
CreateBatches(ps) ==
    LET cut[n \in 0 .. Len(ps)] == IF n = 0 THEN <<>> ELSE AddToBatches(cut[n - 1], ps[n]) IN
    /\ prompts' = ps
    /\ batches' = cut[Len(ps)]
    /\ UNCHANGED <<slots, waiting, arrived, left>>

-----------------------------------------------------------------------------
(* ContinuousBatcher *)

EnqueuePending ==
    /\ arrived < BatchRequests
    /\ arrived' = arrived + 1 /\ waiting' = Append(waiting, arrived + 1)
    /\ UNCHANGED <<prompts, batches, slots, left>>

\* A slip: the pending requests are taken from the back.
AdmitLast ==
    LET free == Ascending({i \in SlotIds : slots[i] = NoSlot})
        n == IF Len(free) < Len(waiting) THEN Len(free) ELSE Len(waiting)
        Rank(i) == CHOOSE k \in 1 .. n : free[k] = i
    IN  /\ n > 0
        /\ slots' = [i \in SlotIds |-> IF \E k \in 1 .. n : free[k] = i
              THEN [request |-> waiting[Len(waiting) + 1 - Rank(i)], phase |-> "Prefill", tokens |-> 0]
              ELSE slots[i]]
        /\ waiting' = SubSeq(waiting, 1, Len(waiting) - n)
        /\ UNCHANGED <<prompts, batches, arrived, left>>

\* admit_pending: every free slot, in order, takes the front of the queue.
AdmitPending ==
    LET free == Ascending({i \in SlotIds : slots[i] = NoSlot})
        n == IF Len(free) < Len(waiting) THEN Len(free) ELSE Len(waiting)
        Rank(i) == CHOOSE k \in 1 .. n : free[k] = i
    IN  /\ n > 0
        /\ slots' = [i \in SlotIds |-> IF \E k \in 1 .. n : free[k] = i
              THEN [request |-> waiting[Rank(i)], phase |-> "Prefill", tokens |-> 0]
              ELSE slots[i]]
        /\ waiting' = SubSeq(waiting, n + 1, Len(waiting))
        /\ UNCHANGED <<prompts, batches, arrived, left>>

\* What a step of the engine does to a slot: finish_prefill, record_token,
\* mark_complete.
StepSlot(i) ==
    /\ slots[i].phase \in {"Prefill", "Decode"}
    /\ \/ slots[i].phase = "Prefill" /\ slots' = [slots EXCEPT ![i].phase = "Decode"]
       \/ /\ slots[i].phase = "Decode" /\ slots[i].tokens < MaxSlotTokens
          /\ slots' = [slots EXCEPT ![i].tokens = @ + 1]
       \/ slots' = [slots EXCEPT ![i].phase = "Complete"]
    /\ UNCHANGED <<prompts, batches, waiting, arrived, left>>

EvictCompleted ==
    LET done == {i \in SlotIds : slots[i].phase = "Complete"} IN
    /\ done # {}
    /\ slots' = [i \in SlotIds |-> IF i \in done THEN NoSlot ELSE slots[i]]
    /\ left' = left \union {slots[i].request : i \in done}
    /\ UNCHANGED <<prompts, batches, waiting, arrived>>

CutNext == \E n \in 0 .. BatchRequests : \E ps \in [1 .. n -> BatchPrompts] : CreateBatches(ps)
SlotNext == EnqueuePending \/ AdmitPending \/ EvictCompleted \/ \E i \in SlotIds : StepSlot(i)
BatchSpec == BatchInit /\ [][CutNext \/ SlotNext]_batchVars

-----------------------------------------------------------------------------
(* Properties *)

Running == {slots[i].request : i \in {i \in SlotIds : slots[i] # NoSlot}}

\* Batches are the requests, cut: nothing is lost, repeated or moved, no batch
\* is over its limits unless it is one request, and none could have
\* taken the request that follows it.  Slots are filled in the order of
\* arrival, so a request waits only for earlier ones (batch.rs,
\* create_batches; continuous.rs, admit_pending).
BatchesInOrder ==
    /\ FlattenSeq(batches) = prompts
    /\ \A i \in DOMAIN batches :
          /\ batches[i] # <<>>
          /\ Len(batches[i]) > MaxBatchSize \/ BatchTokens(batches[i]) > MaxBatchTokens
                => Len(batches[i]) = 1
          /\ i > 1 => ~ /\ Len(batches[i - 1]) < MaxBatchSize
                        /\ BatchTokens(batches[i - 1] \o <<batches[i][1]>>) <= MaxBatchTokens
    /\ \A i \in DOMAIN waiting : waiting[i] = arrived - Len(waiting) + i
    /\ Running \union left = 1 .. arrived - Len(waiting)
    /\ Running \intersect left = {}
    /\ \A i, k \in SlotIds : slots[i].request = slots[k].request /\ i # k => slots[i] = NoSlot
=============================================================================
