---------------------------- MODULE ResourceLimits ----------------------------
(***************************************************************************)
(* Admission by memory and concurrency (memory/limits.rs).  try_acquire    *)
(* reserves by adding to an atomic counter and gives back when the value   *)
(* it read was too high; every atomic operation is a step, so counters     *)
(* overshoot while somebody is about to give back.                         *)
(***************************************************************************)
EXTENDS Integers, FiniteSets

CONSTANTS
    Calls,          \* concurrent users of the limits
    MemoryOf,       \* [Calls -> Nat], bytes a call asks for
    MaxPerCall,     \* max_memory_per_call
    MaxTotal,       \* max_total_memory
    MaxConcurrent   \* max_concurrent

ASSUME LimitsAssumption ==
    /\ IsFiniteSet(Calls)
    /\ MemoryOf \in [Calls -> Nat]
    /\ MaxPerCall \in Nat /\ MaxTotal \in Nat /\ MaxConcurrent \in Nat

VARIABLES
    memory,      \* current_memory
    concurrent,  \* current_concurrent
    call         \* [Calls -> stage of try_acquire and of the guard]

limitsVars == <<memory, concurrent, call>>

\* reserved: memory is added; overMemory, overSlots: about to give back;
\* slotBack: the slot is given back, the memory not yet; held: a guard;
\* dropping: its memory is given back, its slot not yet.
CallStage == {"idle", "reserved", "overMemory", "overSlots", "slotBack", "held", "dropping"}

LimitsInit == memory = 0 /\ concurrent = 0 /\ call = [c \in Calls |-> "idle"]

LimitsTypeOK ==
    /\ memory \in Nat /\ concurrent \in Nat
    /\ call \in [Calls -> CallStage]

CallTo(c, s) == call' = [call EXCEPT ![c] = s]

-----------------------------------------------------------------------------
\* A call that asks for too much is refused without a trace.
RefusePerCall(c) ==
    /\ call[c] = "idle" /\ MemoryOf[c] > MaxPerCall
    /\ UNCHANGED limitsVars

\* Mutant of ReserveMemory: the total is compared before the own share is added.
ReserveMemoryOld(c) ==
    /\ call[c] = "idle" /\ MemoryOf[c] <= MaxPerCall
    /\ memory' = memory + MemoryOf[c]
    /\ CallTo(c, IF memory > MaxTotal THEN "overMemory" ELSE "reserved")
    /\ UNCHANGED concurrent

\* fetch_add of the memory; the test uses the value it returned.
ReserveMemory(c) ==
    /\ call[c] = "idle" /\ MemoryOf[c] <= MaxPerCall
    /\ memory' = memory + MemoryOf[c]
    /\ CallTo(c, IF memory + MemoryOf[c] > MaxTotal THEN "overMemory" ELSE "reserved")
    /\ UNCHANGED concurrent

\* MemoryExceeded: the reservation is taken back.
GiveBackMemory(c) ==
    /\ call[c] \in {"overMemory", "slotBack"}
    /\ memory' = memory - MemoryOf[c]
    /\ CallTo(c, "idle")
    /\ UNCHANGED concurrent

\* Mutant of ReserveSlot: off by one.
ReserveSlotOffByOne(c) ==
    /\ call[c] = "reserved"
    /\ concurrent' = concurrent + 1
    /\ CallTo(c, IF concurrent > MaxConcurrent THEN "overSlots" ELSE "held")
    /\ UNCHANGED memory

\* fetch_add of the slot.
ReserveSlot(c) ==
    /\ call[c] = "reserved"
    /\ concurrent' = concurrent + 1
    /\ CallTo(c, IF concurrent >= MaxConcurrent THEN "overSlots" ELSE "held")
    /\ UNCHANGED memory

\* Mutant of GiveBackSlot: the memory is forgotten.
GiveBackSlotOnly(c) ==
    /\ call[c] = "overSlots"
    /\ concurrent' = concurrent - 1
    /\ CallTo(c, "idle")
    /\ UNCHANGED memory

\* QueueFull: the slot is taken back, then the memory.
GiveBackSlot(c) ==
    /\ call[c] = "overSlots"
    /\ concurrent' = concurrent - 1
    /\ CallTo(c, "slotBack")
    /\ UNCHANGED memory

\* Drop of the guard: memory, then slot.
DropMemory(c) ==
    /\ call[c] = "held"
    /\ memory' = memory - MemoryOf[c]
    /\ CallTo(c, "dropping")
    /\ UNCHANGED concurrent

DropSlot(c) ==
    /\ call[c] = "dropping"
    /\ concurrent' = concurrent - 1
    /\ CallTo(c, "idle")
    /\ UNCHANGED memory

TryAcquire(c) ==
    \/ RefusePerCall(c) \/ ReserveMemory(c) \/ GiveBackMemory(c)
    \/ ReserveSlot(c) \/ GiveBackSlot(c)

Release(c) == DropMemory(c) \/ DropSlot(c)

LimitsNext == \E c \in Calls : TryAcquire(c) \/ Release(c)

LimitsSpec == LimitsInit /\ [][LimitsNext]_limitsVars

-----------------------------------------------------------------------------
(* Properties *)

In(stages) == {c \in Calls : call[c] \in stages}

\* The bytes the calls in S ask for, each a byte of its call, and their number.
Bytes(S) == UNION {{c} \X (1 .. MemoryOf[c]) : c \in S}
MemoryHeld(S) == Cardinality(Bytes(S))

\* The guards handed out never hold more memory than max_total_memory, although
\* the counter itself overshoots while a refused call gives back.
MemoryWithinLimit == MemoryHeld(In({"held"})) <= MaxTotal

\* No more than max_concurrent guards exist at a time, in whatever order calls
\* reserve, overshoot and give back.
SlotsWithinLimit == Cardinality(In({"held"})) <= MaxConcurrent

\* Nothing leaks: the counters are what the calls between reservation and return
\* have added, so both are zero again when everybody has left.
NothingLeaks ==
    /\ memory = MemoryHeld(In({"reserved", "overMemory", "overSlots", "slotBack", "held"}))
    /\ concurrent = Cardinality(In({"overSlots", "held", "dropping"}))

\* No more memory is reserved than the limit, and what no call holds is free
\* again (ResourceLimits::try_acquire and the guard's drop).
MemoryAccounted == MemoryWithinLimit /\ NothingLeaks
=============================================================================
