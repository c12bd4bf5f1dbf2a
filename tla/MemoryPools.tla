----------------------------- MODULE MemoryPools -----------------------------
(***************************************************************************)
(* The allocators below the engine: bump arenas and the pool they come     *)
(* from (memory/arena.rs), the buffer pool (memory/pool.rs) and the        *)
(* reservation counter of GPU memory (memory/gpu.rs).                      *)
(*                                                                         *)
(* Tasks of the request that holds an arena allocate from it at the same   *)
(* time: each reads the offset and exchanges it in a later step.           *)
(***************************************************************************)
EXTENDS Naturals, Integers, Sequences, FiniteSets, Counting

CONSTANTS
    Tasks,
    ArenaSize,      \* Arena.capacity
    MaxArenas,      \* ArenaPool.max_arenas
    ArenaIds,       \* bound on the arenas made
    Layouts,        \* the sizes and alignments asked for
    GpuMax,         \* GpuMemoryConfig.max_bytes
    BufferIds       \* bound on the buffers made

ASSUME MemoryAssumption ==
    /\ IsFiniteSet(Tasks)
    /\ ArenaSize \in Nat /\ MaxArenas \in Nat /\ ArenaIds \in Nat
    /\ Layouts \subseteq [size : Nat, align : Nat \ {0}]
    /\ GpuMax \in Nat /\ BufferIds \in Nat

VARIABLES
    arenaOffset,    \* Arena.offset of each arena made
    arenaPool,      \* ArenaPool.arenas
    arenaHeld,      \* the arenas requests hold
    bump,           \* an alloc in progress: the arena, the offset read, the layout
    blocks,         \* the blocks handed out and not yet given up
    buffersIdle,    \* MemoryPool.buffers
    buffersOut,     \* the buffers in use
    buffersMade,
    gpuAllocated,   \* GpuMemory.allocated
    gpuTask         \* what each task has reserved and whether that is settled

arenaVars == <<arenaOffset, arenaPool, arenaHeld, bump, blocks>>
bufferVars == <<buffersIdle, buffersOut, buffersMade>>
gpuVars == <<gpuAllocated, gpuTask>>
memoryVars == <<arenaVars, bufferVars, gpuVars>>

NoBump == [arena |-> 0, seen |-> 0, size |-> 0, align |-> 1]
NoReservation == [at |-> "idle", bytes |-> 0]

MemoryInit ==
    /\ arenaOffset = <<>> /\ arenaPool = <<>> /\ arenaHeld = {} /\ blocks = {}
    /\ bump = [t \in Tasks |-> NoBump]
    /\ buffersIdle = <<>> /\ buffersOut = {} /\ buffersMade = 0
    /\ gpuAllocated = 0 /\ gpuTask = [t \in Tasks |-> NoReservation]

-----------------------------------------------------------------------------
(* Arenas *)

\* ArenaPool::acquire: the oldest idle arena, or a new one.
AcquireArena ==
    /\ IF arenaPool # <<>>
       THEN /\ arenaHeld' = arenaHeld \union {Head(arenaPool)}
            /\ arenaPool' = Tail(arenaPool)
            /\ UNCHANGED arenaOffset
       ELSE /\ Len(arenaOffset) < ArenaIds
            /\ arenaHeld' = arenaHeld \union {Len(arenaOffset) + 1}
            /\ arenaOffset' = Append(arenaOffset, 0)
            /\ UNCHANGED arenaPool
    /\ UNCHANGED <<bump, blocks, bufferVars, gpuVars>>

\* ArenaPool::release takes the arena by value, so nothing borrows from it;
\* a full pool drops it.
ReleaseArena(a) ==
    /\ a \in arenaHeld
    /\ \A b \in blocks : b.arena # a
    /\ \A t \in Tasks : bump[t].arena # a
    /\ arenaOffset' = [arenaOffset EXCEPT ![a] = 0]
    /\ arenaPool' = IF Len(arenaPool) < MaxArenas THEN Append(arenaPool, a) ELSE arenaPool
    /\ arenaHeld' = arenaHeld \ {a}
    /\ UNCHANGED <<bump, blocks, bufferVars, gpuVars>>

\* reset on a shared arena: the caller has given up every block, an alloc may
\* still be between its two steps.
ResetArena(a) ==
    /\ a \in arenaHeld /\ \A b \in blocks : b.arena # a
    /\ arenaOffset' = [arenaOffset EXCEPT ![a] = 0]
    /\ UNCHANGED <<arenaPool, arenaHeld, bump, blocks, bufferVars, gpuVars>>

LoadOffset(t, a, layout) ==
    /\ bump[t] = NoBump /\ a \in arenaHeld
    /\ bump' = [bump EXCEPT ![t] = [arena |-> a, seen |-> arenaOffset[a],
                                    size |-> layout.size, align |-> layout.align]]
    /\ UNCHANGED <<arenaOffset, arenaPool, arenaHeld, blocks, bufferVars, gpuVars>>

\* The next multiple of a power of two.
Aligned(n, align) == ((n + align - 1) \div align) * align
BumpBlock(t, b) ==
    [task |-> t, arena |-> b.arena, from |-> Aligned(b.seen, b.align), to |-> Aligned(b.seen, b.align) + b.size]

\* A slip: the exchange does not look whether the offset is still the one read.
StoreOffset(t) ==
    LET b == bump[t]
        block == BumpBlock(t, b)
    IN  /\ b # NoBump
        /\ bump' = [bump EXCEPT ![t] = NoBump]
        /\ IF block.to > ArenaSize THEN UNCHANGED <<arenaOffset, blocks>>
           ELSE /\ arenaOffset' = [arenaOffset EXCEPT ![b.arena] = block.to]
                /\ blocks' = blocks \union {block}
        /\ UNCHANGED <<arenaPool, arenaHeld, bufferVars, gpuVars>>

\* compare_exchange_weak: exhausted, done, or (also without a reason) read
\* again.
ExchangeOffset(t) ==
    LET b == bump[t]
        block == BumpBlock(t, b)
    IN  /\ b # NoBump
        /\ \/ /\ block.to > ArenaSize
              /\ bump' = [bump EXCEPT ![t] = NoBump]
              /\ UNCHANGED <<arenaOffset, blocks>>
           \/ /\ block.to <= ArenaSize /\ arenaOffset[b.arena] = b.seen
              /\ bump' = [bump EXCEPT ![t] = NoBump]
              /\ arenaOffset' = [arenaOffset EXCEPT ![b.arena] = block.to]
              /\ blocks' = blocks \union {block}
           \/ /\ block.to <= ArenaSize
              /\ bump' = [bump EXCEPT ![t].seen = arenaOffset[b.arena]]
              /\ UNCHANGED <<arenaOffset, blocks>>
        /\ UNCHANGED <<arenaPool, arenaHeld, bufferVars, gpuVars>>

\* An ArenaSlice goes out of scope; its bytes stay allocated until a reset.
DropBlocks(a) ==
    /\ \E b \in blocks : b.arena = a
    /\ blocks' = {b \in blocks : b.arena # a}
    /\ UNCHANGED <<arenaOffset, arenaPool, arenaHeld, bump, bufferVars, gpuVars>>

-----------------------------------------------------------------------------
(* Buffers and GPU reservations *)

AcquireBuffer ==
    /\ IF buffersIdle # <<>>
       THEN /\ buffersOut' = buffersOut \union {Head(buffersIdle)}
            /\ buffersIdle' = Tail(buffersIdle)
            /\ UNCHANGED buffersMade
       ELSE /\ buffersMade < BufferIds
            /\ buffersMade' = buffersMade + 1
            /\ buffersOut' = buffersOut \union {buffersMade + 1}
            /\ UNCHANGED buffersIdle
    /\ UNCHANGED <<arenaVars, gpuVars>>

\* A dropped buffer goes back whatever max_buffers says.
DropBuffer(b) ==
    /\ b \in buffersOut
    /\ buffersOut' = buffersOut \ {b}
    /\ buffersIdle' = Append(buffersIdle, b)
    /\ UNCHANGED <<buffersMade, arenaVars, gpuVars>>

\* reserve adds first and looks afterwards.
ReserveGpu(t, bytes) ==
    /\ gpuTask[t].at = "idle"
    /\ gpuAllocated' = gpuAllocated + bytes
    /\ gpuTask' = [gpuTask EXCEPT ![t] =
          [at |-> IF gpuAllocated + bytes > GpuMax THEN "refused" ELSE "granted", bytes |-> bytes]]
    /\ UNCHANGED <<arenaVars, bufferVars>>

\* A refused reservation is taken back, a granted one released.
ReturnGpu(t) ==
    /\ gpuTask[t].at # "idle"
    /\ gpuAllocated' = gpuAllocated - gpuTask[t].bytes
    /\ gpuTask' = [gpuTask EXCEPT ![t] = NoReservation]
    /\ UNCHANGED <<arenaVars, bufferVars>>

ArenaNext ==
    \/ AcquireArena
    \/ \E a \in arenaHeld : ReleaseArena(a) \/ ResetArena(a) \/ DropBlocks(a)
    \/ \E t \in Tasks :
          \/ (\E a \in arenaHeld, layout \in Layouts : LoadOffset(t, a, layout))
          \/ ExchangeOffset(t)

BufferNext == AcquireBuffer \/ \E b \in buffersOut : DropBuffer(b)
GpuNext == \E t \in Tasks : (\E n \in 1 .. GpuMax : ReserveGpu(t, n)) \/ ReturnGpu(t)

MemoryNext == ArenaNext \/ BufferNext \/ GpuNext

MemorySpec == MemoryInit /\ [][MemoryNext]_memoryVars

-----------------------------------------------------------------------------
(* Properties *)

\* Blocks that are in use at the same time do not overlap, and lie within
\* their arena.
BlocksDisjoint ==
    \A b, c \in blocks :
        /\ b.to <= ArenaSize
        /\ b.arena = c.arena /\ b # c => b.to <= c.from \/ c.to <= b.from

\* What is granted of the GPU is within the limit, although the counter is not
\* while refusals are taken back.
GrantsWithinGpu ==
    Total([t \in Tasks |-> gpuTask[t].bytes], {t \in Tasks : gpuTask[t].at = "granted"}) <= GpuMax

\* Nothing is in a pool twice or while it is in use.
Pooled(pool, out) ==
    \A i, j \in DOMAIN pool : pool[i] \notin out /\ (pool[i] = pool[j] => i = j)

\* No memory is handed out twice: blocks of an arena are disjoint however
\* allocations race with each other and with a reset between the two steps of
\* one of them, and arenas, buffers and GPU bytes have one holder (arena.rs,
\* alloc and release; pool.rs, drop; gpu.rs, reserve).
MemoryExclusive ==
    /\ BlocksDisjoint
    /\ GrantsWithinGpu
    /\ Pooled(arenaPool, arenaHeld)
    /\ Pooled(buffersIdle, buffersOut)
=============================================================================
