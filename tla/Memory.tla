-------------------------------- MODULE Memory --------------------------------
(***************************************************************************)
(* The memory a request draws on: arenas, buffers and GPU reservations, and *)
(* the pages of the key/value cache.  The allocators and the cache share no *)
(* state and their steps interleave.                                       *)
(***************************************************************************)
EXTENDS MemoryPools, KvCache

requestMemoryVars == <<memoryVars, kvVars>>

RequestMemoryInit == MemoryInit /\ KvInit

RequestMemoryNext ==
    \/ MemoryNext /\ UNCHANGED kvVars
    \/ KvNext /\ UNCHANGED memoryVars

RequestMemorySpec == RequestMemoryInit /\ [][RequestMemoryNext]_requestMemoryVars

\* Nothing is handed out twice: blocks of an arena, buffers, GPU reservations and
\* pages of the KV cache, whose readers find what was written for them
\* (Arena::alloc, MemoryPool::acquire, GpuMemory::allocate, KvCacheManager).
MemoryIsExclusive == MemoryExclusive /\ PagesExclusive /\ ReadsUndisturbed
=============================================================================
