---------------------------- MODULE ResourceProofs ----------------------------
(***************************************************************************)
(* Proofs about the memory requests share, for any number of callers,      *)
(* sequences, pages, keys and prompts.                                     *)
(*                                                                         *)
(* Memory: blocks of an arena, pooled buffers, GPU reservations and pages  *)
(* of the key/value cache have one holder each, and a read of the cache    *)
(* returns what was appended unless something the code admits of came      *)
(* between.  Caches: maps stay within their size unless two stores         *)
(* overlapped, and the prompt cache holds the prompts used last.           *)
(***************************************************************************)
EXTENDS Memory, Caches, CountingLemmas

LEMMA RemovedOnce ==
  ASSUME NEW S, NEW q \in Seq(S), NEW e,
         \A i, j \in 1 .. Len(q) : q[i] = q[j] => i = j
  PROVE  LET r == RemoveFirst(q, e) IN
         /\ r \in Seq(S)
         /\ \/ (\A i \in 1 .. Len(q) : q[i] # e) /\ r = q
            \/ \E k \in 1 .. Len(q) :
                 /\ q[k] = e /\ Len(r) = Len(q) - 1
                 /\ \A i \in 1 .. Len(r) : r[i] = IF i < k THEN q[i] ELSE q[i + 1]
  <1>1. CASE \A i \in 1 .. Len(q) : q[i] # e BY <1>1 DEF RemoveFirst
  <1>2. ASSUME NEW k \in 1 .. Len(q), q[k] = e
        PROVE  RemoveFirst(q, e) = SubSeq(q, 1, k - 1) \o SubSeq(q, k + 1, Len(q))
    <2> DEFINE I == {i \in 1 .. Len(q) : q[i] = e}
    <2>1. I = {k} BY <1>2
    <2>2. SelectInSeq(q, LAMBDA v : v = e) = Min(I) BY <2>1 DEF SelectInSeq
    <2>3. Min(I) = k BY <2>1 DEF Min
    <2>4. RemoveFirst(q, e) = RemoveAt(q, k) BY <1>2, <2>2, <2>3 DEF RemoveFirst
    <2> QED BY <2>4 DEF RemoveAt
  <1>3. ASSUME NEW k \in 1 .. Len(q), q[k] = e
        PROVE  LET r == RemoveFirst(q, e) IN
               /\ r \in Seq(S) /\ Len(r) = Len(q) - 1
               /\ \A i \in 1 .. Len(r) : r[i] = IF i < k THEN q[i] ELSE q[i + 1]
    <2> DEFINE a == SubSeq(q, 1, k - 1)
               b == SubSeq(q, k + 1, Len(q))
    <2>1. /\ a \in Seq(S) /\ Len(a) = k - 1 /\ \A i \in 1 .. k - 1 : a[i] = q[i]
          /\ b \in Seq(S) /\ Len(b) = Len(q) - k /\ \A i \in 1 .. Len(q) - k : b[i] = q[i + k]
      OBVIOUS
    <2>2. RemoveFirst(q, e) = a \o b BY <1>2, <1>3
    <2> HIDE DEF a, b
    <2>3. a \o b \in Seq(S) /\ Len(a \o b) = Len(q) - 1 BY <2>1
    <2>4. ASSUME NEW i \in 1 .. Len(a \o b) PROVE (a \o b)[i] = IF i < k THEN q[i] ELSE q[i + 1]
      <3>1. (a \o b)[i] = IF i <= Len(a) THEN a[i] ELSE b[i - Len(a)] BY <2>1, <2>3
      <3>2. CASE i < k BY <2>1, <3>1, <3>2
      <3>3. CASE ~(i < k)
        <4>1. i - Len(a) \in 1 .. Len(q) - k /\ (i - Len(a)) + k = i + 1 /\ ~(i <= Len(a)) BY <2>1, <2>3, <3>3
        <4> QED BY <2>1, <3>1, <3>3, <4>1
      <3> QED BY <3>2, <3>3
    <2> QED BY <2>2, <2>3, <2>4
  <1> QED BY <1>1, <1>3

-----------------------------------------------------------------------------
(* Arenas, buffers and GPU reservations *)

Bump == [arena : Nat, seen : Nat, size : Nat, align : Nat \ {0}]
Block == [task : Tasks, arena : Nat, from : Nat, to : Nat]

\* Blocks lie below the offset of their arena, so the next block, which begins at
\* the offset or above, overlaps none of them.
BlocksBelowOffset ==
    \A b \in blocks : b.arena \in 1 .. Len(arenaOffset) /\ b.from <= b.to /\ b.to <= arenaOffset[b.arena]

ArenaInv ==
    /\ arenaOffset \in Seq(Nat)
    /\ arenaPool \in Seq(1 .. Len(arenaOffset)) /\ arenaHeld \subseteq 1 .. Len(arenaOffset)
    /\ bump \in [Tasks -> Bump]
    /\ \A t \in Tasks : bump[t] # NoBump => bump[t].arena \in 1 .. Len(arenaOffset)
    /\ blocks \subseteq Block
    /\ BlocksBelowOffset /\ BlocksDisjoint /\ Pooled(arenaPool, arenaHeld)

BufferInv ==
    /\ buffersMade \in Nat
    /\ buffersIdle \in Seq(1 .. buffersMade) /\ buffersOut \subseteq 1 .. buffersMade
    /\ Pooled(buffersIdle, buffersOut)

LEMMA AlignedUp ==
  ASSUME NEW n \in Nat, NEW a \in Nat \ {0}
  PROVE  Aligned(n, a) \in Nat /\ n <= Aligned(n, a)
  <1> DEFINE m == n + a - 1
             d == m \div a
             r == m % a
  <1>1. m \in Nat OBVIOUS
  <1>2. d \in Nat /\ r \in Nat /\ r < a /\ m = a * d + r BY <1>1
  <1>3. a * d = d * a /\ a * d \in Nat BY <1>2
  <1> QED BY <1>2, <1>3 DEF Aligned

LEMMA ArenasInitial == MemoryInit => ArenaInv
  <1> SUFFICES ASSUME MemoryInit PROVE ArenaInv OBVIOUS
  <1>1. NoBump \in Bump BY DEF NoBump, Bump
  <1>2. BlocksBelowOffset /\ BlocksDisjoint /\ Pooled(arenaPool, arenaHeld)
    BY DEF MemoryInit, BlocksBelowOffset, BlocksDisjoint, Pooled
  <1> QED BY <1>1, <1>2 DEF MemoryInit, ArenaInv

\* Taking the head of a pool, or something new, and giving something back.
LEMMA PoolTakesHead ==
  ASSUME NEW S, NEW pool \in Seq(S), NEW out, Pooled(pool, out), pool # <<>>
  PROVE  Head(pool) \in S /\ Tail(pool) \in Seq(S) /\ Pooled(Tail(pool), out \union {Head(pool)})
  <1> DEFINE rest == Tail(pool)
  <1>1. Head(pool) = pool[1] /\ 1 \in DOMAIN pool /\ Head(pool) \in S OBVIOUS
  <1>2. rest \in Seq(S) /\ \A i \in DOMAIN rest : rest[i] = pool[i + 1] /\ i + 1 \in DOMAIN pool /\ i \in Nat /\ i + 1 # 1 OBVIOUS
  <1> HIDE DEF rest
  <1>3. ASSUME NEW i \in DOMAIN rest, NEW j \in DOMAIN rest
        PROVE  rest[i] \notin out \union {Head(pool)} /\ (rest[i] = rest[j] => i = j)
    <2>1. rest[i] \notin out BY <1>2 DEF Pooled
    <2>2. rest[i] # Head(pool) BY <1>1, <1>2 DEF Pooled
    <2>3. rest[i] = rest[j] => i + 1 = j + 1 BY <1>2 DEF Pooled
    <2> QED BY <1>2, <2>1, <2>2, <2>3
  <1>4. Pooled(rest, out \union {Head(pool)}) BY <1>3 DEF Pooled
  <1> QED BY <1>1, <1>2, <1>4 DEF rest

LEMMA PoolGetsBack ==
  ASSUME NEW S, NEW pool \in Seq(S), NEW out, Pooled(pool, out), NEW x \in S, x \in out
  PROVE  /\ Append(pool, x) \in Seq(S) /\ Pooled(Append(pool, x), out \ {x})
         /\ Pooled(pool, out \ {x})
  <1> DEFINE more == Append(pool, x)
  <1>1. /\ more \in Seq(S) /\ Len(more) = Len(pool) + 1 /\ Len(pool) \in Nat
        /\ DOMAIN more = 1 .. Len(more) /\ DOMAIN pool = 1 .. Len(pool)
        /\ more[Len(pool) + 1] = x /\ \A i \in 1 .. Len(pool) : more[i] = pool[i]
    OBVIOUS
  <1> HIDE DEF more
  <1>2. \A i \in DOMAIN pool : pool[i] # x BY DEF Pooled
  <1>3. ASSUME NEW i \in DOMAIN more, NEW j \in DOMAIN more
        PROVE  more[i] \notin out \ {x} /\ (more[i] = more[j] => i = j)
    <2>1. CASE i \in DOMAIN pool /\ j \in DOMAIN pool BY <1>1, <2>1 DEF Pooled
    <2>2. CASE i = Len(pool) + 1 /\ j = Len(pool) + 1 BY <1>1, <2>2
    <2>3. CASE i = Len(pool) + 1 /\ j \in DOMAIN pool BY <1>1, <1>2, <2>3
    <2>4. CASE i \in DOMAIN pool /\ j = Len(pool) + 1
      <3>1. more[i] \notin out BY <1>1, <2>4 DEF Pooled
      <3> QED BY <1>1, <1>2, <2>4, <3>1
    <2> QED BY <1>1, <2>1, <2>2, <2>3, <2>4
  <1>4. Pooled(more, out \ {x}) BY <1>3 DEF Pooled
  <1>5. Pooled(pool, out \ {x}) BY DEF Pooled
  <1> QED BY <1>1, <1>4, <1>5 DEF more

LEMMA AcquireArenaStep == ASSUME ArenaInv, AcquireArena PROVE ArenaInv'
  <1>1. arenaPool \in Seq(1 .. Len(arenaOffset)) /\ arenaOffset \in Seq(Nat) /\ Pooled(arenaPool, arenaHeld) BY DEF ArenaInv
  <1>2. CASE arenaPool # <<>>
    <2>1. /\ Head(arenaPool) \in 1 .. Len(arenaOffset) /\ Tail(arenaPool) \in Seq(1 .. Len(arenaOffset))
          /\ Pooled(Tail(arenaPool), arenaHeld \union {Head(arenaPool)})
      BY <1>1, <1>2, PoolTakesHead
    <2>2. /\ arenaPool' = Tail(arenaPool) /\ arenaHeld' = arenaHeld \union {Head(arenaPool)}
          /\ UNCHANGED <<arenaOffset, bump, blocks>>
      BY <1>2 DEF AcquireArena
    <2>3. BlocksBelowOffset' /\ BlocksDisjoint' BY <2>2 DEF ArenaInv, BlocksBelowOffset, BlocksDisjoint
    <2>4. Pooled(arenaPool, arenaHeld)' BY <2>1, <2>2
    <2> QED BY <2>1, <2>2, <2>3, <2>4 DEF ArenaInv
  <1>3. CASE arenaPool = <<>>
    <2> DEFINE n == Len(arenaOffset)
    <2>1. /\ arenaHeld' = arenaHeld \union {n + 1} /\ arenaOffset' = Append(arenaOffset, 0)
          /\ UNCHANGED <<arenaPool, bump, blocks>>
      BY <1>3 DEF AcquireArena
    <2>2. /\ n \in Nat /\ arenaOffset' \in Seq(Nat) /\ Len(arenaOffset') = n + 1
          /\ \A a \in 1 .. n : arenaOffset'[a] = arenaOffset[a]
      BY <1>1, <2>1
    <2>3. 1 .. n \subseteq 1 .. n + 1 /\ n + 1 \in 1 .. n + 1 BY <2>2
    <2> HIDE DEF n
    <2>4. BlocksBelowOffset' BY <2>1, <2>2, <2>3 DEF ArenaInv, BlocksBelowOffset, n
    <2>5. BlocksDisjoint' BY <2>1 DEF ArenaInv, BlocksDisjoint
    <2>6. Pooled(arenaPool, arenaHeld)' /\ arenaPool' \in Seq(1 .. n + 1) BY <1>3, <2>1 DEF Pooled
    <2>7. arenaHeld' \subseteq 1 .. n + 1 BY <2>1, <2>3 DEF ArenaInv, n
    <2>8. \A t \in Tasks : bump'[t] # NoBump => bump'[t].arena \in 1 .. n + 1 BY <2>1, <2>3 DEF ArenaInv, n
    <2> QED BY <2>1, <2>2, <2>4, <2>5, <2>6, <2>7, <2>8 DEF ArenaInv
  <1> QED BY <1>2, <1>3

\* An arena without blocks begins again.
LEMMA OffsetRestarts ==
  ASSUME ArenaInv, NEW a \in arenaHeld, \A b \in blocks : b.arena # a,
         arenaOffset' = [arenaOffset EXCEPT ![a] = 0], UNCHANGED <<bump, blocks>>
  PROVE  /\ arenaOffset' \in Seq(Nat) /\ Len(arenaOffset') = Len(arenaOffset)
         /\ BlocksBelowOffset' /\ BlocksDisjoint'
  <1>1. /\ arenaOffset' \in Seq(Nat) /\ Len(arenaOffset') = Len(arenaOffset)
        /\ \A k \in 1 .. Len(arenaOffset) : k # a => arenaOffset'[k] = arenaOffset[k]
    BY DEF ArenaInv
  <1>2. BlocksBelowOffset' BY <1>1 DEF ArenaInv, BlocksBelowOffset
  <1>3. BlocksDisjoint' BY DEF ArenaInv, BlocksDisjoint
  <1> QED BY <1>1, <1>2, <1>3

LEMMA ReleaseArenaStep == ASSUME ArenaInv, NEW a \in arenaHeld, ReleaseArena(a) PROVE ArenaInv'
  <1>1. /\ arenaOffset' \in Seq(Nat) /\ Len(arenaOffset') = Len(arenaOffset)
        /\ BlocksBelowOffset' /\ BlocksDisjoint'
    BY OffsetRestarts DEF ReleaseArena
  <1>2. a \in 1 .. Len(arenaOffset) /\ arenaPool \in Seq(1 .. Len(arenaOffset)) /\ Pooled(arenaPool, arenaHeld) BY DEF ArenaInv
  <1>3. /\ Append(arenaPool, a) \in Seq(1 .. Len(arenaOffset)) /\ Pooled(Append(arenaPool, a), arenaHeld \ {a})
        /\ Pooled(arenaPool, arenaHeld \ {a})
    BY <1>2, PoolGetsBack
  <1>4. arenaPool' \in Seq(1 .. Len(arenaOffset)) /\ Pooled(arenaPool, arenaHeld)' BY <1>2, <1>3 DEF ReleaseArena
  <1> QED BY <1>1, <1>4 DEF ReleaseArena, ArenaInv

LEMMA ResetArenaStep == ASSUME ArenaInv, NEW a \in arenaHeld, ResetArena(a) PROVE ArenaInv'
  <1>1. /\ arenaOffset' \in Seq(Nat) /\ Len(arenaOffset') = Len(arenaOffset)
        /\ BlocksBelowOffset' /\ BlocksDisjoint'
    BY OffsetRestarts DEF ResetArena
  <1> QED BY <1>1 DEF ResetArena, ArenaInv

LEMMA LoadOffsetStep ==
  ASSUME ArenaInv, NEW t \in Tasks, NEW a \in arenaHeld, NEW layout \in Layouts, LoadOffset(t, a, layout)
  PROVE  ArenaInv'
  <1> DEFINE b == [arena |-> a, seen |-> arenaOffset[a], size |-> layout.size, align |-> layout.align]
  <1>1. a \in 1 .. Len(arenaOffset) /\ arenaOffset[a] \in Nat BY DEF ArenaInv
  <1>2. layout.size \in Nat /\ layout.align \in Nat \ {0} BY MemoryAssumption
  <1>3. b \in Bump /\ b.arena = a BY <1>1, <1>2 DEF Bump
  <1>4. bump' = [bump EXCEPT ![t] = b] /\ UNCHANGED <<arenaOffset, arenaPool, arenaHeld, blocks>> BY DEF LoadOffset
  <1> HIDE DEF b
  <1>5. bump' \in [Tasks -> Bump] BY <1>3, <1>4 DEF ArenaInv
  <1>6. \A u \in Tasks : bump'[u] # NoBump => bump'[u].arena \in 1 .. Len(arenaOffset)
    BY <1>1, <1>3, <1>4 DEF ArenaInv
  <1>7. BlocksBelowOffset' /\ BlocksDisjoint' BY <1>4 DEF ArenaInv, BlocksBelowOffset, BlocksDisjoint
  <1> QED BY <1>4, <1>5, <1>6, <1>7 DEF ArenaInv

LEMMA ExchangeOffsetStep == ASSUME ArenaInv, NEW t \in Tasks, ExchangeOffset(t) PROVE ArenaInv'
  <1> DEFINE b == bump[t]
             block == BumpBlock(t, b)
  <1>1. b \in Bump /\ b # NoBump /\ b.arena \in 1 .. Len(arenaOffset) /\ arenaOffset[b.arena] \in Nat
    BY DEF ExchangeOffset, ArenaInv
  <1>2. Aligned(b.seen, b.align) \in Nat /\ b.seen <= Aligned(b.seen, b.align) /\ b.size \in Nat
    <2>1. b.seen \in Nat /\ b.align \in Nat \ {0} /\ b.size \in Nat BY <1>1 DEF Bump
    <2> QED BY <2>1, AlignedUp
  <1>3. /\ block \in Block /\ block.arena = b.arena /\ b.seen <= block.from /\ block.from <= block.to
        /\ block.from \in Nat /\ block.to \in Nat /\ b.seen \in Nat
    BY <1>1, <1>2 DEF BumpBlock, Block, Bump
  <1>4. NoBump \in Bump BY DEF NoBump, Bump
  <1>5. ASSUME NEW c \in Bump, bump' = [bump EXCEPT ![t] = c], c # NoBump => c.arena = b.arena
        PROVE  /\ bump' \in [Tasks -> Bump]
               /\ \A u \in Tasks : bump'[u] # NoBump => bump'[u].arena \in 1 .. Len(arenaOffset)
    BY <1>1, <1>5 DEF ArenaInv
  <1>6. ASSUME UNCHANGED <<arenaOffset, blocks>> PROVE BlocksBelowOffset' /\ BlocksDisjoint'
    BY <1>6 DEF ArenaInv, BlocksBelowOffset, BlocksDisjoint
  <1>7. UNCHANGED <<arenaPool, arenaHeld>> BY DEF ExchangeOffset
  <1>8. CASE block.to > ArenaSize /\ bump' = [bump EXCEPT ![t] = NoBump] /\ UNCHANGED <<arenaOffset, blocks>>
    BY <1>4, <1>5, <1>6, <1>7, <1>8 DEF ArenaInv
  <1>9. CASE bump' = [bump EXCEPT ![t].seen = arenaOffset[b.arena]] /\ UNCHANGED <<arenaOffset, blocks>>
    <2> DEFINE c == [b EXCEPT !.seen = arenaOffset[b.arena]]
    <2>1. c \in Bump /\ c.arena = b.arena BY <1>1 DEF Bump
    <2>2. bump' = [bump EXCEPT ![t] = c] BY <1>9 DEF ArenaInv
    <2> HIDE DEF c
    <2> QED BY <1>5, <1>6, <1>7, <1>9, <2>1, <2>2 DEF ArenaInv
  <1>10. CASE /\ block.to <= ArenaSize /\ arenaOffset[b.arena] = b.seen
              /\ bump' = [bump EXCEPT ![t] = NoBump]
              /\ arenaOffset' = [arenaOffset EXCEPT ![b.arena] = block.to]
              /\ blocks' = blocks \union {block}
    <2> HIDE DEF block
    <2>1. /\ arenaOffset' \in Seq(Nat) /\ Len(arenaOffset') = Len(arenaOffset)
          /\ arenaOffset'[b.arena] = block.to
          /\ \A k \in 1 .. Len(arenaOffset) : k # b.arena => arenaOffset'[k] = arenaOffset[k]
      BY <1>1, <1>3, <1>10 DEF ArenaInv
    <2>2. ASSUME NEW c \in blocks
          PROVE  /\ c \in Block /\ c.from \in Nat /\ c.to \in Nat /\ c.from <= c.to
                 /\ c.arena \in 1 .. Len(arenaOffset) /\ c.to <= arenaOffset[c.arena]
      BY DEF ArenaInv, BlocksBelowOffset, Block
    <2>3. BlocksBelowOffset'
      <3> SUFFICES ASSUME NEW c \in blocks'
                   PROVE c.arena \in 1 .. Len(arenaOffset') /\ c.from <= c.to /\ c.to <= arenaOffset'[c.arena]
        BY DEF BlocksBelowOffset
      <3>1. CASE c = block BY <1>1, <1>3, <2>1, <3>1
      <3>2. CASE c \in blocks /\ c.arena = b.arena BY <1>3, <1>10, <2>1, <2>2, <3>2
      <3>3. CASE c \in blocks /\ c.arena # b.arena BY <2>1, <2>2, <3>3
      <3> QED BY <1>10, <3>1, <3>2, <3>3
    <2>4. \A c \in blocks : c.arena = block.arena => c.to <= block.from BY <1>3, <1>10, <2>2
    <2>5. BlocksDisjoint'
      <3> SUFFICES ASSUME NEW c \in blocks', NEW d \in blocks'
                   PROVE  c.to <= ArenaSize /\ (c.arena = d.arena /\ c # d => c.to <= d.from \/ d.to <= c.from)
        BY DEF BlocksDisjoint
      <3>1. CASE c \in blocks /\ d \in blocks BY <3>1 DEF ArenaInv, BlocksDisjoint
      <3>2. CASE c = block /\ d = block BY <1>10, <3>2
      <3>3. CASE c = block /\ d \in blocks BY <1>10, <2>4, <3>3
      <3>4. CASE c \in blocks /\ d = block
        <4>1. c.to <= ArenaSize BY <3>4 DEF ArenaInv, BlocksDisjoint
        <4> QED BY <2>4, <3>4, <4>1
      <3> QED BY <1>10, <3>1, <3>2, <3>3, <3>4
    <2>6. blocks' \subseteq Block BY <1>3, <1>10 DEF ArenaInv
    <2> QED BY <1>4, <1>5, <1>7, <1>10, <2>1, <2>3, <2>5, <2>6 DEF ArenaInv
  <1> QED BY <1>8, <1>9, <1>10 DEF ExchangeOffset

LEMMA DropBlocksStep == ASSUME ArenaInv, NEW a, DropBlocks(a) PROVE ArenaInv'
  <1>1. blocks' \subseteq blocks /\ UNCHANGED <<arenaOffset, arenaPool, arenaHeld, bump>> BY DEF DropBlocks
  <1>2. BlocksBelowOffset' /\ BlocksDisjoint' BY <1>1 DEF ArenaInv, BlocksBelowOffset, BlocksDisjoint
  <1> QED BY <1>1, <1>2 DEF ArenaInv

LEMMA ArenasStep == ArenaInv /\ [MemoryNext]_memoryVars => ArenaInv'
  <1> SUFFICES ASSUME ArenaInv, [MemoryNext]_memoryVars PROVE ArenaInv' OBVIOUS
  <1>1. CASE UNCHANGED arenaVars
    BY <1>1 DEF arenaVars, ArenaInv, BlocksBelowOffset, BlocksDisjoint
  <1>2. CASE ArenaNext
    BY <1>2, AcquireArenaStep, ReleaseArenaStep, ResetArenaStep, DropBlocksStep, LoadOffsetStep, ExchangeOffsetStep
    DEF ArenaNext
  <1>3. BufferNext \/ GpuNext \/ UNCHANGED memoryVars => UNCHANGED arenaVars
    BY DEF BufferNext, GpuNext, AcquireBuffer, DropBuffer, ReserveGpu, ReturnGpu, memoryVars
  <1> QED BY <1>1, <1>2, <1>3 DEF MemoryNext

LEMMA BuffersStep == BufferInv /\ [MemoryNext]_memoryVars => BufferInv'
  <1> SUFFICES ASSUME BufferInv, [MemoryNext]_memoryVars PROVE BufferInv' OBVIOUS
  <1>0. buffersIdle \in Seq(1 .. buffersMade) /\ Pooled(buffersIdle, buffersOut) /\ buffersMade \in Nat BY DEF BufferInv
  <1>1. CASE UNCHANGED bufferVars BY <1>1 DEF bufferVars, BufferInv
  <1>2. CASE AcquireBuffer /\ buffersIdle # <<>>
    <2>1. /\ Head(buffersIdle) \in 1 .. buffersMade /\ Tail(buffersIdle) \in Seq(1 .. buffersMade)
          /\ Pooled(Tail(buffersIdle), buffersOut \union {Head(buffersIdle)})
      BY <1>0, <1>2, PoolTakesHead
    <2> QED BY <1>2, <2>1 DEF AcquireBuffer, BufferInv
  <1>3. CASE AcquireBuffer /\ buffersIdle = <<>>
    <2>1. buffersIdle' = <<>> /\ buffersMade' = buffersMade + 1 /\ buffersOut' = buffersOut \union {buffersMade + 1}
      BY <1>3 DEF AcquireBuffer
    <2>2. Pooled(buffersIdle', buffersOut') /\ buffersIdle' \in Seq(1 .. buffersMade + 1) BY <2>1 DEF Pooled
    <2>3. buffersOut' \subseteq 1 .. buffersMade + 1 BY <1>0, <2>1 DEF BufferInv
    <2> QED BY <1>0, <2>1, <2>2, <2>3 DEF BufferInv
  <1>4. ASSUME NEW b \in buffersOut, DropBuffer(b) PROVE BufferInv'
    <2>1. b \in 1 .. buffersMade BY DEF BufferInv
    <2>2. Append(buffersIdle, b) \in Seq(1 .. buffersMade) /\ Pooled(Append(buffersIdle, b), buffersOut \ {b})
      BY <1>0, <2>1, PoolGetsBack
    <2> QED BY <1>4, <2>2 DEF DropBuffer, BufferInv
  <1>5. ArenaNext \/ GpuNext \/ UNCHANGED memoryVars => UNCHANGED bufferVars
    BY DEF ArenaNext, AcquireArena, ReleaseArena, ResetArena, DropBlocks, LoadOffset, ExchangeOffset,
           GpuNext, ReserveGpu, ReturnGpu, memoryVars
  <1> QED BY <1>1, <1>2, <1>3, <1>4, <1>5 DEF MemoryNext, BufferNext

-----------------------------------------------------------------------------
\* The counter is all that is reserved, refused or granted, which is at least what
\* is granted: a reservation that reads no more than the limit fits beside it.
GpuBytes == [t \in Tasks |-> gpuTask[t].bytes]
GpuReserved == {t \in Tasks : gpuTask[t].at # "idle"}
GpuGranted == {t \in Tasks : gpuTask[t].at = "granted"}
Reservation == [at : {"idle", "refused", "granted"}, bytes : 0 .. GpuMax]

GpuInv ==
    /\ gpuTask \in [Tasks -> Reservation]
    /\ gpuAllocated = Total(GpuBytes, GpuReserved)
    /\ Total(GpuBytes, GpuGranted) <= GpuMax

LEMMA GpuFinite ==
  ASSUME GpuInv
  PROVE  /\ \A x \in Tasks : GpuBytes[x] \in Nat /\ GpuBytes[x] <= GpuMax
         /\ \A S \in SUBSET Tasks : IsFiniteSet(S) /\ Total(GpuBytes, S) \in Nat
  <1>1. \A x \in Tasks : GpuBytes[x] \in Nat /\ GpuBytes[x] <= GpuMax
    BY MemoryAssumption DEF GpuInv, GpuBytes, Reservation
  <1>2. ASSUME NEW S \in SUBSET Tasks PROVE IsFiniteSet(S) /\ Total(GpuBytes, S) \in Nat
    <2>1. IsFiniteSet(S) BY MemoryAssumption, FS_Subset
    <2> QED BY <1>1, <2>1, TotalFinite, MemoryAssumption
  <1> QED BY <1>1, <1>2

LEMMA GpuInitial == MemoryInit => GpuInv
  <1> SUFFICES ASSUME MemoryInit PROVE GpuInv OBVIOUS
  <1>1. gpuTask \in [Tasks -> Reservation] BY MemoryAssumption DEF MemoryInit, NoReservation, Reservation
  <1>2. GpuReserved = {} /\ GpuGranted = {} BY DEF MemoryInit, NoReservation, GpuReserved, GpuGranted
  <1>3. Total(GpuBytes, {}) = 0
    <2>1. Units(GpuBytes, {}) = {} BY DEF Units
    <2> QED BY <2>1, FS_EmptySet DEF Total
  <1> QED BY <1>1, <1>2, <1>3, MemoryAssumption DEF GpuInv, MemoryInit

LEMMA ReserveStep ==
  ASSUME GpuInv, NEW t \in Tasks, NEW n \in 1 .. GpuMax, ReserveGpu(t, n)
  PROVE  GpuInv'
  <1> DEFINE at == IF gpuAllocated + n > GpuMax THEN "refused" ELSE "granted"
             f == GpuBytes
             g == GpuBytes'
  <1>1. gpuTask' = [gpuTask EXCEPT ![t] = [at |-> at, bytes |-> n]] /\ gpuTask[t].at = "idle" BY DEF ReserveGpu
  <1>2. gpuTask' \in [Tasks -> Reservation] BY <1>1, MemoryAssumption DEF GpuInv, Reservation
  <1>3. gpuTask'[t].at = at /\ \A u \in Tasks : u # t => gpuTask'[u] = gpuTask[u] BY <1>1 DEF GpuInv
  <1>4. g[t] = n /\ \A u \in Tasks : u # t => g[u] = f[u] BY <1>1 DEF GpuInv, GpuBytes
  <1>5. /\ t \notin GpuReserved /\ t \notin GpuGranted
        /\ GpuReserved' = GpuReserved \union {t}
        /\ GpuGranted' = IF at = "granted" THEN GpuGranted \union {t} ELSE GpuGranted
    BY <1>1, <1>3 DEF GpuReserved, GpuGranted
  <1>6. GpuReserved \subseteq Tasks /\ GpuGranted \subseteq GpuReserved BY DEF GpuReserved, GpuGranted
  <1>7. /\ \A x \in Tasks : f[x] \in Nat /\ f[x] <= GpuMax
        /\ \A x \in Tasks : g[x] \in Nat /\ g[x] <= GpuMax
        /\ IsFiniteSet(GpuReserved) /\ IsFiniteSet(GpuGranted)
    BY <1>4, <1>6, GpuFinite, MemoryAssumption
  <1>8. GpuMax \in Nat BY MemoryAssumption
  <1>9. Total(g, GpuReserved) = Total(f, GpuReserved) /\ Total(g, GpuGranted) = Total(f, GpuGranted)
    BY <1>4, <1>5, <1>6, TotalSame
  <1> HIDE DEF f, g
  <1>10. /\ Total(g, GpuReserved \union {t}) = Total(g, GpuReserved) + g[t]
         /\ Total(g, GpuGranted \union {t}) = Total(g, GpuGranted) + g[t]
    BY <1>5, <1>6, <1>7, <1>8, TotalJoins
  <1>11. Total(f, GpuGranted) <= Total(f, GpuReserved) BY <1>6, <1>7, <1>8, TotalGrows
  <1>12. Total(f, GpuReserved) \in Nat /\ Total(f, GpuGranted) \in Nat BY <1>6, GpuFinite DEF f
  <1>13. gpuAllocated = Total(f, GpuReserved) BY DEF GpuInv, f
  <1>14. gpuAllocated' = Total(g, GpuReserved')
    BY <1>4, <1>5, <1>9, <1>10, <1>13 DEF ReserveGpu
  <1>15. Total(g, GpuGranted') <= GpuMax
    <2>1. CASE at = "granted"
      <3>1. gpuAllocated + n <= GpuMax BY <2>1, <1>8, <1>12, <1>13
      <3>2. Total(g, GpuGranted') = Total(f, GpuGranted) + n BY <1>4, <1>5, <1>9, <1>10, <2>1
      <3> QED BY <1>8, <1>11, <1>12, <1>13, <3>1, <3>2
    <2>2. CASE at # "granted" BY <1>5, <1>9, <2>2 DEF GpuInv, f
    <2> QED BY <2>1, <2>2
  <1> QED BY <1>2, <1>14, <1>15 DEF GpuInv, g

LEMMA ReturnStep == ASSUME GpuInv, NEW t \in Tasks, ReturnGpu(t) PROVE GpuInv'
  <1> DEFINE f == GpuBytes
             g == GpuBytes'
  <1>1. gpuTask' = [gpuTask EXCEPT ![t] = NoReservation] /\ gpuTask[t].at # "idle" BY DEF ReturnGpu
  <1>2. gpuTask' \in [Tasks -> Reservation] BY <1>1, MemoryAssumption DEF GpuInv, Reservation, NoReservation
  <1>3. gpuTask'[t].at = "idle" /\ \A u \in Tasks : u # t => gpuTask'[u] = gpuTask[u] BY <1>1 DEF GpuInv, NoReservation
  <1>4. f[t] = gpuTask[t].bytes /\ \A u \in Tasks : u # t => g[u] = f[u] BY <1>1 DEF GpuInv, GpuBytes
  <1>5. t \in GpuReserved /\ GpuReserved' = GpuReserved \ {t} /\ GpuGranted' = GpuGranted \ {t}
    BY <1>1, <1>3 DEF GpuReserved, GpuGranted
  <1>6. GpuReserved \subseteq Tasks /\ GpuGranted \subseteq GpuReserved BY DEF GpuReserved, GpuGranted
  <1>7. /\ \A x \in Tasks : f[x] \in Nat /\ f[x] <= GpuMax
        /\ IsFiniteSet(GpuReserved) /\ IsFiniteSet(GpuGranted)
    BY <1>6, GpuFinite
  <1>8. GpuMax \in Nat BY MemoryAssumption
  <1>9. Total(g, GpuReserved \ {t}) = Total(f, GpuReserved \ {t}) /\ Total(g, GpuGranted \ {t}) = Total(f, GpuGranted \ {t})
    BY <1>4, <1>6, TotalSame
  <1> HIDE DEF f, g
  <1>10. Total(f, GpuReserved \ {t}) = Total(f, GpuReserved) - f[t] BY <1>5, <1>6, <1>7, <1>8, TotalLeaves
  <1>11. Total(f, GpuGranted \ {t}) <= Total(f, GpuGranted) BY <1>6, <1>7, <1>8, TotalGrows
  <1>12. Total(f, GpuGranted) \in Nat /\ Total(f, GpuGranted \ {t}) \in Nat BY <1>6, GpuFinite DEF f
  <1>13. gpuAllocated' = Total(g, GpuReserved') BY <1>4, <1>5, <1>9, <1>10 DEF ReturnGpu, GpuInv, f
  <1>14. Total(g, GpuGranted') <= GpuMax
    <2>1. Total(f, GpuGranted) <= GpuMax BY DEF GpuInv, f
    <2> QED BY <1>5, <1>8, <1>9, <1>11, <1>12, <2>1
  <1> QED BY <1>2, <1>13, <1>14 DEF GpuInv, g

LEMMA GpuStep == GpuInv /\ [MemoryNext]_memoryVars => GpuInv'
  <1> SUFFICES ASSUME GpuInv, [MemoryNext]_memoryVars PROVE GpuInv' OBVIOUS
  <1>1. CASE UNCHANGED gpuVars BY <1>1 DEF gpuVars, GpuInv, GpuBytes, GpuReserved, GpuGranted
  <1>2. CASE GpuNext BY <1>2, ReserveStep, ReturnStep DEF GpuNext
  <1>3. ArenaNext \/ BufferNext \/ UNCHANGED memoryVars => UNCHANGED gpuVars
    BY DEF ArenaNext, AcquireArena, ReleaseArena, ResetArena, DropBlocks, LoadOffset, ExchangeOffset,
           BufferNext, AcquireBuffer, DropBuffer, memoryVars
  <1> QED BY <1>1, <1>2, <1>3 DEF MemoryNext

AllocatorInv == ArenaInv /\ BufferInv /\ GpuInv

LEMMA AllocatorsInitial == MemoryInit => AllocatorInv
  <1>1. MemoryInit => BufferInv BY DEF MemoryInit, BufferInv, Pooled
  <1> QED BY <1>1, ArenasInitial, GpuInitial DEF AllocatorInv

LEMMA AllocatorsStep == AllocatorInv /\ [MemoryNext]_memoryVars => AllocatorInv'
  BY ArenasStep, BuffersStep, GpuStep DEF AllocatorInv

LEMMA AllocatorsSafe == AllocatorInv => MemoryExclusive
  BY DEF AllocatorInv, ArenaInv, BufferInv, GpuInv, GpuBytes, GpuGranted, MemoryExclusive, GrantsWithinGpu

-----------------------------------------------------------------------------
(* The key/value cache: who holds a page *)

\* The pages of a holder, for any free list, entries and calls.
HeldIn(free, entries, at) ==
    [h \in KvHolders |->
        CASE h[1] = "free" -> free
          [] h[1] = "seq" -> entries[h[2]].pages
          [] h[1] = "push" -> IF at[h[2]].at = "push" THEN <<at[h[2]].page>> ELSE <<>>
          [] h[1] = "release" -> IF at[h[2]].at = "release" THEN at[h[2]].pages ELSE <<>>]

FreeList == <<"free", 0>>
OfSeq(s) == <<"seq", s>>
OfPush(t) == <<"push", t>>
OfRelease(t) == <<"release", t>>

\* No page twice among them, and none above n.
Exclusive(H) ==
    \A h, k \in KvHolders : \A i \in DOMAIN H[h], j \in DOMAIN H[k] : H[h][i] = H[k][j] => h = k /\ i = j
Within(H, n) == \A h \in KvHolders : H[h] \in Seq(1 .. n)

\* new is what is left of old without its first c elements; new is old, followed
\* from position m on by some of the first c elements of from.
Shifted(new, old, c) == \A i \in DOMAIN new : i \in Nat \ {0} /\ i + c \in DOMAIN old /\ new[i] = old[i + c]
Behind(new, old, from, m, c) ==
    \A i \in DOMAIN new :
        /\ i \in Nat
        /\ \/ i \in DOMAIN old /\ new[i] = old[i]
           \/ i - m \in DOMAIN from /\ i - m <= c /\ new[i] = from[i - m]

LEMMA HoldersAre ==
  /\ FreeList \in KvHolders
  /\ \A s \in KvSeqIds : OfSeq(s) \in KvHolders
  /\ \A t \in KvCallers : OfPush(t) \in KvHolders /\ OfRelease(t) \in KvHolders
  /\ \A s, t : /\ FreeList # OfSeq(s) /\ FreeList # OfPush(t) /\ FreeList # OfRelease(t)
               /\ OfSeq(s) # OfPush(t) /\ OfSeq(s) # OfRelease(t) /\ OfPush(s) # OfRelease(t)
  /\ \A h \in KvHolders : \/ h = FreeList
                          \/ \E s \in KvSeqIds : h = OfSeq(s)
                          \/ \E t \in KvCallers : h = OfPush(t) \/ h = OfRelease(t)
  BY DEF KvHolders, FreeList, OfSeq, OfPush, OfRelease

LEMMA HeldInIs ==
  ASSUME NEW free, NEW entries, NEW at
  PROVE  LET H == HeldIn(free, entries, at) IN
         /\ H[FreeList] = free
         /\ \A s \in KvSeqIds : H[OfSeq(s)] = entries[s].pages
  <1>1. HeldIn(free, entries, at)[FreeList] = free BY HoldersAre DEF HeldIn, FreeList
  <1>2. ASSUME NEW s \in KvSeqIds PROVE HeldIn(free, entries, at)[OfSeq(s)] = entries[s].pages
    BY HoldersAre DEF HeldIn, OfSeq
  <1> QED BY <1>1, <1>2

LEMMA HeldByCall ==
  ASSUME NEW free, NEW entries, NEW at, NEW t \in KvCallers
  PROVE  /\ HeldIn(free, entries, at)[OfPush(t)] = IF at[t].at = "push" THEN <<at[t].page>> ELSE <<>>
         /\ HeldIn(free, entries, at)[OfRelease(t)] = IF at[t].at = "release" THEN at[t].pages ELSE <<>>
  <1>1. HeldIn(free, entries, at)[OfPush(t)] = IF at[t].at = "push" THEN <<at[t].page>> ELSE <<>>
    BY HoldersAre DEF HeldIn, OfPush
  <1>2. HeldIn(free, entries, at)[OfRelease(t)] = IF at[t].at = "release" THEN at[t].pages ELSE <<>>
    BY HoldersAre DEF HeldIn, OfRelease
  <1> QED BY ONLY <1>1, <1>2

\* What a step leaves alone.
LEMMA HeldElsewhere ==
  ASSUME NEW free, NEW entries, NEW at, NEW free2, NEW entries2, NEW at2,
         NEW t \in KvCallers, NEW S \in SUBSET KvSeqIds,
         \A s \in KvSeqIds \ S : entries2[s].pages = entries[s].pages,
         \A u \in KvCallers \ {t} : at2[u] = at[u]
  PROVE  \A h \in KvHolders :
           \/ h = FreeList \/ h = OfPush(t) \/ h = OfRelease(t) \/ \E s \in S : h = OfSeq(s)
           \/ HeldIn(free2, entries2, at2)[h] = HeldIn(free, entries, at)[h]
  <1> DEFINE G == HeldIn(free2, entries2, at2)
             H == HeldIn(free, entries, at)
  <1>1. \A s \in KvSeqIds \ S : G[OfSeq(s)] = H[OfSeq(s)] BY HeldInIs
  <1>2. ASSUME NEW u \in KvCallers \ {t} PROVE G[OfPush(u)] = H[OfPush(u)] /\ G[OfRelease(u)] = H[OfRelease(u)]
    <2>1. /\ G[OfPush(u)] = IF at2[u].at = "push" THEN <<at2[u].page>> ELSE <<>>
          /\ G[OfRelease(u)] = IF at2[u].at = "release" THEN at2[u].pages ELSE <<>>
      BY ONLY HeldByCall, u \in KvCallers
    <2>2. /\ H[OfPush(u)] = IF at[u].at = "push" THEN <<at[u].page>> ELSE <<>>
          /\ H[OfRelease(u)] = IF at[u].at = "release" THEN at[u].pages ELSE <<>>
      BY ONLY HeldByCall, u \in KvCallers
    <2>3. at2[u] = at[u] OBVIOUS
    <2> QED BY ONLY <2>1, <2>2, <2>3
  <1> QED BY <1>1, <1>2, HoldersAre

LEMMA HeldByOthers ==
  ASSUME NEW free, NEW entries, NEW at, NEW free2, NEW at2,
         NEW t \in KvCallers, \A u \in KvCallers \ {t} : at2[u] = at[u]
  PROVE  \A h \in KvHolders :
           \/ h = FreeList \/ h = OfPush(t) \/ h = OfRelease(t)
           \/ HeldIn(free2, entries, at2)[h] = HeldIn(free, entries, at)[h]
  <1> DEFINE none == {}
  <1>1. none \in SUBSET KvSeqIds /\ \A s \in none : FALSE OBVIOUS
  <1>2. \A s \in KvSeqIds \ none : entries[s].pages = entries[s].pages OBVIOUS
  <1> HIDE DEF none
  <1> QED BY <1>1, <1>2, HeldElsewhere

LEMMA HoldersExclusive ==
  PagesExclusive <=> Exclusive(HeldIn(kvFree, kvEntries, kvAt))
  <1>1. \A h \in KvHolders : HeldIn(kvFree, kvEntries, kvAt)[h] = KvHeld(h) BY Zenon DEF HeldIn, KvHeld
  <1> QED BY <1>1 DEF PagesExclusive, Exclusive

-----------------------------------------------------------------------------
\* Holders that hold what they held or nothing.
LEMMA HoldersLose ==
  ASSUME NEW H, NEW G, NEW n, Exclusive(H), Within(H, n),
         \A h \in KvHolders : G[h] = H[h] \/ G[h] = <<>>
  PROVE  Exclusive(G) /\ Within(G, n)
  <1>1. Within(G, n)
    <2>1. << >> \in Seq(1 .. n) OBVIOUS
    <2> QED BY <2>1 DEF Within
  <1>2. \A h \in KvHolders : \A i \in DOMAIN G[h] : i \in DOMAIN H[h] /\ G[h][i] = H[h][i]
    <2> SUFFICES ASSUME NEW h \in KvHolders, NEW i \in DOMAIN G[h] PROVE G[h] = H[h] OBVIOUS
    <2>1. DOMAIN << >> = {} OBVIOUS
    <2> QED BY <2>1
  <1>3. Exclusive(G) BY <1>2 DEF Exclusive
  <1> QED BY <1>1, <1>3

\* Pages move from a to b: b keeps what it held, gets some of the first c of a behind
\* it, and a keeps those after.
LEMMA HoldersMove ==
  ASSUME NEW H, NEW G, Exclusive(H), NEW a \in KvHolders, NEW b \in KvHolders, a # b, NEW c \in Nat, NEW m \in Nat,
         Shifted(G[a], H[a], c), Behind(G[b], H[b], H[a], m, c),
         \A h \in KvHolders : h = a \/ h = b \/ G[h] = H[h]
  PROVE  Exclusive(G)
  <1>1. ASSUME NEW h \in KvHolders, NEW k \in KvHolders, NEW i \in DOMAIN H[h], NEW j \in DOMAIN H[k], H[h][i] = H[k][j]
        PROVE  h = k /\ i = j
    BY <1>1 DEF Exclusive
  <1>2. ASSUME NEW i \in DOMAIN G[a], NEW j \in DOMAIN G[a], G[a][i] = G[a][j] PROVE i = j
    <2>1. /\ i \in Nat \ {0} /\ i + c \in DOMAIN H[a] /\ G[a][i] = H[a][i + c]
          /\ j \in Nat \ {0} /\ j + c \in DOMAIN H[a] /\ G[a][j] = H[a][j + c]
      BY DEF Shifted
    <2>2. H[a][i + c] = H[a][j + c] BY ONLY <1>2, <2>1
    <2>3. i + c = j + c BY ONLY <1>1, <2>1, <2>2
    <2> QED BY <2>1, <2>3
  <1>3. ASSUME NEW i \in DOMAIN G[b], NEW j \in DOMAIN G[b], G[b][i] = G[b][j] PROVE i = j
    <2>0. i \in Nat /\ j \in Nat BY DEF Behind
    <2>1. CASE i \in DOMAIN H[b] /\ G[b][i] = H[b][i] /\ j \in DOMAIN H[b] /\ G[b][j] = H[b][j]
      <3>1. H[b][i] = H[b][j] BY ONLY <1>3, <2>1
      <3> QED BY ONLY <1>1, <2>1, <3>1
    <2>2. CASE i - m \in DOMAIN H[a] /\ G[b][i] = H[a][i - m] /\ j - m \in DOMAIN H[a] /\ G[b][j] = H[a][j - m]
      <3>1. H[a][i - m] = H[a][j - m] BY ONLY <1>3, <2>2
      <3>2. i - m = j - m BY ONLY <1>1, <2>2, <3>1
      <3> QED BY ONLY <2>0, <3>2, m \in Nat
    <2>3. CASE i \in DOMAIN H[b] /\ G[b][i] = H[b][i] /\ j - m \in DOMAIN H[a] /\ G[b][j] = H[a][j - m]
      <3>1. H[b][i] = H[a][j - m] BY ONLY <1>3, <2>3
      <3>2. b = a BY ONLY <1>1, <2>3, <3>1
      <3> QED BY <3>2
    <2>4. CASE i - m \in DOMAIN H[a] /\ G[b][i] = H[a][i - m] /\ j \in DOMAIN H[b] /\ G[b][j] = H[b][j]
      <3>1. H[a][i - m] = H[b][j] BY ONLY <1>3, <2>4
      <3>2. a = b BY ONLY <1>1, <2>4, <3>1
      <3> QED BY <3>2
    <2> QED BY <2>1, <2>2, <2>3, <2>4 DEF Behind
  <1>4. ASSUME NEW i \in DOMAIN G[a], NEW j \in DOMAIN G[b], G[a][i] = G[b][j] PROVE FALSE
    <2>1. i + c \in DOMAIN H[a] /\ G[a][i] = H[a][i + c] /\ i \in Nat \ {0} BY DEF Shifted
    <2>2. CASE j \in DOMAIN H[b] /\ G[b][j] = H[b][j]
      <3>1. H[a][i + c] = H[b][j] BY ONLY <1>4, <2>1, <2>2
      <3>2. a = b BY ONLY <1>1, <2>1, <2>2, <3>1
      <3> QED BY <3>2
    <2>3. CASE j \in Nat /\ j - m \in DOMAIN H[a] /\ j - m <= c /\ G[b][j] = H[a][j - m]
      <3>1. H[a][i + c] = H[a][j - m] BY ONLY <1>4, <2>1, <2>3
      <3>2. i + c = j - m BY ONLY <1>1, <2>1, <2>3, <3>1
      <3>3. i \in Nat \ {0} /\ j \in Nat /\ j - m <= c BY ONLY <2>1, <2>3
      <3> QED BY ONLY <3>2, <3>3, c \in Nat, m \in Nat
    <2> QED BY <2>2, <2>3 DEF Behind
  <1>5. ASSUME NEW k \in KvHolders, k # a, k # b, NEW j \in DOMAIN G[k]
        PROVE  (\A i \in DOMAIN G[a] : G[a][i] # G[k][j]) /\ (\A i \in DOMAIN G[b] : G[b][i] # G[k][j])
    <2>1. G[k] = H[k] BY <1>5
    <2>2. j \in DOMAIN H[k] /\ G[k][j] = H[k][j] BY ONLY <2>1, j \in DOMAIN G[k]
    <2>3. ASSUME NEW i \in DOMAIN G[a], G[a][i] = G[k][j] PROVE FALSE
      <3>1. i + c \in DOMAIN H[a] /\ G[a][i] = H[a][i + c] BY DEF Shifted
      <3>2. H[a][i + c] = H[k][j] BY ONLY <2>2, <2>3, <3>1
      <3>3. a = k BY ONLY <1>1, <2>2, <3>1, <3>2
      <3> QED BY ONLY <1>5, <3>3
    <2>4. ASSUME NEW i \in DOMAIN G[b], G[b][i] = G[k][j] PROVE FALSE
      <3>1. CASE i \in DOMAIN H[b] /\ G[b][i] = H[b][i]
        <4>1. H[b][i] = H[k][j] BY ONLY <2>2, <2>4, <3>1
        <4>2. b = k BY ONLY <1>1, <2>2, <3>1, <4>1
        <4> QED BY ONLY <1>5, <4>2
      <3>2. CASE i - m \in DOMAIN H[a] /\ G[b][i] = H[a][i - m]
        <4>1. H[a][i - m] = H[k][j] BY ONLY <2>2, <2>4, <3>2
        <4>2. a = k BY ONLY <1>1, <2>2, <3>2, <4>1
        <4> QED BY ONLY <1>5, <4>2
      <3> QED BY <3>1, <3>2 DEF Behind
    <2> QED BY ONLY <2>3, <2>4
  <1>6. ASSUME NEW h \in KvHolders, NEW i \in DOMAIN G[h], NEW k \in KvHolders, NEW j \in DOMAIN G[k], G[h][i] = G[k][j]
        PROVE  h = k /\ i = j
    <2>1. CASE h = a /\ k = a BY <1>2, <1>6, <2>1
    <2>2. CASE h = b /\ k = b BY <1>3, <1>6, <2>2
    <2>3. CASE h = a /\ k = b BY <1>4, <1>6, <2>3
    <2>4. CASE h = b /\ k = a BY <1>4, <1>6, <2>4
    <2>5. CASE h = a /\ k # a /\ k # b BY <1>5, <1>6, <2>5
    <2>6. CASE h = b /\ k # a /\ k # b BY <1>5, <1>6, <2>6
    <2>7. CASE h # a /\ h # b /\ k = a BY <1>5, <1>6, <2>7
    <2>8. CASE h # a /\ h # b /\ k = b BY <1>5, <1>6, <2>8
    <2>9. CASE h # a /\ h # b /\ k # a /\ k # b
      <3>1. G[h] = H[h] /\ G[k] = H[k] BY <2>9
      <3> QED BY <1>1, <1>6, <3>1
    <2> QED BY <2>1, <2>2, <2>3, <2>4, <2>5, <2>6, <2>7, <2>8, <2>9
  <1> QED BY <1>6 DEF Exclusive

\* The parts of a sequence.
LEMMA HeadTail ==
  ASSUME NEW S, NEW q \in Seq(S), q # <<>>, NEW r
  PROVE  /\ Tail(q) \in Seq(S) /\ Shifted(Tail(q), q, 1)
         /\ <<Head(q)>> \in Seq(S) /\ Behind(<<Head(q)>>, r, q, 0, 1)
  <1>1. Head(q) = q[1] /\ 1 \in DOMAIN q /\ Head(q) \in S OBVIOUS
  <1>2. DOMAIN <<Head(q)>> = {1} /\ <<Head(q)>>[1] = Head(q) OBVIOUS
  <1>3. 1 - 0 = 1 /\ 1 - 0 <= 1 /\ 1 \in Nat OBVIOUS
  <1>4. \A i \in DOMAIN <<Head(q)>> : i \in Nat /\ i - 0 \in DOMAIN q /\ i - 0 <= 1 /\ <<Head(q)>>[i] = q[i - 0]
    BY <1>1, <1>2, <1>3
  <1>5. <<Head(q)>> \in Seq(S) BY <1>1
  <1>6. \A i \in DOMAIN Tail(q) : i \in Nat \ {0} /\ i + 1 \in DOMAIN q /\ Tail(q)[i] = q[i + 1] OBVIOUS
  <1>7. Tail(q) \in Seq(S) OBVIOUS
  <1> QED BY ONLY <1>4, <1>5, <1>6, <1>7 DEF Shifted, Behind

LEMMA Joined ==
  ASSUME NEW S, NEW p \in Seq(S), NEW q \in Seq(S)
  PROVE  /\ Len(p) \in Nat /\ Len(q) \in Nat /\ p \o q \in Seq(S)
         /\ Behind(p \o q, p, q, Len(p), Len(q)) /\ Shifted(<<>>, q, Len(q))
  <1>1. /\ Len(p) \in Nat /\ Len(q) \in Nat /\ p \o q \in Seq(S) /\ DOMAIN p = 1 .. Len(p) /\ DOMAIN q = 1 .. Len(q)
        /\ DOMAIN (p \o q) = 1 .. Len(p) + Len(q)
    OBVIOUS
  <1>2. ASSUME NEW i \in DOMAIN (p \o q)
        PROVE  /\ i \in Nat
               /\ \/ i \in DOMAIN p /\ (p \o q)[i] = p[i]
                  \/ i - Len(p) \in DOMAIN q /\ i - Len(p) <= Len(q) /\ (p \o q)[i] = q[i - Len(p)]
    <2>1. i \in 1 .. Len(p) + Len(q) BY <1>1
    <2>2. (p \o q)[i] = IF i <= Len(p) THEN p[i] ELSE q[i - Len(p)] BY <1>1, <2>1
    <2>3. CASE i <= Len(p)
      <3>1. i \in Nat /\ i \in DOMAIN p BY <1>1, <2>1, <2>3
      <3> QED BY <2>2, <2>3, <3>1
    <2>4. CASE ~(i <= Len(p))
      <3>1. i \in Nat /\ i - Len(p) \in DOMAIN q /\ i - Len(p) <= Len(q) BY <1>1, <2>1, <2>4
      <3> QED BY <2>2, <2>4, <3>1
    <2> QED BY <2>3, <2>4
  <1>3. Behind(p \o q, p, q, Len(p), Len(q)) BY ONLY <1>2 DEF Behind
  <1>4. Shifted(<<>>, q, Len(q)) BY DEF Shifted
  <1> QED BY ONLY <1>1, <1>3, <1>4

LEMMA Parted ==
  ASSUME NEW S, NEW q \in Seq(S), NEW d \in 0 .. Len(q), NEW r
  PROVE  /\ d \in Nat
         /\ SubSeq(q, d + 1, Len(q)) \in Seq(S) /\ Shifted(SubSeq(q, d + 1, Len(q)), q, d)
         /\ SubSeq(q, 1, d) \in Seq(S) /\ Behind(SubSeq(q, 1, d), r, q, 0, d)
  <1>1. Len(q) \in Nat /\ d \in Nat /\ DOMAIN q = 1 .. Len(q) OBVIOUS
  <1>2. DOMAIN SubSeq(q, d + 1, Len(q)) = 1 .. Len(q) - d /\ SubSeq(q, d + 1, Len(q)) \in Seq(S) BY <1>1
  <1>3. ASSUME NEW i \in 1 .. Len(q) - d
        PROVE  i \in Nat \ {0} /\ i + d \in DOMAIN q /\ SubSeq(q, d + 1, Len(q))[i] = q[i + d]
    BY <1>1
  <1>4. DOMAIN SubSeq(q, 1, d) = 1 .. d /\ SubSeq(q, 1, d) \in Seq(S) BY <1>1
  <1>5. ASSUME NEW i \in 1 .. d
        PROVE  i \in Nat /\ i - 0 \in DOMAIN q /\ i - 0 <= d /\ SubSeq(q, 1, d)[i] = q[i - 0]
    <2>1. i \in Nat /\ i - 0 = i /\ i \in DOMAIN q /\ i <= d BY <1>1
    <2>2. SubSeq(q, 1, d)[i] = q[i] BY <1>1
    <2> QED BY <2>1, <2>2
  <1>6. Shifted(SubSeq(q, d + 1, Len(q)), q, d) BY ONLY <1>2, <1>3 DEF Shifted
  <1>7. Behind(SubSeq(q, 1, d), r, q, 0, d) BY ONLY <1>4, <1>5 DEF Behind
  <1> QED BY <1>1, <1>2, <1>4, <1>6, <1>7

\* The first page of one goes to another, which had none.
LEMMA HoldersTakeHead ==
  ASSUME NEW H, NEW G, NEW n, Exclusive(H), Within(H, n),
         NEW a \in KvHolders, NEW b \in KvHolders, a # b, H[a] # <<>>,
         G[a] = Tail(H[a]), G[b] = <<Head(H[a])>>,
         \A h \in KvHolders : h = a \/ h = b \/ G[h] = H[h]
  PROVE  Exclusive(G) /\ Within(G, n)
  <1>1. H[a] \in Seq(1 .. n) BY DEF Within
  <1>2. /\ G[a] \in Seq(1 .. n) /\ G[b] \in Seq(1 .. n)
        /\ Shifted(G[a], H[a], 1) /\ Behind(G[b], H[b], H[a], 0, 1)
    BY <1>1, HeadTail
  <1>3. Within(G, n) BY <1>2 DEF Within
  <1>4. Exclusive(G) BY <1>2, HoldersMove
  <1> QED BY <1>3, <1>4

\* A new page goes to one that has none.
LEMMA HoldersTakeNew ==
  ASSUME NEW H, NEW G, NEW n \in Nat, Exclusive(H), Within(H, n),
         NEW b \in KvHolders, G[b] = <<n + 1>>, \A h \in KvHolders : h = b \/ G[h] = H[h]
  PROVE  Exclusive(G) /\ Within(G, n + 1)
  <1>1. DOMAIN G[b] = {1} /\ G[b][1] = n + 1 /\ G[b] \in Seq(1 .. n + 1) OBVIOUS
  <1>2. \A h \in KvHolders : h # b => G[h] \in Seq(1 .. n) /\ \A i \in DOMAIN G[h] : G[h][i] \in 1 .. n BY DEF Within
  <1>3. Within(G, n + 1)
    <2>1. ASSUME NEW h \in KvHolders, h # b PROVE G[h] \in Seq(1 .. n + 1)
      <3>1. G[h] \in Seq(1 .. n) /\ 1 .. n \subseteq 1 .. n + 1 BY <1>2, <2>1
      <3> QED BY <3>1
    <2> QED BY <1>1, <2>1 DEF Within
  <1>4. ASSUME NEW h \in KvHolders, NEW i \in DOMAIN G[h], NEW k \in KvHolders, NEW j \in DOMAIN G[k], G[h][i] = G[k][j]
        PROVE  h = k /\ i = j
    <2>1. CASE h = b /\ k = b BY <1>1, <2>1
    <2>2. CASE h = b /\ k # b BY <1>1, <1>2, <1>4, <2>2
    <2>3. CASE h # b /\ k = b BY <1>1, <1>2, <1>4, <2>3
    <2>4. CASE h # b /\ k # b
      <3>1. G[h] = H[h] /\ G[k] = H[k] BY <2>4
      <3> QED BY <1>4, <3>1 DEF Exclusive
    <2> QED BY <2>1, <2>2, <2>3, <2>4
  <1> QED BY <1>3, <1>4 DEF Exclusive

\* All pages of one go behind those of another.
LEMMA HoldersHandOver ==
  ASSUME NEW H, NEW G, NEW n, Exclusive(H), Within(H, n),
         NEW a \in KvHolders, NEW b \in KvHolders, a # b,
         G[a] = <<>>, G[b] = H[b] \o H[a],
         \A h \in KvHolders : h = a \/ h = b \/ G[h] = H[h]
  PROVE  Exclusive(G) /\ Within(G, n)
  <1>1. H[a] \in Seq(1 .. n) /\ H[b] \in Seq(1 .. n) BY DEF Within
  <1>2. /\ Len(H[a]) \in Nat /\ Len(H[b]) \in Nat /\ G[b] \in Seq(1 .. n)
        /\ Shifted(G[a], H[a], Len(H[a])) /\ Behind(G[b], H[b], H[a], Len(H[b]), Len(H[a]))
    BY <1>1, Joined
  <1>3. G[a] \in Seq(1 .. n) OBVIOUS
  <1>4. Within(G, n) BY <1>2, <1>3 DEF Within
  <1>5. Exclusive(G) BY <1>2, HoldersMove
  <1> QED BY <1>4, <1>5

\* The first c pages of one go to another, which had none.
LEMMA HoldersSplit ==
  ASSUME NEW H, NEW G, NEW n, Exclusive(H), Within(H, n),
         NEW a \in KvHolders, NEW b \in KvHolders, a # b, NEW c \in 0 .. Len(H[a]),
         G[a] = SubSeq(H[a], c + 1, Len(H[a])), G[b] = SubSeq(H[a], 1, c),
         \A h \in KvHolders : h = a \/ h = b \/ G[h] = H[h]
  PROVE  Exclusive(G) /\ Within(G, n)
  <1>1. H[a] \in Seq(1 .. n) BY DEF Within
  <1>2. /\ c \in Nat /\ G[a] \in Seq(1 .. n) /\ G[b] \in Seq(1 .. n)
        /\ Shifted(G[a], H[a], c) /\ Behind(G[b], H[b], H[a], 0, c)
    BY <1>1, Parted
  <1>3. Within(G, n) BY <1>2 DEF Within
  <1>4. Exclusive(G) BY <1>2, HoldersMove
  <1> QED BY <1>3, <1>4

-----------------------------------------------------------------------------
(* The key/value cache: positions and pages *)

LEMMA Positions ==
  ASSUME NEW q \in Nat
  PROVE  /\ q \div PageTokens \in Nat /\ KvPageOf(q) \in Nat \ {0} /\ KvSlot(q) \in 0 .. PageTokens - 1
         /\ q = PageTokens * (q \div PageTokens) + (q % PageTokens)
  <1>1. q % PageTokens \in 0 .. PageTokens - 1 BY KvAssumption
  <1>2. q = PageTokens * (q \div PageTokens) + (q % PageTokens) BY KvAssumption
  <1>3. q \div PageTokens \in Int /\ q \div PageTokens >= 0 BY KvAssumption
  <1> QED BY <1>1, <1>2, <1>3 DEF KvPageOf, KvSlot

\* Two positions are never at the same slot of the same page.
LEMMA PositionsApart ==
  ASSUME NEW q \in Nat, NEW r \in Nat, KvPageOf(q) = KvPageOf(r), KvSlot(q) = KvSlot(r)
  PROVE  q = r
  <1> DEFINE d == q \div PageTokens
             c == r \div PageTokens
  <1>1. d \in Nat /\ q = PageTokens * d + (q % PageTokens) /\ KvPageOf(q) = d + 1 BY Positions DEF KvPageOf
  <1>2. c \in Nat /\ r = PageTokens * c + (r % PageTokens) /\ KvPageOf(r) = c + 1 BY Positions DEF KvPageOf
  <1> HIDE DEF d, c
  <1>3. d = c
    <2>1. d + 1 = c + 1 BY <1>1, <1>2
    <2> QED BY ONLY <1>1, <1>2, <2>1
  <1>4. q % PageTokens = r % PageTokens BY DEF KvSlot
  <1> QED BY <1>1, <1>2, <1>3, <1>4

\* The pages that n tokens need.
KvNeed(n) == IF KvSlot(n) = 0 THEN n \div PageTokens ELSE n \div PageTokens + 1

LEMMA NeedOfNext ==
  ASSUME NEW n \in Nat PROVE KvNeed(n + 1) = KvPageOf(n)
  <1> DEFINE d == n \div PageTokens
             m == n % PageTokens
             D == (n + 1) \div PageTokens
             M == (n + 1) % PageTokens
  <1>1. d \in Nat /\ m \in 0 .. PageTokens - 1 /\ n = PageTokens * d + m BY Positions DEF KvSlot
  <1>2. D \in Nat /\ M \in 0 .. PageTokens - 1 /\ n + 1 = PageTokens * D + M
    <2>1. n + 1 \in Nat OBVIOUS
    <2> QED BY <2>1, Positions DEF KvSlot
  <1>3. KvNeed(n + 1) = IF M = 0 THEN D ELSE D + 1 BY DEF KvNeed, KvSlot
  <1>4. KvPageOf(n) = d + 1 BY DEF KvPageOf
  <1>5. PageTokens \in Nat \ {0} BY KvAssumption
  <1> HIDE DEF d, m, D, M
  <1>6. PageTokens * (D - d) = m + 1 - M BY <1>1, <1>2, <1>5
  <1>7. CASE M = 0
    <2>1. D - d = 1 BY <1>1, <1>2, <1>5, <1>6, <1>7
    <2> QED BY <1>1, <1>2, <1>3, <1>4, <1>7, <2>1
  <1>8. CASE M # 0
    <2>1. D - d = 0 BY <1>1, <1>2, <1>5, <1>6, <1>8
    <2> QED BY <1>1, <1>2, <1>3, <1>4, <1>8, <2>1
  <1> QED BY <1>7, <1>8

LEMMA NeedOfNone == KvNeed(0) = 0
  BY KvAssumption DEF KvNeed, KvSlot

LEMMA NeedOfFull ==
  ASSUME NEW n \in Nat
  PROVE  /\ KvNeed(n) \in Nat
         /\ IF KvSlot(n) = 0 THEN KvNeed(n) + 1 = KvPageOf(n) ELSE KvNeed(n) = KvPageOf(n)
  BY Positions DEF KvNeed, KvPageOf

-----------------------------------------------------------------------------
(* The key/value cache: its inductive invariant *)

KvStages == {"idle", "alloc", "evict", "retry", "push", "remove", "release",
             "find", "write", "count", "read", "attend"}
KvCall == [at : KvStages, pos : Nat, page : Nat, pages : Seq(Nat), victim : 0 .. KvMaxSeqs, next : {"idle", "retry"}]
KvEntry == [live : BOOLEAN, pages : Seq(Nat), len : Nat, quant : Seq(Nat \X Nat)]
KvContent == [0 .. PageTokens - 1 -> Nat \X Nat]

KvTypes ==
    /\ kvQuantised \in BOOLEAN
    /\ kvPages \in Seq(KvContent)
    /\ kvEntries \in [KvSeqIds -> KvEntry]
    /\ kvNextId \in Nat \ {0}
    /\ kvAt \in [KvCallers -> KvCall]
    /\ kvDisturbed \subseteq KvSeqIds

\* No page twice, and none that the table does not have.
KvPagesInv ==
    LET H == HeldIn(kvFree, kvEntries, kvAt) IN Exclusive(H) /\ Within(H, Len(kvPages))

NoTwice(q) == \A i, j \in 1 .. Len(q) : q[i] = q[j] => i = j
KvOrderInv ==
    kvOrder \in Seq(KvSeqIds) /\ NoTwice(kvOrder) /\ \A i \in 1 .. Len(kvOrder) : kvOrder[i] < kvNextId

\* A sequence has one caller, and ids are not given out again.
KvOwnInv ==
    /\ kvOwn \in [KvCallers -> 0 .. KvMaxSeqs]
    /\ \A t \in KvCallers : kvOwn[t] < kvNextId
    /\ \A t, u \in KvCallers : kvOwn[t] = kvOwn[u] /\ t # u => kvOwn[t] = 0

\* What an undisturbed sequence s with entry e has at each position.
SeqOk(s, e, pg, dist, quantised) ==
    /\ ~e.live => e = KvNone
    /\ quantised \/ e.quant = <<>>
    /\ e.live /\ s \notin dist =>
         /\ \A q \in 0 .. e.len - 1 :
              KvPageOf(q) \in 1 .. Len(e.pages) /\ pg[e.pages[KvPageOf(q)]][KvSlot(q)] = <<s, q>>
         /\ quantised => Len(e.quant) = e.len /\ \A q \in 0 .. e.len - 1 : e.quant[q + 1] = <<s, q>>

\* An append that looks for a page, and one that has found it.
KvSearches(st) ==
    \/ st.at \in {"alloc", "evict", "retry", "push"}
    \/ st.at \in {"remove", "release"} /\ st.next = "retry"
KvWrites(st) == st.at \in {"find", "write", "count"}

\* What a call of the owner of s relies on from one of its steps to the next.
CallOk(s, e, st, pg, dist) ==
    /\ st.at # "idle" => s # 0
    /\ st.at = "remove" => st.victim \in KvSeqIds
    /\ s # 0 /\ e.live =>
         /\ KvSearches(st) \/ KvWrites(st) => st.pos = e.len
         /\ st.at \in {"write", "count"} => e.pages # <<>>
         /\ st.at = "write" => st.page = e.pages[Len(e.pages)]
         /\ st.at = "read" =>
              st.pos < e.len /\ KvPageOf(st.pos) <= Len(e.pages) /\ st.page = e.pages[KvPageOf(st.pos)]
         /\ st.at = "attend" => st.pages = e.pages /\ st.pos = e.len
         /\ s \notin dist =>
              /\ KvSearches(st) => KvSlot(e.len) = 0
              /\ Len(e.pages) = IF KvWrites(st) THEN KvPageOf(e.len) ELSE KvNeed(e.len)
              /\ st.at = "count" => pg[e.pages[Len(e.pages)]][KvSlot(e.len)] = <<s, e.len>>

KvOwned(t) == IF kvOwn[t] = 0 THEN KvNone ELSE kvEntries[kvOwn[t]]
KvSeqsInv == \A s \in KvSeqIds : SeqOk(s, kvEntries[s], kvPages, kvDisturbed, kvQuantised)
KvCallsInv == \A t \in KvCallers : CallOk(kvOwn[t], KvOwned(t), kvAt[t], kvPages, kvDisturbed)

KvInv == KvTypes /\ KvPagesInv /\ KvOrderInv /\ KvOwnInv /\ KvSeqsInv /\ KvCallsInv /\ ReadsUndisturbed

LEMMA KvRecords ==
  /\ KvNone \in KvEntry /\ KvFresh \in KvEntry /\ KvIdle \in KvCall
  /\ KvNone.live = FALSE /\ KvNone.pages = <<>> /\ KvNone.len = 0 /\ KvNone.quant = <<>>
  /\ KvFresh.live = TRUE /\ KvFresh.pages = <<>> /\ KvFresh.len = 0 /\ KvFresh.quant = <<>>
  /\ KvIdle.at = "idle" /\ KvIdle.next = "idle" /\ KvIdle.victim = 0
  <1>1. << >> \in Seq(Nat) /\ << >> \in Seq(Nat \X Nat) OBVIOUS
  <1>2. KvNone \in KvEntry BY <1>1 DEF KvNone, KvEntry
  <1>3. KvFresh \in KvEntry BY <1>1 DEF KvFresh, KvNone, KvEntry
  <1>4. KvIdle \in KvCall BY <1>1, KvAssumption DEF KvIdle, KvCall, KvStages
  <1>5. /\ KvNone.live = FALSE /\ KvNone.pages = <<>> /\ KvNone.len = 0 /\ KvNone.quant = <<>>
        /\ KvFresh.live = TRUE /\ KvFresh.pages = <<>> /\ KvFresh.len = 0 /\ KvFresh.quant = <<>>
        /\ KvIdle.at = "idle" /\ KvIdle.next = "idle" /\ KvIdle.victim = 0
    BY DEF KvNone, KvFresh, KvIdle
  <1> QED BY <1>2, <1>3, <1>4, <1>5

\* What happens elsewhere leaves a sequence and a call as they were.
LEMMA SeqKept ==
  ASSUME NEW s, NEW e \in KvEntry, NEW pg, NEW pg2, NEW dist, NEW dist2, NEW quantised,
         SeqOk(s, e, pg, dist, quantised), dist \subseteq dist2,
         s \notin dist2 => \A i \in 1 .. Len(e.pages) : pg2[e.pages[i]] = pg[e.pages[i]]
  PROVE  SeqOk(s, e, pg2, dist2, quantised)
  BY DEF SeqOk

LEMMA CallKept ==
  ASSUME NEW s, NEW e \in KvEntry, NEW st, NEW pg, NEW pg2, NEW dist, NEW dist2,
         CallOk(s, e, st, pg, dist), dist \subseteq dist2,
         s \notin dist2 => \A i \in 1 .. Len(e.pages) : pg2[e.pages[i]] = pg[e.pages[i]]
  PROVE  CallOk(s, e, st, pg2, dist2)
  <1>1. ASSUME s # 0, e.live, s \notin dist2, st.at = "count" PROVE pg2[e.pages[Len(e.pages)]][KvSlot(e.len)] = <<s, e.len>>
    <2>1. e.pages \in Seq(Nat) /\ e.pages # <<>> BY <1>1 DEF CallOk, KvEntry
    <2>2. Len(e.pages) \in 1 .. Len(e.pages) BY <2>1
    <2>3. pg2[e.pages[Len(e.pages)]] = pg[e.pages[Len(e.pages)]] BY <1>1, <2>2
    <2>4. pg[e.pages[Len(e.pages)]][KvSlot(e.len)] = <<s, e.len>> BY <1>1 DEF CallOk
    <2> QED BY <2>3, <2>4
  <1> QED BY <1>1 DEF CallOk

\* A step of t leaves the other sequences and calls alone, or ends a sequence.
LEMMA OthersKept ==
  ASSUME KvTypes, KvOwnInv, KvSeqsInv, KvCallsInv, NEW t \in KvCallers,
         kvOwn' = kvOwn, kvQuantised' = kvQuantised, kvDisturbed \subseteq kvDisturbed',
         \A u \in KvCallers : u # t => kvAt'[u] = kvAt[u],
         \A s \in KvSeqIds : s # kvOwn[t] => kvEntries'[s] = kvEntries[s] \/ kvEntries'[s] = KvNone,
         \A s \in KvSeqIds : s # kvOwn[t] /\ s \notin kvDisturbed' =>
             \A i \in 1 .. Len(kvEntries[s].pages) : kvPages'[kvEntries[s].pages[i]] = kvPages[kvEntries[s].pages[i]],
         kvOwn[t] # 0 => SeqOk(kvOwn[t], kvEntries'[kvOwn[t]], kvPages', kvDisturbed', kvQuantised),
         CallOk(kvOwn[t], KvOwned(t)', kvAt'[t], kvPages', kvDisturbed')
  PROVE  KvSeqsInv' /\ KvCallsInv'
  <1>1. ASSUME NEW s, NEW pg, NEW dist, NEW quantised PROVE SeqOk(s, KvNone, pg, dist, quantised)
    BY KvRecords DEF SeqOk
  <1>2. ASSUME NEW s \in KvSeqIds PROVE SeqOk(s, kvEntries'[s], kvPages', kvDisturbed', kvQuantised)
    <2>1. CASE s = kvOwn[t]
      <3>1. s # 0 BY DEF KvSeqIds
      <3> QED BY <2>1, <3>1
    <2>2. CASE s # kvOwn[t] /\ kvEntries'[s] = KvNone BY <1>1, <2>2
    <2>3. CASE s # kvOwn[t] /\ kvEntries'[s] = kvEntries[s]
      <3>1. SeqOk(s, kvEntries[s], kvPages, kvDisturbed, kvQuantised) /\ kvEntries[s] \in KvEntry BY DEF KvSeqsInv, KvTypes
      <3>2. s \notin kvDisturbed' => \A i \in 1 .. Len(kvEntries[s].pages) : kvPages'[kvEntries[s].pages[i]] = kvPages[kvEntries[s].pages[i]]
        BY <2>3
      <3>3. SeqOk(s, kvEntries[s], kvPages', kvDisturbed', kvQuantised) BY ONLY <3>1, <3>2, SeqKept, kvDisturbed \subseteq kvDisturbed'
      <3> QED BY <2>3, <3>3
    <2> QED BY <2>1, <2>2, <2>3
  <1>3. ASSUME NEW u \in KvCallers, u # t PROVE CallOk(kvOwn[u], KvOwned(u)', kvAt[u], kvPages', kvDisturbed')
    <2>1. CallOk(kvOwn[u], KvOwned(u), kvAt[u], kvPages, kvDisturbed) BY DEF KvCallsInv
    <2>2. CASE kvOwn[u] = 0
      <3>1. KvOwned(u) = KvNone /\ KvOwned(u)' = KvNone BY <2>2 DEF KvOwned
      <3> QED BY <2>1, <2>2, <3>1 DEF CallOk
    <2>3. CASE kvOwn[u] # 0
      <3>1. kvOwn[u] \in KvSeqIds /\ kvOwn[u] # kvOwn[t] BY <1>3, <2>3, KvAssumption DEF KvOwnInv, KvSeqIds
      <3>2. KvOwned(u) = kvEntries[kvOwn[u]] /\ KvOwned(u)' = kvEntries'[kvOwn[u]] BY <2>3 DEF KvOwned
      <3>3. CASE kvEntries'[kvOwn[u]] = KvNone BY <2>1, <2>3, <3>2, <3>3, KvRecords DEF CallOk
      <3>4. CASE kvEntries'[kvOwn[u]] = kvEntries[kvOwn[u]]
        <4>1. kvEntries[kvOwn[u]] \in KvEntry BY <3>1 DEF KvTypes
        <4>2. kvOwn[u] \notin kvDisturbed' => \A i \in 1 .. Len(kvEntries[kvOwn[u]].pages) :
                kvPages'[kvEntries[kvOwn[u]].pages[i]] = kvPages[kvEntries[kvOwn[u]].pages[i]]
          BY <3>1
        <4>3. CallOk(kvOwn[u], kvEntries[kvOwn[u]], kvAt[u], kvPages, kvDisturbed) BY ONLY <2>1, <3>2
        <4>4. CallOk(kvOwn[u], kvEntries[kvOwn[u]], kvAt[u], kvPages', kvDisturbed')
          BY ONLY <4>1, <4>2, <4>3, CallKept, kvDisturbed \subseteq kvDisturbed'
        <4> QED BY ONLY <3>2, <3>4, <4>4
      <3> QED BY <3>1, <3>3, <3>4
    <2> QED BY <2>2, <2>3
  <1>4. KvSeqsInv' BY <1>2 DEF KvSeqsInv
  <1>5. ASSUME NEW u \in KvCallers PROVE CallOk(kvOwn'[u], KvOwned(u)', kvAt'[u], kvPages', kvDisturbed')
    <2>1. CASE u = t BY <2>1
    <2>2. CASE u # t
      <3>1. kvOwn'[u] = kvOwn[u] /\ kvAt'[u] = kvAt[u] BY <2>2
      <3> QED BY ONLY <1>3, <2>2, <3>1, u \in KvCallers
    <2> QED BY <2>1, <2>2
  <1> QED BY <1>4, <1>5 DEF KvCallsInv

-----------------------------------------------------------------------------
(* The key/value cache: the steps of a call that move no page *)

LEMMA Reordered ==
  ASSUME NEW S, NEW q \in Seq(S), NoTwice(q), NEW e \in S
  PROVE  /\ RemoveFirst(q, e) \in Seq(S) /\ NoTwice(RemoveFirst(q, e))
         /\ \A i \in 1 .. Len(RemoveFirst(q, e)) :
              RemoveFirst(q, e)[i] # e /\ \E j \in 1 .. Len(q) : RemoveFirst(q, e)[i] = q[j]
  <1> DEFINE r == RemoveFirst(q, e)
             n == Len(q)
  <1>0. n \in Nat /\ \A i, j \in 1 .. n : q[i] = q[j] => i = j BY DEF NoTwice
  <1>1. /\ r \in Seq(S)
        /\ \/ (\A i \in 1 .. n : q[i] # e) /\ r = q
           \/ \E k \in 1 .. n :
                /\ q[k] = e /\ Len(r) = n - 1
                /\ \A i \in 1 .. Len(r) : r[i] = IF i < k THEN q[i] ELSE q[i + 1]
    BY <1>0, RemovedOnce
  <1> HIDE DEF r
  <1>2. CASE (\A i \in 1 .. n : q[i] # e) /\ r = q BY <1>0, <1>1, <1>2 DEF NoTwice, r
  <1>3. ASSUME NEW k \in 1 .. n, q[k] = e, Len(r) = n - 1,
               \A i \in 1 .. Len(r) : r[i] = IF i < k THEN q[i] ELSE q[i + 1]
        PROVE  NoTwice(r) /\ \A i \in 1 .. Len(r) : r[i] # e /\ \E j \in 1 .. n : r[i] = q[j]
    <2> DEFINE f(i) == IF i < k THEN i ELSE i + 1
    <2>1. ASSUME NEW i \in 1 .. n - 1 PROVE f(i) \in 1 .. n /\ f(i) # k /\ r[i] = q[f(i)] BY <1>0, <1>3
    <2>2. ASSUME NEW i \in 1 .. n - 1, NEW j \in 1 .. n - 1, f(i) = f(j) PROVE i = j BY <1>0, <2>2
    <2> HIDE DEF f, n
    <2>3. ASSUME NEW i \in 1 .. n - 1, NEW j \in 1 .. n - 1, r[i] = r[j] PROVE i = j
      <3>1. f(i) \in 1 .. n /\ f(j) \in 1 .. n /\ q[f(i)] = q[f(j)] BY <2>1, <2>3
      <3>2. f(i) = f(j) BY ONLY <1>0, <3>1
      <3> QED BY ONLY <2>2, <3>2
    <2>4. ASSUME NEW i \in 1 .. n - 1 PROVE r[i] # e /\ \E j \in 1 .. n : r[i] = q[j]
      <3>1. f(i) \in 1 .. n /\ f(i) # k /\ r[i] = q[f(i)] BY <2>1
      <3>2. q[f(i)] # q[k] BY ONLY <1>0, <3>1, k \in 1 .. n
      <3> QED BY ONLY <1>3, <3>1, <3>2
    <2> QED BY ONLY <1>3, <2>3, <2>4 DEF NoTwice
  <1> QED BY <1>1, <1>2, <1>3 DEF r

LEMMA Appended ==
  ASSUME NEW S, NEW q \in Seq(S), NoTwice(q), NEW e \in S, \A i \in 1 .. Len(q) : q[i] # e
  PROVE  /\ Append(q, e) \in Seq(S) /\ NoTwice(Append(q, e))
         /\ \A i \in 1 .. Len(Append(q, e)) : Append(q, e)[i] = e \/ \E j \in 1 .. Len(q) : Append(q, e)[i] = q[j]
  <1> DEFINE r == Append(q, e)
  <1>1. r \in Seq(S) /\ Len(r) = Len(q) + 1 /\ r[Len(q) + 1] = e /\ \A i \in 1 .. Len(q) : r[i] = q[i] OBVIOUS
  <1>2. Len(q) \in Nat OBVIOUS
  <1> HIDE DEF r
  <1>3. \A i \in 1 .. Len(r) : (i = Len(q) + 1 /\ r[i] = e) \/ (i \in 1 .. Len(q) /\ r[i] = q[i]) BY <1>1, <1>2
  <1> QED BY <1>1, <1>2, <1>3 DEF NoTwice, r

LEMMA TailKept ==
  ASSUME NEW S, NEW q \in Seq(S), NoTwice(q), q # <<>>
  PROVE  /\ Head(q) \in S /\ Tail(q) \in Seq(S) /\ NoTwice(Tail(q))
         /\ \A i \in 1 .. Len(Tail(q)) : \E j \in 1 .. Len(q) : Tail(q)[i] = q[j]
  <1> DEFINE r == Tail(q)
  <1>1. /\ Head(q) \in S /\ r \in Seq(S) /\ Len(r) = Len(q) - 1 /\ Len(q) \in Nat
        /\ \A i \in 1 .. Len(q) - 1 : r[i] = q[i + 1]
    OBVIOUS
  <1> HIDE DEF r
  <1>2. ASSUME NEW i \in 1 .. Len(r) PROVE i + 1 \in 1 .. Len(q) /\ r[i] = q[i + 1] /\ i \in Nat BY <1>1
  <1>3. ASSUME NEW i \in 1 .. Len(r), NEW j \in 1 .. Len(r), r[i] = r[j] PROVE i = j
    <2>1. i + 1 = j + 1 BY <1>2, <1>3 DEF NoTwice
    <2> QED BY <1>2, <2>1
  <1>4. \A i \in 1 .. Len(r) : \E j \in 1 .. Len(q) : r[i] = q[j] BY <1>2
  <1> QED BY <1>1, <1>3, <1>4 DEF NoTwice, r

\* A sequence becomes the most recently used, or leaves the order.
LEMMA TouchStep ==
  ASSUME KvOrderInv, KvOwnInv, NEW s \in KvSeqIds, s < kvNextId, kvNextId' = kvNextId,
         KvTouch(s) \/ kvOrder' = KvWithout(s)
  PROVE  KvOrderInv'
  <1> DEFINE r == RemoveFirst(kvOrder, s)
  <1>1. /\ r \in Seq(KvSeqIds) /\ NoTwice(r)
        /\ \A i \in 1 .. Len(r) : r[i] # s /\ \E j \in 1 .. Len(kvOrder) : r[i] = kvOrder[j]
    BY Reordered DEF KvOrderInv
  <1>2. \A i \in 1 .. Len(r) : r[i] < kvNextId BY <1>1 DEF KvOrderInv
  <1>3. kvOrder' = r \/ kvOrder' = Append(r, s) BY DEF KvTouch, KvWithout
  <1> HIDE DEF r
  <1>4. /\ Append(r, s) \in Seq(KvSeqIds) /\ NoTwice(Append(r, s))
        /\ \A i \in 1 .. Len(Append(r, s)) : Append(r, s)[i] = s \/ \E j \in 1 .. Len(r) : Append(r, s)[i] = r[j]
    BY <1>1, Appended
  <1>5. \A i \in 1 .. Len(Append(r, s)) : Append(r, s)[i] < kvNextId BY <1>2, <1>4
  <1> QED BY <1>1, <1>2, <1>3, <1>4, <1>5 DEF KvOrderInv

LEMMA OwnedEntry ==
  ASSUME KvTypes, KvOwnInv, KvSeqsInv, KvCallsInv, NEW t \in KvCallers
  PROVE  /\ KvOwned(t) \in KvEntry /\ kvAt[t] \in KvCall
         /\ CallOk(kvOwn[t], KvOwned(t), kvAt[t], kvPages, kvDisturbed)
         /\ kvOwn[t] # 0 => /\ kvOwn[t] \in KvSeqIds /\ kvOwn[t] < kvNextId /\ KvOwned(t) = kvEntries[kvOwn[t]]
                            /\ SeqOk(kvOwn[t], KvOwned(t), kvPages, kvDisturbed, kvQuantised)
  <1>1. kvOwn[t] # 0 => kvOwn[t] \in KvSeqIds BY KvAssumption DEF KvOwnInv, KvSeqIds
  <1>2. KvOwned(t) \in KvEntry BY <1>1, KvRecords DEF KvOwned, KvTypes
  <1> QED BY <1>1, <1>2 DEF KvOwned, KvTypes, KvOwnInv, KvSeqsInv, KvCallsInv

\* A call that is over, or was not yet writing.
LEMMA CallEnds ==
  ASSUME NEW s, NEW e \in KvEntry, NEW st, NEW pg, NEW dist, CallOk(s, e, st, pg, dist), ~KvWrites(st)
  PROVE  CallOk(s, e, KvIdle, pg, dist)
  BY KvRecords DEF CallOk, KvWrites, KvSearches

LEMMA CallMoves ==
  ASSUME KvInv, NEW t \in KvCallers, NEW st \in KvCall, st.at \notin {"push", "release"},
         kvAt' = [kvAt EXCEPT ![t] = st],
         CallOk(kvOwn[t], KvOwned(t), st, kvPages, kvDisturbed),
         UNCHANGED <<kvQuantised, kvPages, kvFree, kvEntries, kvNextId, kvOwn, kvDisturbed>>
  PROVE  KvTypes' /\ KvPagesInv' /\ KvOwnInv' /\ KvSeqsInv' /\ KvCallsInv'
  <1>1. KvTypes /\ KvPagesInv /\ KvOwnInv /\ KvSeqsInv /\ KvCallsInv BY DEF KvInv
  <1>2. kvAt \in [KvCallers -> KvCall] BY <1>1 DEF KvTypes
  <1>3. kvAt' \in [KvCallers -> KvCall] /\ kvAt'[t] = st /\ \A u \in KvCallers : u # t => kvAt'[u] = kvAt[u] BY <1>2
  <1>4. KvTypes' BY <1>1, <1>3 DEF KvTypes
  <1>5. KvOwnInv' BY <1>1 DEF KvOwnInv
  <1>6. KvOwned(t)' = KvOwned(t) BY DEF KvOwned
  <1>7. kvOwn[t] # 0 => SeqOk(kvOwn[t], kvEntries'[kvOwn[t]], kvPages', kvDisturbed', kvQuantised)
    BY <1>1, OwnedEntry
  <1>8. KvSeqsInv' /\ KvCallsInv' BY <1>1, <1>3, <1>6, <1>7, OthersKept
  <1>9. KvPagesInv'
    <2> DEFINE H == HeldIn(kvFree, kvEntries, kvAt)
               G == HeldIn(kvFree, kvEntries, kvAt')
    <2>1. Exclusive(H) /\ Within(H, Len(kvPages)) BY <1>1 DEF KvPagesInv
    <2>2. G[FreeList] = H[FreeList] BY HeldInIs
    <2>3. kvAt'[t].at # "push" /\ kvAt'[t].at # "release" BY <1>3
    <2>4. G[OfPush(t)] = <<>> /\ G[OfRelease(t)] = <<>>
      <3>1. /\ G[OfPush(t)] = IF kvAt'[t].at = "push" THEN <<kvAt'[t].page>> ELSE <<>>
            /\ G[OfRelease(t)] = IF kvAt'[t].at = "release" THEN kvAt'[t].pages ELSE <<>>
        BY ONLY HeldByCall, t \in KvCallers
      <3> QED BY ONLY <2>3, <3>1
    <2>5. \A h \in KvHolders : h = FreeList \/ h = OfPush(t) \/ h = OfRelease(t) \/ G[h] = H[h]
      <3>1. \A u \in KvCallers \ {t} : kvAt'[u] = kvAt[u] BY <1>3
      <3> QED BY ONLY <3>1, HeldByOthers, t \in KvCallers
    <2> HIDE DEF G, H
    <2>6. \A h \in KvHolders : G[h] = H[h] \/ G[h] = <<>> BY ONLY <2>2, <2>4, <2>5
    <2>7. Exclusive(G) /\ Within(G, Len(kvPages)) BY ONLY <2>1, <2>6, HoldersLose
    <2> QED BY <2>7 DEF KvPagesInv, G
  <1> QED BY <1>4, <1>5, <1>8, <1>9

LEMMA Judged ==
  ASSUME ReadsUndisturbed, NEW s, NEW got, KvJudge(s, got), s \notin kvDisturbed => \A q \in DOMAIN got : got[q] = <<s, q>>
  PROVE  ReadsUndisturbed'
  <1>1. \A m \in {IF s \in kvDisturbed THEN "disturbed" ELSE "plain" : pos \in {q \in DOMAIN got : got[q] # <<s, q>>}} : m # "plain"
    OBVIOUS
  <1> QED BY <1>1 DEF KvJudge, ReadsUndisturbed

LEMMA BeginAppendStep == ASSUME KvInv, NEW t \in KvCallers, KvBeginAppend(t) PROVE KvInv'
  <1> DEFINE s == kvOwn[t]
             e == kvEntries[s]
             st == [KvIdle EXCEPT !.pos = e.len, !.at = IF KvSlot(e.len) = 0 \/ e.pages = <<>> THEN "alloc" ELSE "find"]
  <1>1. KvTypes /\ KvOwnInv /\ KvSeqsInv /\ KvCallsInv /\ KvOrderInv /\ ReadsUndisturbed BY DEF KvInv
  <1>2. s # 0 /\ kvAt[t] = KvIdle /\ KvTouch(s) BY DEF KvBeginAppend
  <1>3. /\ s \in KvSeqIds /\ s < kvNextId /\ e \in KvEntry /\ KvOwned(t) = e
        /\ CallOk(s, e, KvIdle, kvPages, kvDisturbed)
    BY <1>1, <1>2, OwnedEntry
  <1>4. e.pages \in Seq(Nat) /\ e.len \in Nat BY <1>3 DEF KvEntry
  <1>5. st \in KvCall /\ st.pos = e.len /\ st.at = (IF KvSlot(e.len) = 0 \/ e.pages = <<>> THEN "alloc" ELSE "find")
    <2> DEFINE a == IF KvSlot(e.len) = 0 \/ e.pages = <<>> THEN "alloc" ELSE "find"
    <2>1. st = [KvIdle EXCEPT !.pos = e.len, !.at = a] OBVIOUS
    <2>2. a \in KvStages BY DEF KvStages
    <2> HIDE DEF a
    <2>3. [KvIdle EXCEPT !.pos = e.len, !.at = a] \in KvCall BY <1>4, <2>2, KvRecords DEF KvCall
    <2>4. [KvIdle EXCEPT !.pos = e.len, !.at = a].pos = e.len /\ [KvIdle EXCEPT !.pos = e.len, !.at = a].at = a BY DEF KvIdle
    <2> QED BY ONLY <2>1, <2>3, <2>4 DEF a
  <1>6. \/ kvAt' = [kvAt EXCEPT ![t] = KvIdle]
        \/ e.live /\ kvAt' = [kvAt EXCEPT ![t] = st]
    BY <1>2 DEF KvBeginAppend, KvGo, KvLive
  <1>7. UNCHANGED <<kvQuantised, kvPages, kvFree, kvEntries, kvNextId, kvOwn, kvDisturbed, kvMisread>> BY DEF KvBeginAppend
  <1> HIDE DEF st, e, s
  <1>8. KvOrderInv' BY <1>1, <1>2, <1>3, <1>7, TouchStep
  <1>9. ReadsUndisturbed' BY <1>1, <1>7 DEF ReadsUndisturbed
  <1>10. ASSUME e.live PROVE CallOk(s, e, st, kvPages, kvDisturbed)
    <2>1. s \notin kvDisturbed => Len(e.pages) = KvNeed(e.len) BY <1>2, <1>3, <1>10, KvRecords DEF CallOk, KvWrites
    <2>2. CASE st.at = "alloc"
      <3>1. KvSearches(st) /\ ~KvWrites(st) BY <2>2 DEF KvSearches, KvWrites
      <3>2. s \notin kvDisturbed => KvSlot(e.len) = 0
        <4> SUFFICES ASSUME s \notin kvDisturbed, e.pages = <<>> PROVE KvSlot(e.len) = 0 BY <1>5, <2>2
        <4>1. KvNeed(e.len) = 0 BY <2>1
        <4> QED BY <1>4, <4>1, Positions DEF KvNeed
      <3> QED BY <1>2, <1>5, <2>1, <2>2, <3>1, <3>2 DEF CallOk
    <2>3. CASE st.at = "find"
      <3>1. KvWrites(st) /\ ~KvSearches(st) BY <2>3 DEF KvSearches, KvWrites
      <3>2. s \notin kvDisturbed => Len(e.pages) = KvPageOf(e.len) BY <1>4, <1>5, <2>1, <2>3, NeedOfFull
      <3> QED BY <1>2, <1>5, <2>3, <3>1, <3>2 DEF CallOk
    <2> QED BY <1>5, <2>2, <2>3
  <1>11. KvTypes' /\ KvPagesInv' /\ KvOwnInv' /\ KvSeqsInv' /\ KvCallsInv'
    <2>1. CASE kvAt' = [kvAt EXCEPT ![t] = KvIdle]
      BY <1>3, <1>7, <2>1, KvRecords, CallMoves DEF s
    <2>2. CASE e.live /\ kvAt' = [kvAt EXCEPT ![t] = st]
      <3>1. st.at \notin {"push", "release"} BY <1>5
      <3> QED BY <1>3, <1>5, <1>7, <1>10, <2>2, <3>1, CallMoves DEF s
    <2> QED BY <1>6, <2>1, <2>2
  <1> QED BY <1>8, <1>9, <1>11 DEF KvInv

\* A step of one call, to st, that changes nothing but the order.
KvMoved(t, st) ==
    /\ kvAt' = [kvAt EXCEPT ![t] = st]
    /\ UNCHANGED <<kvQuantised, kvPages, kvFree, kvEntries, kvNextId, kvOwn, kvDisturbed>>

LEMMA MovedStep ==
  ASSUME KvInv, NEW t \in KvCallers, NEW st \in KvCall, st.at \notin {"push", "release"}, KvMoved(t, st),
         CallOk(kvOwn[t], KvOwned(t), st, kvPages, kvDisturbed), KvOrderInv', ReadsUndisturbed'
  PROVE  KvInv'
  <1>1. KvTypes' /\ KvPagesInv' /\ KvOwnInv' /\ KvSeqsInv' /\ KvCallsInv' BY CallMoves DEF KvMoved
  <1> QED BY <1>1 DEF KvInv

LEMMA OrderKept == ASSUME KvInv, UNCHANGED <<kvOrder, kvNextId>> PROVE KvOrderInv'
  BY DEF KvInv, KvOrderInv

LEMMA PickVictimStep == ASSUME KvInv, NEW t \in KvCallers, KvPickVictim(t) PROVE KvInv'
  <1> DEFINE st == kvAt[t]
             again == [st EXCEPT !.at = "retry"]
             remove == [st EXCEPT !.at = "remove", !.victim = Head(kvOrder), !.next = "retry"]
             s == kvOwn[t]
             e == KvOwned(t)
  <1>1. KvTypes /\ KvOwnInv /\ KvSeqsInv /\ KvCallsInv /\ KvOrderInv /\ ReadsUndisturbed BY DEF KvInv
  <1>2. st \in KvCall /\ e \in KvEntry /\ CallOk(s, e, st, kvPages, kvDisturbed) /\ st.at = "evict"
    BY <1>1, OwnedEntry DEF KvPickVictim
  <1>3. again \in KvCall /\ again.at = "retry" /\ again.pos = st.pos BY <1>2 DEF KvCall, KvStages
  <1>4. ASSUME kvOrder # <<>> PROVE Head(kvOrder) \in KvSeqIds /\ Tail(kvOrder) \in Seq(KvSeqIds) /\ NoTwice(Tail(kvOrder))
                /\ \A i \in 1 .. Len(Tail(kvOrder)) : \E j \in 1 .. Len(kvOrder) : Tail(kvOrder)[i] = kvOrder[j]
    BY <1>1, <1>4, TailKept DEF KvOrderInv
  <1>5. ASSUME kvOrder # <<>>
        PROVE  /\ remove \in KvCall /\ remove.at = "remove" /\ remove.pos = st.pos /\ remove.next = "retry"
               /\ remove.victim = Head(kvOrder)
    <2>1. Head(kvOrder) \in 0 .. KvMaxSeqs BY <1>4, <1>5, KvAssumption DEF KvSeqIds
    <2> QED BY <1>2, <2>1 DEF KvCall, KvStages
  <1>6. /\ UNCHANGED <<kvQuantised, kvPages, kvFree, kvEntries, kvNextId, kvOwn, kvDisturbed, kvMisread>>
        /\ \/ kvOrder = <<>> /\ kvAt' = [kvAt EXCEPT ![t] = again] /\ kvOrder' = kvOrder
           \/ kvOrder # <<>> /\ kvAt' = [kvAt EXCEPT ![t] = remove] /\ kvOrder' = Tail(kvOrder)
    BY DEF KvPickVictim, KvGo
  <1> HIDE DEF st, again, remove, s, e
  <1>7. ReadsUndisturbed' BY <1>1, <1>6 DEF ReadsUndisturbed
  <1>8. CASE kvOrder = <<>> /\ kvAt' = [kvAt EXCEPT ![t] = again] /\ kvOrder' = kvOrder
    <2>1. CallOk(s, e, again, kvPages, kvDisturbed) BY <1>2, <1>3 DEF CallOk, KvSearches, KvWrites
    <2>2. KvMoved(t, again) BY <1>6, <1>8 DEF KvMoved
    <2>3. KvOrderInv' BY <1>6, <1>8, OrderKept
    <2> QED BY <1>3, <1>7, <2>1, <2>2, <2>3, MovedStep DEF s, e
  <1>9. CASE kvOrder # <<>> /\ kvAt' = [kvAt EXCEPT ![t] = remove] /\ kvOrder' = Tail(kvOrder)
    <2>1. CallOk(s, e, remove, kvPages, kvDisturbed) BY <1>2, <1>4, <1>5, <1>9 DEF CallOk, KvSearches, KvWrites
    <2>2. KvMoved(t, remove) BY <1>6, <1>9 DEF KvMoved
    <2>3. KvOrderInv' BY <1>1, <1>4, <1>6, <1>9 DEF KvOrderInv
    <2> QED BY <1>5, <1>7, <1>9, <2>1, <2>2, <2>3, MovedStep DEF s, e
  <1> QED BY <1>6, <1>8, <1>9

LEMMA FindPageStep == ASSUME KvInv, NEW t \in KvCallers, KvFindPage(t) PROVE KvInv'
  <1> DEFINE st == kvAt[t]
             s == kvOwn[t]
             e == KvOwned(t)
             write == [st EXCEPT !.at = "write", !.page = e.pages[Len(e.pages)]]
  <1>1. KvTypes /\ KvOwnInv /\ KvSeqsInv /\ KvCallsInv /\ KvOrderInv /\ ReadsUndisturbed BY DEF KvInv
  <1>2. st \in KvCall /\ e \in KvEntry /\ CallOk(s, e, st, kvPages, kvDisturbed) /\ st.at = "find"
    BY <1>1, OwnedEntry DEF KvFindPage
  <1>3. s # 0 /\ e = kvEntries[s] BY <1>1, <1>2, OwnedEntry DEF CallOk
  <1>4. e.pages \in Seq(Nat) /\ e.len \in Nat BY <1>2 DEF KvEntry
  <1>5. /\ UNCHANGED <<kvQuantised, kvPages, kvFree, kvEntries, kvOrder, kvNextId, kvOwn, kvDisturbed, kvMisread>>
        /\ \/ e.pages = <<>> /\ kvAt' = [kvAt EXCEPT ![t] = KvIdle]
           \/ e.pages # <<>> /\ kvAt' = [kvAt EXCEPT ![t] = write]
    BY <1>3 DEF KvFindPage, KvGo, Last
  <1>6. ASSUME e.pages # <<>>
        PROVE  write \in KvCall /\ write.at = "write" /\ write.pos = st.pos /\ write.page = e.pages[Len(e.pages)]
    <2>1. e.pages[Len(e.pages)] \in Nat BY <1>4, <1>6
    <2> QED BY <1>2, <2>1 DEF KvCall, KvStages
  <1> HIDE DEF st, s, e, write
  <1>7. ReadsUndisturbed' /\ KvOrderInv' BY <1>1, <1>5, OrderKept DEF ReadsUndisturbed
  <1>8. CASE e.pages = <<>> /\ kvAt' = [kvAt EXCEPT ![t] = KvIdle]
    <2>1. s \in kvDisturbed \/ ~e.live
      <3> SUFFICES ASSUME s \notin kvDisturbed, e.live PROVE FALSE OBVIOUS
      <3>1. Len(e.pages) = KvPageOf(e.len) BY <1>2, <1>3 DEF CallOk, KvWrites
      <3> QED BY <1>4, <1>8, <3>1, Positions
    <2>2. CallOk(s, e, KvIdle, kvPages, kvDisturbed) BY <1>2, <1>3, <2>1, KvRecords DEF CallOk, KvSearches, KvWrites
    <2>3. KvMoved(t, KvIdle) BY <1>5, <1>8 DEF KvMoved
    <2> QED BY <1>7, <2>2, <2>3, KvRecords, MovedStep DEF s, e
  <1>9. CASE e.pages # <<>> /\ kvAt' = [kvAt EXCEPT ![t] = write]
    <2>1. CallOk(s, e, write, kvPages, kvDisturbed) BY <1>2, <1>3, <1>6, <1>9 DEF CallOk, KvSearches, KvWrites
    <2>2. KvMoved(t, write) BY <1>5, <1>9 DEF KvMoved
    <2> QED BY <1>6, <1>7, <1>9, <2>1, <2>2, MovedStep DEF s, e
  <1> QED BY <1>5, <1>8, <1>9

LEMMA FreeSequenceStep == ASSUME KvInv, NEW t \in KvCallers, KvFreeSequence(t) PROVE KvInv'
  <1> DEFINE s == kvOwn[t]
             e == KvOwned(t)
             st == [KvIdle EXCEPT !.at = "remove", !.victim = s]
  <1>1. KvTypes /\ KvOwnInv /\ KvSeqsInv /\ KvCallsInv /\ KvOrderInv /\ ReadsUndisturbed BY DEF KvInv
  <1>2. s # 0 /\ kvAt[t] = KvIdle /\ kvAt' = [kvAt EXCEPT ![t] = st] BY DEF KvFreeSequence, KvGo
  <1>3. e \in KvEntry /\ CallOk(s, e, KvIdle, kvPages, kvDisturbed) /\ s \in KvSeqIds
    BY <1>1, <1>2, OwnedEntry
  <1>4. st \in KvCall /\ st.at = "remove" /\ st.victim = s /\ st.next = "idle"
    <2>1. s \in 0 .. KvMaxSeqs BY <1>1 DEF KvOwnInv
    <2> QED BY <2>1, KvRecords DEF KvIdle, KvCall, KvStages
  <1> HIDE DEF s, e, st
  <1>5. CallOk(s, e, st, kvPages, kvDisturbed) BY <1>2, <1>3, <1>4, KvRecords DEF CallOk, KvSearches, KvWrites
  <1>6. KvMoved(t, st) /\ UNCHANGED <<kvOrder, kvNextId, kvMisread>> BY <1>2 DEF KvFreeSequence, KvMoved
  <1>7. KvOrderInv' /\ ReadsUndisturbed' BY <1>1, <1>6, OrderKept DEF ReadsUndisturbed
  <1> QED BY <1>4, <1>5, <1>6, <1>7, MovedStep DEF s, e

-----------------------------------------------------------------------------
(* The key/value cache: reads *)

LEMMA ReadKvStep == ASSUME KvInv, NEW t \in KvCallers, NEW pos \in 0 .. KvMaxLen - 1, KvReadKv(t, pos) PROVE KvInv'
  <1> DEFINE s == kvOwn[t]
             e == kvEntries[s]
             st == [KvIdle EXCEPT !.at = "read", !.pos = pos, !.page = e.pages[KvPageOf(pos)]]
             found == KvLive(s) /\ pos < e.len /\ pos >= Len(e.quant) /\ KvPageOf(pos) <= Len(e.pages)
             held == KvLive(s) /\ pos < e.len /\ ~(pos >= Len(e.quant))
             got == [q \in {pos} |-> e.quant[pos + 1]]
  <1>1. KvTypes /\ KvOwnInv /\ KvSeqsInv /\ KvCallsInv /\ KvOrderInv /\ ReadsUndisturbed BY DEF KvInv
  <1>2. s # 0 /\ kvAt[t] = KvIdle /\ KvTouch(s) BY DEF KvReadKv
  <1>3. /\ s \in KvSeqIds /\ s < kvNextId /\ e \in KvEntry /\ KvOwned(t) = e
        /\ CallOk(s, e, KvIdle, kvPages, kvDisturbed) /\ SeqOk(s, e, kvPages, kvDisturbed, kvQuantised)
    BY <1>1, <1>2, OwnedEntry
  <1>4. e.pages \in Seq(Nat) /\ e.len \in Nat /\ e.quant \in Seq(Nat \X Nat) /\ pos \in Nat BY <1>3 DEF KvEntry
  <1>5. ASSUME found
        PROVE  st \in KvCall /\ st.at = "read" /\ st.pos = pos /\ st.page = e.pages[KvPageOf(pos)]
    <2>1. KvPageOf(pos) \in 1 .. Len(e.pages) BY <1>4, <1>5, Positions
    <2>2. e.pages[KvPageOf(pos)] \in Nat BY <1>4, <2>1
    <2> QED BY <1>4, <2>2, KvRecords DEF KvIdle, KvCall, KvStages
  <1>6. /\ UNCHANGED <<kvQuantised, kvPages, kvFree, kvEntries, kvNextId, kvOwn, kvDisturbed>>
        /\ kvAt' = [kvAt EXCEPT ![t] = IF found THEN st ELSE KvIdle]
        /\ IF held THEN KvJudge(s, got) ELSE kvMisread' = kvMisread
    BY DEF KvReadKv, KvGo
  <1>7. found => e.live BY DEF KvLive
  <1>8. held => e.live /\ pos < e.len /\ pos < Len(e.quant) BY <1>4 DEF KvLive
  <1>9. found => pos < e.len /\ KvPageOf(pos) <= Len(e.pages) OBVIOUS
  <1>10. DOMAIN got = {pos} /\ got[pos] = e.quant[pos + 1] OBVIOUS
  <1> HIDE DEF s, e, st, found, held, got
  <1>11. KvOrderInv' BY <1>1, <1>2, <1>3, <1>6, TouchStep
  <1>12. ReadsUndisturbed'
    <2>1. CASE ~held BY <1>1, <1>6, <2>1 DEF ReadsUndisturbed
    <2>2. CASE held
      <3>1. ASSUME s \notin kvDisturbed PROVE e.quant[pos + 1] = <<s, pos>>
        <4>1. kvQuantised
          <5> SUFFICES ASSUME e.quant = <<>> PROVE FALSE BY <1>3 DEF SeqOk
          <5> QED BY <1>4, <1>8, <2>2
        <4>2. pos \in 0 .. e.len - 1 BY <1>4, <1>8, <2>2
        <4> QED BY <1>3, <1>8, <2>2, <3>1, <4>1, <4>2 DEF SeqOk
      <3>2. KvJudge(s, got) BY <1>6, <2>2
      <3>3. s \notin kvDisturbed => \A q \in DOMAIN got : got[q] = <<s, q>> BY <1>10, <3>1
      <3> QED BY <1>1, <3>2, <3>3, Judged
    <2> QED BY <2>1, <2>2
  <1>13. CASE found
    <2>1. KvMoved(t, st) BY <1>6, <1>13 DEF KvMoved
    <2>2. ~KvSearches(st) /\ ~KvWrites(st) BY <1>5, <1>13 DEF KvSearches, KvWrites
    <2>3. s \notin kvDisturbed /\ e.live => Len(e.pages) = KvNeed(e.len) BY <1>2, <1>3, KvRecords DEF CallOk, KvWrites
    <2>4. CallOk(s, e, st, kvPages, kvDisturbed)
      <3>1. st.at = "read" /\ st.pos < e.len /\ KvPageOf(st.pos) <= Len(e.pages) /\ st.page = e.pages[KvPageOf(st.pos)]
        BY <1>5, <1>9, <1>13
      <3> QED BY <1>2, <2>2, <2>3, <3>1 DEF CallOk
    <2> QED BY <1>3, <1>5, <1>11, <1>12, <1>13, <2>1, <2>4, MovedStep DEF s
  <1>14. CASE ~found
    <2>1. KvMoved(t, KvIdle) BY <1>6, <1>14 DEF KvMoved
    <2> QED BY <1>3, <1>11, <1>12, <2>1, KvRecords, MovedStep DEF s
  <1> QED BY <1>13, <1>14

LEMMA ReadPageStep == ASSUME KvInv, NEW t \in KvCallers, KvReadPage(t) PROVE KvInv'
  <1> DEFINE st == kvAt[t]
             s == kvOwn[t]
             e == KvOwned(t)
             got == [q \in {st.pos} |-> kvPages[st.page][KvSlot(st.pos)]]
  <1>1. KvTypes /\ KvOwnInv /\ KvSeqsInv /\ KvCallsInv /\ KvOrderInv /\ ReadsUndisturbed BY DEF KvInv
  <1>2. st \in KvCall /\ e \in KvEntry /\ CallOk(s, e, st, kvPages, kvDisturbed) /\ st.at = "read"
    BY <1>1, OwnedEntry DEF KvReadPage
  <1>3. s # 0 /\ e = kvEntries[s] /\ SeqOk(s, e, kvPages, kvDisturbed, kvQuantised) BY <1>1, <1>2, OwnedEntry DEF CallOk
  <1>4. st.pos \in Nat /\ e.len \in Nat BY <1>2 DEF KvCall, KvEntry
  <1>5. /\ UNCHANGED <<kvQuantised, kvPages, kvFree, kvEntries, kvOrder, kvNextId, kvOwn, kvDisturbed>>
        /\ kvAt' = [kvAt EXCEPT ![t] = KvIdle]
        /\ IF KvLive(s) THEN KvJudge(s, got) ELSE kvMisread' = kvMisread
    BY DEF KvReadPage, KvDone, KvGo
  <1>6. KvLive(s) => e.live BY <1>3 DEF KvLive
  <1>7. DOMAIN got = {st.pos} /\ got[st.pos] = kvPages[st.page][KvSlot(st.pos)] OBVIOUS
  <1> HIDE DEF st, s, e, got
  <1>8. ReadsUndisturbed'
    <2>1. CASE ~KvLive(s) BY <1>1, <1>5, <2>1 DEF ReadsUndisturbed
    <2>2. CASE KvLive(s)
      <3>1. ASSUME s \notin kvDisturbed PROVE kvPages[st.page][KvSlot(st.pos)] = <<s, st.pos>>
        <4>1. st.pos < e.len /\ st.page = e.pages[KvPageOf(st.pos)] BY <1>2, <1>3, <1>6, <2>2 DEF CallOk
        <4>2. st.pos \in 0 .. e.len - 1 BY <1>4, <4>1
        <4> QED BY <1>3, <1>6, <2>2, <3>1, <4>1, <4>2 DEF SeqOk
      <3>2. s \notin kvDisturbed => \A q \in DOMAIN got : got[q] = <<s, q>> BY <1>7, <3>1
      <3>3. KvJudge(s, got) BY <1>5, <2>2
      <3> QED BY <1>1, <3>2, <3>3, Judged
    <2> QED BY <2>1, <2>2
  <1>9. KvOrderInv' BY <1>5, OrderKept
  <1>10. ~KvWrites(st) BY <1>2 DEF KvWrites
  <1>11. CallOk(s, e, KvIdle, kvPages, kvDisturbed) BY <1>2, <1>10, CallEnds
  <1>12. KvMoved(t, KvIdle) BY <1>5 DEF KvMoved
  <1> QED BY <1>8, <1>9, <1>11, <1>12, KvRecords, MovedStep DEF s, e

LEMMA AttendStep == ASSUME KvInv, NEW t \in KvCallers, KvAttend(t) PROVE KvInv'
  <1> DEFINE s == kvOwn[t]
             e == kvEntries[s]
             st == [KvIdle EXCEPT !.at = "attend", !.pos = e.len, !.pages = e.pages]
             got == [q \in 0 .. e.len - 1 |-> e.quant[q + 1]]
  <1>1. KvTypes /\ KvPagesInv /\ KvOwnInv /\ KvSeqsInv /\ KvCallsInv /\ KvOrderInv /\ ReadsUndisturbed BY DEF KvInv
  <1>2. s # 0 /\ kvAt[t] = KvIdle /\ e.live BY DEF KvAttend, KvLive
  <1>3. /\ s \in KvSeqIds /\ s < kvNextId /\ e \in KvEntry /\ KvOwned(t) = e
        /\ CallOk(s, e, KvIdle, kvPages, kvDisturbed) /\ SeqOk(s, e, kvPages, kvDisturbed, kvQuantised)
    BY <1>1, <1>2, OwnedEntry
  <1>4. e.pages \in Seq(Nat) /\ e.len \in Nat BY <1>3 DEF KvEntry
  <1>5. st \in KvCall /\ st.at = "attend" /\ st.pos = e.len /\ st.pages = e.pages
    BY <1>4, KvRecords DEF KvIdle, KvCall, KvStages
  <1>6. /\ UNCHANGED <<kvQuantised, kvPages, kvFree, kvEntries, kvOrder, kvNextId, kvOwn, kvDisturbed>>
        /\ \/ kvQuantised /\ KvJudge(s, got) /\ UNCHANGED kvAt
           \/ kvAt' = [kvAt EXCEPT ![t] = st] /\ UNCHANGED kvMisread
    BY DEF KvAttend, KvGo
  <1>7. DOMAIN got = 0 .. e.len - 1 /\ \A q \in 0 .. e.len - 1 : got[q] = e.quant[q + 1] OBVIOUS
  <1> HIDE DEF s, e, st, got
  <1>8. KvOrderInv' BY <1>6, OrderKept
  <1>9. CASE kvQuantised /\ KvJudge(s, got) /\ UNCHANGED kvAt
    <2>1. s \notin kvDisturbed => \A q \in DOMAIN got : got[q] = <<s, q>> BY <1>2, <1>3, <1>7, <1>9 DEF SeqOk
    <2>2. ReadsUndisturbed' BY <1>1, <1>9, <2>1, Judged
    <2>3. KvTypes' /\ KvOwnInv' BY <1>1, <1>6, <1>9 DEF KvTypes, KvOwnInv
    <2>4. KvPagesInv' BY <1>1, <1>6, <1>9 DEF KvPagesInv
    <2>5. KvSeqsInv' BY <1>1, <1>6, <1>9 DEF KvSeqsInv
    <2>6. KvCallsInv' BY <1>1, <1>6, <1>9 DEF KvCallsInv, KvOwned
    <2> QED BY <1>8, <2>2, <2>3, <2>4, <2>5, <2>6 DEF KvInv
  <1>10. CASE kvAt' = [kvAt EXCEPT ![t] = st] /\ UNCHANGED kvMisread
    <2>1. KvMoved(t, st) BY <1>6, <1>10 DEF KvMoved
    <2>2. ReadsUndisturbed' BY <1>1, <1>10 DEF ReadsUndisturbed
    <2>3. ~KvSearches(st) /\ ~KvWrites(st) BY <1>5 DEF KvSearches, KvWrites
    <2>4. s \notin kvDisturbed => Len(e.pages) = KvNeed(e.len) BY <1>2, <1>3, KvRecords DEF CallOk, KvWrites
    <2>5. CallOk(s, e, st, kvPages, kvDisturbed) BY <1>2, <1>5, <2>3, <2>4 DEF CallOk
    <2> QED BY <1>3, <1>5, <1>8, <2>1, <2>2, <2>5, MovedStep DEF s
  <1> QED BY <1>6, <1>9, <1>10

LEMMA AttendPagesStep == ASSUME KvInv, NEW t \in KvCallers, KvAttendPages(t) PROVE KvInv'
  <1> DEFINE st == kvAt[t]
             s == kvOwn[t]
             e == KvOwned(t)
             found == {q \in 0 .. st.pos - 1 : KvPageOf(q) <= Len(st.pages)}
             got == [q \in found |-> kvPages[st.pages[KvPageOf(q)]][KvSlot(q)]]
  <1>1. KvTypes /\ KvOwnInv /\ KvSeqsInv /\ KvCallsInv /\ KvOrderInv /\ ReadsUndisturbed BY DEF KvInv
  <1>2. st \in KvCall /\ e \in KvEntry /\ CallOk(s, e, st, kvPages, kvDisturbed) /\ st.at = "attend"
    BY <1>1, OwnedEntry DEF KvAttendPages
  <1>3. s # 0 /\ e = kvEntries[s] /\ SeqOk(s, e, kvPages, kvDisturbed, kvQuantised) BY <1>1, <1>2, OwnedEntry DEF CallOk
  <1>4. /\ UNCHANGED <<kvQuantised, kvPages, kvFree, kvEntries, kvOrder, kvNextId, kvOwn, kvDisturbed>>
        /\ kvAt' = [kvAt EXCEPT ![t] = KvIdle]
        /\ IF KvLive(s) THEN KvJudge(s, got) ELSE kvMisread' = kvMisread
    BY DEF KvAttendPages, KvDone, KvGo
  <1>5. KvLive(s) => e.live BY <1>3 DEF KvLive
  <1>6. DOMAIN got = found /\ \A q \in found : q \in 0 .. st.pos - 1 /\ got[q] = kvPages[st.pages[KvPageOf(q)]][KvSlot(q)] OBVIOUS
  <1> HIDE DEF st, s, e, found, got
  <1>7. ReadsUndisturbed'
    <2>1. CASE ~KvLive(s) BY <1>1, <1>4, <2>1 DEF ReadsUndisturbed
    <2>2. CASE KvLive(s)
      <3>1. st.pages = e.pages /\ st.pos = e.len BY <1>2, <1>3, <1>5, <2>2 DEF CallOk
      <3>2. s \notin kvDisturbed => \A q \in DOMAIN got : got[q] = <<s, q>> 
        <4> SUFFICES ASSUME s \notin kvDisturbed, NEW q \in DOMAIN got PROVE got[q] = <<s, q>> OBVIOUS
        <4>1. q \in 0 .. e.len - 1 /\ got[q] = kvPages[e.pages[KvPageOf(q)]][KvSlot(q)] BY <1>6, <3>1
        <4> QED BY <1>3, <1>5, <2>2, <4>1 DEF SeqOk
      <3>3. KvJudge(s, got) BY <1>4, <2>2
      <3> QED BY <1>1, <3>2, <3>3, Judged
    <2> QED BY <2>1, <2>2
  <1>8. KvOrderInv' BY <1>4, OrderKept
  <1>9. ~KvWrites(st) BY <1>2 DEF KvWrites
  <1>10. CallOk(s, e, KvIdle, kvPages, kvDisturbed) BY <1>2, <1>9, CallEnds
  <1>11. KvMoved(t, KvIdle) BY <1>4 DEF KvMoved
  <1> QED BY <1>7, <1>8, <1>10, <1>11, KvRecords, MovedStep DEF s, e

-----------------------------------------------------------------------------
(* The key/value cache: the steps that move pages *)

\* What the holders hold now, and after the step of t.
KvHeldNow == HeldIn(kvFree, kvEntries, kvAt)

LEMMA HeldNow ==
  ASSUME NEW t \in KvCallers
  PROVE  /\ KvHeldNow[FreeList] = kvFree
         /\ \A s \in KvSeqIds : KvHeldNow[OfSeq(s)] = kvEntries[s].pages
         /\ KvHeldNow[OfPush(t)] = IF kvAt[t].at = "push" THEN <<kvAt[t].page>> ELSE <<>>
         /\ KvHeldNow[OfRelease(t)] = IF kvAt[t].at = "release" THEN kvAt[t].pages ELSE <<>>
  <1>1. KvHeldNow[FreeList] = kvFree /\ \A s \in KvSeqIds : KvHeldNow[OfSeq(s)] = kvEntries[s].pages
    BY HeldInIs DEF KvHeldNow
  <1>2. /\ HeldIn(kvFree, kvEntries, kvAt)[OfPush(t)] = IF kvAt[t].at = "push" THEN <<kvAt[t].page>> ELSE <<>>
        /\ HeldIn(kvFree, kvEntries, kvAt)[OfRelease(t)] = IF kvAt[t].at = "release" THEN kvAt[t].pages ELSE <<>>
    BY HeldByCall
  <1> QED BY ONLY <1>1, <1>2 DEF KvHeldNow

LEMMA HeldNext ==
  ASSUME NEW t \in KvCallers
  PROVE  /\ KvHeldNow'[FreeList] = kvFree'
         /\ \A s \in KvSeqIds : KvHeldNow'[OfSeq(s)] = kvEntries'[s].pages
         /\ KvHeldNow'[OfPush(t)] = IF kvAt'[t].at = "push" THEN <<kvAt'[t].page>> ELSE <<>>
         /\ KvHeldNow'[OfRelease(t)] = IF kvAt'[t].at = "release" THEN kvAt'[t].pages ELSE <<>>
  <1>1. KvHeldNow'[FreeList] = kvFree' /\ \A s \in KvSeqIds : KvHeldNow'[OfSeq(s)] = kvEntries'[s].pages
    BY HeldInIs DEF KvHeldNow
  <1>2. /\ HeldIn(kvFree', kvEntries', kvAt')[OfPush(t)] = IF kvAt'[t].at = "push" THEN <<kvAt'[t].page>> ELSE <<>>
        /\ HeldIn(kvFree', kvEntries', kvAt')[OfRelease(t)] = IF kvAt'[t].at = "release" THEN kvAt'[t].pages ELSE <<>>
    BY HeldByCall
  <1> QED BY ONLY <1>1, <1>2 DEF KvHeldNow

LEMMA HeldStep ==
  ASSUME NEW t \in KvCallers, NEW S \in SUBSET KvSeqIds,
         \A s \in KvSeqIds \ S : kvEntries'[s].pages = kvEntries[s].pages,
         \A u \in KvCallers : u # t => kvAt'[u] = kvAt[u]
  PROVE  \A h \in KvHolders :
           h = FreeList \/ h = OfPush(t) \/ h = OfRelease(t) \/ (\E s \in S : h = OfSeq(s)) \/ KvHeldNow'[h] = KvHeldNow[h]
  <1>1. \A u \in KvCallers \ {t} : kvAt'[u] = kvAt[u] OBVIOUS
  <1> QED BY <1>1, HeldElsewhere DEF KvHeldNow

LEMMA PagesInvIs ==
  /\ KvPagesInv <=> Exclusive(KvHeldNow) /\ Within(KvHeldNow, Len(kvPages))
  /\ KvPagesInv' <=> Exclusive(KvHeldNow') /\ Within(KvHeldNow', Len(kvPages'))
  BY DEF KvPagesInv, KvHeldNow

\* The call at t moves to st and nothing is said of the others.
LEMMA CallsTyped ==
  ASSUME KvTypes, NEW t \in KvCallers, NEW st \in KvCall, kvAt' = [kvAt EXCEPT ![t] = st]
  PROVE  kvAt' \in [KvCallers -> KvCall] /\ kvAt'[t] = st /\ \A u \in KvCallers : u # t => kvAt'[u] = kvAt[u]
  BY DEF KvTypes

LEMMA AllocateSequenceStep == ASSUME KvInv, NEW t \in KvCallers, KvAllocateSequence(t) PROVE KvInv'
  <1> DEFINE n == kvNextId
  <1>1. KvTypes /\ KvPagesInv /\ KvOwnInv /\ KvSeqsInv /\ KvCallsInv /\ KvOrderInv /\ ReadsUndisturbed BY DEF KvInv
  <1>2. n \in KvSeqIds /\ n \in 0 .. KvMaxSeqs /\ n # 0 /\ kvAt[t] = KvIdle BY <1>1, KvAssumption DEF KvAllocateSequence, KvSeqIds, KvTypes
  <1>3. /\ kvEntries' = [kvEntries EXCEPT ![n] = KvFresh] /\ kvOrder' = Append(kvOrder, n)
        /\ kvOwn' = [kvOwn EXCEPT ![t] = n] /\ kvNextId' = n + 1
        /\ UNCHANGED <<kvQuantised, kvPages, kvFree, kvAt, kvDisturbed, kvMisread>>
    BY DEF KvAllocateSequence
  <1>4. kvEntries' \in [KvSeqIds -> KvEntry] /\ kvEntries'[n] = KvFresh /\ \A s \in KvSeqIds : s # n => kvEntries'[s] = kvEntries[s]
    BY <1>1, <1>2, <1>3, KvRecords DEF KvTypes
  <1>5. KvTypes' BY <1>1, <1>3, <1>4 DEF KvTypes
  <1>6. KvOwnInv' /\ kvOwn'[t] = n /\ \A u \in KvCallers : u # t => kvOwn'[u] = kvOwn[u] /\ kvOwn[u] # n
    BY <1>1, <1>2, <1>3 DEF KvOwnInv, KvTypes
  <1>7. KvOrderInv'
    <2>1. \A i \in 1 .. Len(kvOrder) : kvOrder[i] # n /\ kvOrder[i] < n + 1 /\ kvOrder[i] < n
      <3> SUFFICES ASSUME NEW i \in 1 .. Len(kvOrder) PROVE kvOrder[i] # n /\ kvOrder[i] < n + 1 /\ kvOrder[i] < n OBVIOUS
      <3>1. kvOrder[i] \in KvSeqIds /\ kvOrder[i] < n BY <1>1 DEF KvOrderInv
      <3> QED BY <1>2, <3>1 DEF KvSeqIds
    <2>2. /\ Append(kvOrder, n) \in Seq(KvSeqIds) /\ NoTwice(Append(kvOrder, n))
          /\ \A i \in 1 .. Len(Append(kvOrder, n)) :
               Append(kvOrder, n)[i] = n \/ \E j \in 1 .. Len(kvOrder) : Append(kvOrder, n)[i] = kvOrder[j]
      BY <1>1, <1>2, <2>1, Appended DEF KvOrderInv
    <2>3. n < n + 1 BY <1>2
    <2>4. \A i \in 1 .. Len(Append(kvOrder, n)) : Append(kvOrder, n)[i] < n + 1 BY ONLY <2>1, <2>2, <2>3
    <2> QED BY ONLY <1>3, <2>2, <2>4 DEF KvOrderInv
  <1>8. KvSeqsInv'
    <2>1. SeqOk(n, KvFresh, kvPages, kvDisturbed, kvQuantised) BY KvRecords DEF SeqOk
    <2> QED BY <1>1, <1>3, <1>4, <2>1 DEF KvSeqsInv
  <1>9. KvCallsInv'
    <2>1. CallOk(n, KvFresh, KvIdle, kvPages, kvDisturbed) BY <1>2, KvRecords, NeedOfNone DEF CallOk, KvSearches, KvWrites
    <2>2. KvOwned(t)' = KvFresh BY <1>2, <1>4, <1>6 DEF KvOwned
    <2>3. ASSUME NEW u \in KvCallers, u # t PROVE KvOwned(u)' = KvOwned(u) /\ kvOwn'[u] = kvOwn[u]
      <3>1. kvOwn'[u] = kvOwn[u] /\ kvOwn[u] # n BY <1>6, <2>3
      <3>2. kvOwn[u] = 0 \/ kvOwn[u] \in KvSeqIds BY <1>1, KvAssumption DEF KvOwnInv, KvSeqIds
      <3> QED BY <1>4, <3>1, <3>2 DEF KvOwned
    <2>4. ASSUME NEW u \in KvCallers PROVE CallOk(kvOwn'[u], KvOwned(u)', kvAt'[u], kvPages', kvDisturbed')
      <3>1. CASE u = t BY <1>2, <1>3, <1>6, <2>1, <2>2, <3>1
      <3>2. CASE u # t BY <1>1, <1>3, <2>3, <3>2 DEF KvCallsInv
      <3> QED BY <3>1, <3>2
    <2> QED BY <2>4 DEF KvCallsInv
  <1>10. KvPagesInv'
    <2>1. \A h \in KvHolders :
            h = FreeList \/ h = OfPush(t) \/ h = OfRelease(t) \/ (\E s \in {n} : h = OfSeq(s)) \/ KvHeldNow'[h] = KvHeldNow[h]
      <3>1. {n} \in SUBSET KvSeqIds /\ \A s \in KvSeqIds \ {n} : kvEntries'[s].pages = kvEntries[s].pages BY <1>2, <1>4
      <3>2. \A u \in KvCallers : u # t => kvAt'[u] = kvAt[u] BY <1>3
      <3> HIDE DEF n
      <3> QED BY ONLY <3>1, <3>2, HeldStep, t \in KvCallers
    <2>2. KvHeldNow'[FreeList] = kvFree' /\ KvHeldNow[FreeList] = kvFree BY ONLY HeldNow, HeldNext, t \in KvCallers
    <2>3. KvHeldNow'[OfSeq(n)] = <<>> BY <1>2, <1>4, HeldNext, KvRecords
    <2>4. kvAt'[t].at # "push" /\ kvAt'[t].at # "release" BY <1>2, <1>3, KvRecords
    <2>5. KvHeldNow'[OfPush(t)] = <<>> /\ KvHeldNow'[OfRelease(t)] = <<>> BY ONLY <2>4, HeldNext, t \in KvCallers
    <2>6. kvFree' = kvFree /\ kvPages' = kvPages BY <1>3
    <2>7. \A h \in KvHolders : KvHeldNow'[h] = KvHeldNow[h] \/ KvHeldNow'[h] = <<>> BY ONLY <2>1, <2>2, <2>3, <2>5, <2>6
    <2>8. Exclusive(KvHeldNow) /\ Within(KvHeldNow, Len(kvPages)) BY ONLY <1>1, PagesInvIs
    <2>9. Exclusive(KvHeldNow') /\ Within(KvHeldNow', Len(kvPages)) BY ONLY <2>7, <2>8, HoldersLose
    <2> QED BY ONLY <2>6, <2>9, PagesInvIs
  <1>11. ReadsUndisturbed' BY <1>1, <1>3 DEF ReadsUndisturbed
  <1> QED BY <1>5, <1>6, <1>7, <1>8, <1>9, <1>10, <1>11 DEF KvInv

LEMMA ResetStep == ASSUME KvInv, KvReset PROVE KvInv'
  <1>1. KvTypes /\ KvPagesInv /\ KvOwnInv /\ KvSeqsInv /\ KvCallsInv /\ KvOrderInv /\ ReadsUndisturbed BY DEF KvInv
  <1>2. /\ kvEntries' = [s \in KvSeqIds |-> KvNone] /\ kvOrder' = <<>>
        /\ UNCHANGED <<kvQuantised, kvPages, kvFree, kvNextId, kvOwn, kvAt, kvDisturbed, kvMisread>>
    BY DEF KvReset
  <1>3. kvEntries' \in [KvSeqIds -> KvEntry] /\ \A s \in KvSeqIds : kvEntries'[s] = KvNone BY <1>2, KvRecords
  <1>4. KvTypes' /\ KvOwnInv' /\ ReadsUndisturbed' BY <1>1, <1>2, <1>3 DEF KvTypes, KvOwnInv, ReadsUndisturbed
  <1>5. KvOrderInv' BY <1>2 DEF KvOrderInv, NoTwice
  <1>6. KvSeqsInv' BY <1>3, KvRecords DEF KvSeqsInv, SeqOk
  <1>7. KvCallsInv'
    <2>1. ASSUME NEW t \in KvCallers PROVE CallOk(kvOwn[t], KvNone, kvAt[t], kvPages, kvDisturbed)
      BY <1>1, KvRecords DEF KvCallsInv, CallOk
    <2>2. ASSUME NEW t \in KvCallers PROVE KvOwned(t)' = KvNone
      <3>1. kvOwn[t] = 0 \/ kvOwn[t] \in KvSeqIds BY <1>1, KvAssumption DEF KvOwnInv, KvSeqIds
      <3> QED BY <1>2, <1>3, <3>1 DEF KvOwned
    <2> QED BY <1>2, <2>1, <2>2 DEF KvCallsInv
  <1>8. KvPagesInv'
    <2>1. Exclusive(KvHeldNow) /\ Within(KvHeldNow, Len(kvPages)) BY ONLY <1>1, PagesInvIs
    <2>2. ASSUME NEW h \in KvHolders PROVE KvHeldNow'[h] = KvHeldNow[h] \/ KvHeldNow'[h] = <<>>
      <3>1. CASE h = FreeList BY <1>2, <3>1, HeldInIs DEF KvHeldNow
      <3>2. ASSUME NEW s \in KvSeqIds, h = OfSeq(s) PROVE KvHeldNow'[h] = <<>> BY <1>3, <3>2, HeldInIs, KvRecords DEF KvHeldNow
      <3>3. ASSUME NEW t \in KvCallers, h = OfPush(t) \/ h = OfRelease(t) PROVE KvHeldNow'[h] = KvHeldNow[h]
        <4>1. kvAt'[t] = kvAt[t] BY <1>2
        <4>2. KvHeldNow'[OfPush(t)] = KvHeldNow[OfPush(t)] /\ KvHeldNow'[OfRelease(t)] = KvHeldNow[OfRelease(t)]
          BY ONLY <4>1, HeldNow, HeldNext, t \in KvCallers
        <4> QED BY <3>3, <4>2
      <3> QED BY <3>1, <3>2, <3>3, HoldersAre
    <2>3. Exclusive(KvHeldNow') /\ Within(KvHeldNow', Len(kvPages)) BY ONLY <2>1, <2>2, HoldersLose
    <2>4. kvPages' = kvPages BY <1>2
    <2> QED BY ONLY <2>3, <2>4, PagesInvIs
  <1> QED BY <1>4, <1>5, <1>6, <1>7, <1>8 DEF KvInv

LEMMA SeqPagesWithin ==
  ASSUME KvPagesInv, NEW s \in KvSeqIds
  PROVE  /\ kvEntries[s].pages \in Seq(1 .. Len(kvPages))
         /\ \A i \in 1 .. Len(kvEntries[s].pages) : kvEntries[s].pages[i] \in 1 .. Len(kvPages)
         /\ \A i, j \in 1 .. Len(kvEntries[s].pages) : kvEntries[s].pages[i] = kvEntries[s].pages[j] => i = j
  <1>1. OfSeq(s) \in KvHolders BY HoldersAre
  <1>2. KvHeldNow[OfSeq(s)] = kvEntries[s].pages BY HeldInIs DEF KvHeldNow
  <1>3. Exclusive(KvHeldNow) /\ Within(KvHeldNow, Len(kvPages)) BY PagesInvIs
  <1>4. kvEntries[s].pages \in Seq(1 .. Len(kvPages)) BY ONLY <1>1, <1>2, <1>3 DEF Within
  <1>5. \A i, j \in DOMAIN kvEntries[s].pages : kvEntries[s].pages[i] = kvEntries[s].pages[j] => i = j
    BY ONLY <1>1, <1>2, <1>3 DEF Exclusive
  <1>6. DOMAIN kvEntries[s].pages = 1 .. Len(kvEntries[s].pages) BY <1>4
  <1>7. \A i \in 1 .. Len(kvEntries[s].pages) : kvEntries[s].pages[i] \in 1 .. Len(kvPages) BY ONLY <1>4
  <1>8. \A i, j \in 1 .. Len(kvEntries[s].pages) : kvEntries[s].pages[i] = kvEntries[s].pages[j] => i = j BY ONLY <1>5, <1>6
  <1> QED BY ONLY <1>4, <1>7, <1>8

\* A call that searched for a page has it.
LEMMA PageFound ==
  ASSUME NEW s, NEW e \in KvEntry, NEW st \in KvCall, NEW got, NEW pg, NEW dist,
         CallOk(s, e, st, pg, dist), st.at \in {"alloc", "retry"}, got.at = "push", got.pos = st.pos
  PROVE  CallOk(s, e, got, pg, dist)
  BY DEF CallOk, KvSearches, KvWrites

LEMMA TakePageStep == ASSUME KvInv, NEW t \in KvCallers, KvTakePage(t) PROVE KvInv'
  <1> DEFINE st == kvAt[t]
             s == kvOwn[t]
             e == KvOwned(t)
             push(p) == [st EXCEPT !.at = "push", !.page = p]
             evict == [st EXCEPT !.at = "evict"]
  <1>1. KvTypes /\ KvPagesInv /\ KvOwnInv /\ KvSeqsInv /\ KvCallsInv /\ KvOrderInv /\ ReadsUndisturbed BY DEF KvInv
  <1>2. st \in KvCall /\ e \in KvEntry /\ CallOk(s, e, st, kvPages, kvDisturbed) /\ st.at \in {"alloc", "retry"}
    BY <1>1, OwnedEntry DEF KvTakePage
  <1>3. s # 0 /\ s \in KvSeqIds /\ e = kvEntries[s] /\ SeqOk(s, e, kvPages, kvDisturbed, kvQuantised) BY <1>1, <1>2, OwnedEntry DEF CallOk
  <1>4. UNCHANGED <<kvQuantised, kvEntries, kvOrder, kvNextId, kvOwn, kvDisturbed, kvMisread>> BY DEF KvTakePage
  <1>5. ASSUME NEW p \in Nat
        PROVE  push(p) \in KvCall /\ push(p).at = "push" /\ push(p).page = p /\ push(p).pos = st.pos
    BY <1>2 DEF KvCall, KvStages
  <1>6. evict \in KvCall /\ evict.at = "evict" /\ evict.pos = st.pos BY <1>2 DEF KvCall, KvStages
  <1>7. \/ /\ kvFree # <<>> /\ kvAt' = [kvAt EXCEPT ![t] = push(Head(kvFree))] /\ kvFree' = Tail(kvFree)
           /\ kvPages' = kvPages
        \/ /\ kvAt' = [kvAt EXCEPT ![t] = push(Len(kvPages) + 1)] /\ kvFree' = kvFree
           /\ kvPages' = Append(kvPages, KvBlank)
        \/ /\ kvAt' = [kvAt EXCEPT ![t] = evict] \/ kvAt' = [kvAt EXCEPT ![t] = KvIdle]
           /\ kvPages' = kvPages /\ kvFree' = kvFree
    BY DEF KvTakePage, KvGo
  <1>8. KvOrderInv' /\ ReadsUndisturbed' BY <1>1, <1>4, OrderKept DEF ReadsUndisturbed
  <1>9. KvHeldNow[FreeList] = kvFree /\ KvHeldNow[OfPush(t)] = <<>> /\ KvHeldNow[OfRelease(t)] = <<>>
    <2>1. kvAt[t].at # "push" /\ kvAt[t].at # "release" BY <1>2
    <2> QED BY ONLY <2>1, HeldNow, t \in KvCallers
  <1>10. Exclusive(KvHeldNow) /\ Within(KvHeldNow, Len(kvPages)) BY ONLY <1>1, PagesInvIs
  <1>11. Len(kvPages) \in Nat BY <1>1 DEF KvTypes
  <1> HIDE DEF st, s, e, push, evict
  <1>12. ASSUME NEW p \in Nat, kvAt' = [kvAt EXCEPT ![t] = push(p)],
                kvPages' \in Seq(KvContent), \A i \in 1 .. Len(kvPages) : kvPages'[i] = kvPages[i]
         PROVE  /\ KvTypes' /\ KvOwnInv' /\ KvSeqsInv' /\ KvCallsInv'
                /\ KvHeldNow'[FreeList] = kvFree' /\ KvHeldNow'[OfPush(t)] = <<p>> /\ KvHeldNow'[OfRelease(t)] = <<>>
                /\ \A h \in KvHolders : h = FreeList \/ h = OfPush(t) \/ h = OfRelease(t) \/ KvHeldNow'[h] = KvHeldNow[h]
    <2>1. kvAt' \in [KvCallers -> KvCall] /\ kvAt'[t] = push(p) /\ \A u \in KvCallers : u # t => kvAt'[u] = kvAt[u]
      BY <1>1, <1>5, <1>12, CallsTyped
    <2>2. KvTypes' /\ KvOwnInv' BY <1>1, <1>4, <1>12, <2>1 DEF KvTypes, KvOwnInv
    <2>3. \A o \in KvSeqIds : \A i \in 1 .. Len(kvEntries[o].pages) : kvPages'[kvEntries[o].pages[i]] = kvPages[kvEntries[o].pages[i]]
      BY <1>1, <1>12, SeqPagesWithin
    <2>4. SeqOk(s, e, kvPages', kvDisturbed, kvQuantised) BY <1>2, <1>3, <2>3, SeqKept
    <2>5. CallOk(s, e, push(p), kvPages', kvDisturbed)
      <3>1. CallOk(s, e, push(p), kvPages, kvDisturbed) BY <1>2, <1>5, PageFound
      <3> QED BY <1>2, <1>3, <2>3, <3>1, CallKept
    <2>6. KvOwned(t)' = e BY <1>4 DEF KvOwned, e
    <2>7. KvSeqsInv' /\ KvCallsInv'
      <3>1. SeqOk(kvOwn[t], kvEntries'[kvOwn[t]], kvPages', kvDisturbed', kvQuantised) BY <1>3, <1>4, <2>4 DEF s
      <3>2. CallOk(kvOwn[t], KvOwned(t)', kvAt'[t], kvPages', kvDisturbed') BY <1>4, <2>1, <2>5, <2>6 DEF s
      <3> QED BY <1>1, <1>4, <2>1, <2>3, <3>1, <3>2, OthersKept
    <2>8. KvHeldNow'[FreeList] = kvFree' /\ KvHeldNow'[OfPush(t)] = <<p>> /\ KvHeldNow'[OfRelease(t)] = <<>>
      <3>1. kvAt'[t].at = "push" /\ kvAt'[t].page = p BY <1>5, <2>1
      <3> QED BY ONLY <3>1, HeldNext, t \in KvCallers
    <2>9. \A h \in KvHolders : h = FreeList \/ h = OfPush(t) \/ h = OfRelease(t) \/ KvHeldNow'[h] = KvHeldNow[h]
      <3>1. \A u \in KvCallers \ {t} : kvAt'[u] = kvAt[u] BY <2>1
      <3>2. kvEntries' = kvEntries BY <1>4
      <3> QED BY ONLY <3>1, <3>2, HeldByOthers, t \in KvCallers DEF KvHeldNow
    <2> QED BY ONLY <2>2, <2>7, <2>8, <2>9
  <1>13. CASE kvFree # <<>> /\ kvAt' = [kvAt EXCEPT ![t] = push(Head(kvFree))] /\ kvFree' = Tail(kvFree) /\ kvPages' = kvPages
    <2>1. Head(kvFree) \in Nat
      <3>1. kvFree \in Seq(1 .. Len(kvPages)) BY <1>9, <1>10, HoldersAre DEF Within
      <3> QED BY <1>13, <3>1
    <2>2. kvPages' \in Seq(KvContent) /\ \A i \in 1 .. Len(kvPages) : kvPages'[i] = kvPages[i] BY <1>1, <1>13 DEF KvTypes
    <2>3. /\ KvTypes' /\ KvOwnInv' /\ KvSeqsInv' /\ KvCallsInv'
          /\ KvHeldNow'[FreeList] = Tail(kvFree) /\ KvHeldNow'[OfPush(t)] = <<Head(kvFree)>> /\ KvHeldNow'[OfRelease(t)] = <<>>
          /\ \A h \in KvHolders : h = FreeList \/ h = OfPush(t) \/ h = OfRelease(t) \/ KvHeldNow'[h] = KvHeldNow[h]
      BY <1>12, <1>13, <2>1, <2>2
    <2>4. FreeList \in KvHolders /\ OfPush(t) \in KvHolders /\ FreeList # OfPush(t) BY HoldersAre
    <2>5. \A h \in KvHolders : h = FreeList \/ h = OfPush(t) \/ KvHeldNow'[h] = KvHeldNow[h] BY ONLY <1>9, <2>3
    <2>6. KvHeldNow[FreeList] # <<>> BY ONLY <1>9, <1>13
    <2>7. KvHeldNow'[FreeList] = Tail(KvHeldNow[FreeList]) /\ KvHeldNow'[OfPush(t)] = <<Head(KvHeldNow[FreeList])>>
      BY ONLY <1>9, <2>3
    <2>8. Exclusive(KvHeldNow') /\ Within(KvHeldNow', Len(kvPages))
      BY ONLY <1>10, <2>4, <2>5, <2>6, <2>7, HoldersTakeHead
    <2>9. KvPagesInv' BY ONLY <1>13, <2>8, PagesInvIs
    <2> QED BY ONLY <1>8, <2>3, <2>9 DEF KvInv
  <1>14. CASE kvAt' = [kvAt EXCEPT ![t] = push(Len(kvPages) + 1)] /\ kvFree' = kvFree /\ kvPages' = Append(kvPages, KvBlank)
    <2>1. KvBlank \in KvContent BY DEF KvBlank, KvContent, KvZero
    <2>2. kvPages' \in Seq(KvContent) /\ Len(kvPages') = Len(kvPages) + 1 /\ \A i \in 1 .. Len(kvPages) : kvPages'[i] = kvPages[i]
      BY <1>1, <1>14, <2>1 DEF KvTypes
    <2>3. Len(kvPages) + 1 \in Nat BY <1>11
    <2>4. /\ KvTypes' /\ KvOwnInv' /\ KvSeqsInv' /\ KvCallsInv'
          /\ KvHeldNow'[FreeList] = kvFree' /\ KvHeldNow'[OfPush(t)] = <<Len(kvPages) + 1>> /\ KvHeldNow'[OfRelease(t)] = <<>>
          /\ \A h \in KvHolders : h = FreeList \/ h = OfPush(t) \/ h = OfRelease(t) \/ KvHeldNow'[h] = KvHeldNow[h]
      BY ONLY <1>12, <1>14, <2>2, <2>3
    <2>5. OfPush(t) \in KvHolders BY HoldersAre
    <2>6. \A h \in KvHolders : h = OfPush(t) \/ KvHeldNow'[h] = KvHeldNow[h] BY ONLY <1>9, <1>14, <2>4
    <2>7. Exclusive(KvHeldNow') /\ Within(KvHeldNow', Len(kvPages) + 1)
      BY ONLY <1>10, <1>11, <2>4, <2>5, <2>6, HoldersTakeNew
    <2>8. KvPagesInv' BY ONLY <2>2, <2>7, PagesInvIs
    <2> QED BY ONLY <1>8, <2>4, <2>8 DEF KvInv
  <1>15. CASE /\ kvAt' = [kvAt EXCEPT ![t] = evict] \/ kvAt' = [kvAt EXCEPT ![t] = KvIdle]
              /\ kvPages' = kvPages /\ kvFree' = kvFree
    <2>1. CallOk(s, e, evict, kvPages, kvDisturbed) BY <1>2, <1>6 DEF CallOk, KvSearches, KvWrites
    <2>2. CallOk(s, e, KvIdle, kvPages, kvDisturbed)
      <3>1. ~KvWrites(st) BY <1>2 DEF KvWrites
      <3> QED BY <1>2, <3>1, CallEnds
    <2>3. KvMoved(t, evict) \/ KvMoved(t, KvIdle) BY <1>4, <1>15 DEF KvMoved
    <2> QED BY <1>6, <1>8, <2>1, <2>2, <2>3, KvRecords, MovedStep DEF s, e
  <1> QED BY <1>7, <1>13, <1>14, <1>15

\* free_sequence takes the pages out of the sequence: the call has them.
LEMMA RemoveSequenceStep == ASSUME KvInv, NEW t \in KvCallers, KvRemoveSequence(t) PROVE KvInv'
  <1> DEFINE st == kvAt[t]
             s == kvOwn[t]
             e == KvOwned(t)
             v == st.victim
             held == kvEntries[v].pages
             release == [st EXCEPT !.at = "release", !.pages = held]
  <1>1. KvTypes /\ KvPagesInv /\ KvOwnInv /\ KvSeqsInv /\ KvCallsInv /\ KvOrderInv /\ ReadsUndisturbed BY DEF KvInv
  <1>2. st \in KvCall /\ e \in KvEntry /\ CallOk(s, e, st, kvPages, kvDisturbed) /\ st.at = "remove"
    BY <1>1, OwnedEntry DEF KvRemoveSequence
  <1>3. s # 0 /\ s \in KvSeqIds /\ e = kvEntries[s] /\ SeqOk(s, e, kvPages, kvDisturbed, kvQuantised) BY <1>1, <1>2, OwnedEntry DEF CallOk
  <1>4. v \in KvSeqIds BY <1>2 DEF CallOk
  <1>5. /\ UNCHANGED <<kvQuantised, kvPages, kvFree, kvNextId, kvOwn, kvDisturbed, kvMisread>>
        /\ \/ /\ kvEntries[v].live /\ kvEntries' = [kvEntries EXCEPT ![v] = KvNone] /\ kvOrder' = KvWithout(v)
              /\ kvAt' = [kvAt EXCEPT ![t] = release]
           \/ kvAt' = [kvAt EXCEPT ![t] = KvIdle] /\ UNCHANGED <<kvEntries, kvOrder>>
    BY DEF KvRemoveSequence, KvLive, KvGo, KvDone
  <1>6. held \in Seq(Nat) BY <1>1, <1>4 DEF KvTypes, KvEntry
  <1>7. /\ release \in KvCall /\ release.at = "release" /\ release.pages = held /\ release.pos = st.pos
        /\ release.next = st.next
    BY <1>2, <1>6 DEF KvCall, KvStages
  <1>8. ReadsUndisturbed' BY <1>1, <1>5 DEF ReadsUndisturbed
  <1>9. /\ KvHeldNow[FreeList] = kvFree /\ KvHeldNow[OfPush(t)] = <<>> /\ KvHeldNow[OfRelease(t)] = <<>>
        /\ KvHeldNow[OfSeq(v)] = held
    <2>1. kvAt[t].at # "push" /\ kvAt[t].at # "release" BY <1>2
    <2> QED BY ONLY <1>4, <2>1, HeldNow, t \in KvCallers
  <1>10. Exclusive(KvHeldNow) /\ Within(KvHeldNow, Len(kvPages)) BY ONLY <1>1, PagesInvIs
  <1> HIDE DEF st, s, e, v, held, release
  <1>11. CASE kvAt' = [kvAt EXCEPT ![t] = KvIdle] /\ UNCHANGED <<kvEntries, kvOrder>>
    <2>1. ~KvWrites(st) BY <1>2 DEF KvWrites
    <2>2. CallOk(s, e, KvIdle, kvPages, kvDisturbed) BY <1>2, <2>1, CallEnds
    <2>3. KvMoved(t, KvIdle) BY <1>5, <1>11 DEF KvMoved
    <2>4. KvOrderInv' BY <1>5, <1>11, OrderKept
    <2> QED BY <1>8, <2>2, <2>3, <2>4, KvRecords, MovedStep DEF s, e
  <1>12. CASE /\ kvEntries[v].live /\ kvEntries' = [kvEntries EXCEPT ![v] = KvNone] /\ kvOrder' = KvWithout(v)
              /\ kvAt' = [kvAt EXCEPT ![t] = release]
    <2>1. kvAt' \in [KvCallers -> KvCall] /\ kvAt'[t] = release /\ \A u \in KvCallers : u # t => kvAt'[u] = kvAt[u]
      BY <1>1, <1>7, <1>12, CallsTyped
    <2>2. kvEntries' \in [KvSeqIds -> KvEntry] /\ kvEntries'[v] = KvNone /\ \A o \in KvSeqIds : o # v => kvEntries'[o] = kvEntries[o]
      BY <1>1, <1>4, <1>12, KvRecords DEF KvTypes
    <2>3. KvTypes' /\ KvOwnInv' BY <1>1, <1>5, <2>1, <2>2 DEF KvTypes, KvOwnInv
    <2>4. KvOrderInv'
      <3> DEFINE r == RemoveFirst(kvOrder, v)
      <3>1. /\ r \in Seq(KvSeqIds) /\ NoTwice(r)
            /\ \A i \in 1 .. Len(r) : r[i] # v /\ \E j \in 1 .. Len(kvOrder) : r[i] = kvOrder[j]
        BY <1>1, <1>4, Reordered DEF KvOrderInv
      <3>2. kvOrder' = r BY <1>12 DEF KvWithout
      <3> HIDE DEF r
      <3>3. \A i \in 1 .. Len(r) : r[i] < kvNextId BY <1>1, <3>1 DEF KvOrderInv
      <3> QED BY ONLY <1>5, <3>1, <3>2, <3>3 DEF KvOrderInv
    <2>5. SeqOk(s, KvNone, kvPages, kvDisturbed, kvQuantised) BY KvRecords DEF SeqOk
    <2>6. kvEntries'[s] = KvNone \/ kvEntries'[s] = e BY <1>3, <2>2
    <2>7. CallOk(s, KvNone, release, kvPages, kvDisturbed) BY <1>3, <1>7, KvRecords DEF CallOk
    <2>8. CallOk(s, e, release, kvPages, kvDisturbed) BY <1>2, <1>3, <1>7 DEF CallOk, KvSearches, KvWrites
    <2>9. KvOwned(t)' = kvEntries'[s] BY <1>3, <1>5 DEF KvOwned, s
    <2>10. KvSeqsInv' /\ KvCallsInv'
      <3>1. SeqOk(kvOwn[t], kvEntries'[kvOwn[t]], kvPages', kvDisturbed', kvQuantised) BY <1>3, <1>5, <2>5, <2>6 DEF s
      <3>2. CallOk(kvOwn[t], KvOwned(t)', kvAt'[t], kvPages', kvDisturbed') BY <1>5, <2>1, <2>6, <2>7, <2>8, <2>9 DEF s
      <3>3. \A o \in KvSeqIds : kvEntries'[o] = kvEntries[o] \/ kvEntries'[o] = KvNone BY <2>2
      <3> QED BY <1>1, <1>5, <2>1, <3>1, <3>2, <3>3, OthersKept
    <2>11. KvHeldNow'[FreeList] = kvFree /\ KvHeldNow'[OfPush(t)] = <<>> /\ KvHeldNow'[OfRelease(t)] = held /\ KvHeldNow'[OfSeq(v)] = <<>>
      <3>1. kvAt'[t].at = "release" /\ kvAt'[t].pages = held /\ kvEntries'[v].pages = <<>> BY <1>7, <2>1, <2>2, KvRecords
      <3> QED BY ONLY <1>4, <1>5, <3>1, HeldNext, t \in KvCallers
    <2>12. \A h \in KvHolders :
             h = FreeList \/ h = OfPush(t) \/ h = OfRelease(t) \/ (\E o \in {v} : h = OfSeq(o)) \/ KvHeldNow'[h] = KvHeldNow[h]
      <3>1. {v} \in SUBSET KvSeqIds /\ \A o \in KvSeqIds \ {v} : kvEntries'[o].pages = kvEntries[o].pages BY <1>4, <2>2
      <3> QED BY ONLY <2>1, <3>1, HeldStep, t \in KvCallers
    <2>13. \A h \in KvHolders : h = OfSeq(v) \/ h = OfRelease(t) \/ KvHeldNow'[h] = KvHeldNow[h] BY ONLY <1>9, <2>11, <2>12
    <2>14. OfSeq(v) \in KvHolders /\ OfRelease(t) \in KvHolders /\ OfSeq(v) # OfRelease(t) BY <1>4, HoldersAre
    <2>15. KvHeldNow'[OfRelease(t)] = KvHeldNow[OfRelease(t)] \o KvHeldNow[OfSeq(v)]
      <3>1. << >> \o held = held BY <1>6
      <3> QED BY ONLY <1>9, <2>11, <3>1
    <2>16. Exclusive(KvHeldNow') /\ Within(KvHeldNow', Len(kvPages))
      BY ONLY <1>10, <2>11, <2>13, <2>14, <2>15, HoldersHandOver
    <2>17. KvPagesInv' BY ONLY <1>5, <2>16, PagesInvIs
    <2> QED BY ONLY <1>8, <2>3, <2>4, <2>10, <2>17 DEF KvInv
  <1> QED BY <1>5, <1>11, <1>12

LEMMA ReleasePagesStep == ASSUME KvInv, NEW t \in KvCallers, KvReleasePages(t) PROVE KvInv'
  <1> DEFINE st == kvAt[t]
             s == kvOwn[t]
             e == KvOwned(t)
             held == st.pages
             next == [st EXCEPT !.at = st.next, !.pages = <<>>, !.victim = 0, !.next = "idle"]
  <1>1. KvTypes /\ KvPagesInv /\ KvOwnInv /\ KvSeqsInv /\ KvCallsInv /\ KvOrderInv /\ ReadsUndisturbed BY DEF KvInv
  <1>2. st \in KvCall /\ e \in KvEntry /\ CallOk(s, e, st, kvPages, kvDisturbed) /\ st.at = "release"
    BY <1>1, OwnedEntry DEF KvReleasePages
  <1>3. s # 0 /\ s \in KvSeqIds /\ e = kvEntries[s] /\ SeqOk(s, e, kvPages, kvDisturbed, kvQuantised) BY <1>1, <1>2, OwnedEntry DEF CallOk
  <1>4. /\ UNCHANGED <<kvQuantised, kvEntries, kvOrder, kvNextId, kvOwn, kvDisturbed, kvMisread>>
        /\ kvFree' = kvFree \o held
        /\ kvPages' = [p \in DOMAIN kvPages |-> IF p \in Range(held) THEN KvBlank ELSE kvPages[p]]
        /\ kvAt' = [kvAt EXCEPT ![t] = next]
    BY DEF KvReleasePages, KvGo
  <1>5. st.next \in {"idle", "retry"} BY <1>2 DEF KvCall
  <1>6. next \in KvCall /\ next.at = st.next /\ next.pos = st.pos /\ next.next = "idle"
    <2>1. 0 \in 0 .. KvMaxSeqs /\ << >> \in Seq(Nat) BY KvAssumption
    <2> QED BY <1>2, <1>5, <2>1 DEF KvCall, KvStages
  <1>7. KvOrderInv' /\ ReadsUndisturbed' BY <1>1, <1>4, OrderKept DEF ReadsUndisturbed
  <1>8. KvHeldNow[FreeList] = kvFree /\ KvHeldNow[OfPush(t)] = <<>> /\ KvHeldNow[OfRelease(t)] = held
    <2>1. kvAt[t].at # "push" /\ kvAt[t].at = "release" BY <1>2
    <2> QED BY ONLY <2>1, HeldNow, t \in KvCallers
  <1>9. Exclusive(KvHeldNow) /\ Within(KvHeldNow, Len(kvPages)) BY ONLY <1>1, PagesInvIs
  <1>10. FreeList \in KvHolders /\ OfRelease(t) \in KvHolders /\ FreeList # OfRelease(t) BY HoldersAre
  <1>11. kvPages' \in Seq(KvContent) /\ Len(kvPages') = Len(kvPages)
    <2>1. KvBlank \in KvContent BY DEF KvBlank, KvContent, KvZero
    <2>2. kvPages \in Seq(KvContent) BY <1>1 DEF KvTypes
    <2>3. DOMAIN kvPages = 1 .. Len(kvPages) /\ Len(kvPages) \in Nat /\ \A p \in 1 .. Len(kvPages) : kvPages[p] \in KvContent BY <2>2
    <2> DEFINE f(p) == IF p \in Range(held) THEN KvBlank ELSE kvPages[p]
               m == Len(kvPages)
    <2>4. \A p \in 1 .. m : f(p) \in KvContent BY <2>1, <2>3
    <2>5. kvPages' = [p \in 1 .. m |-> f(p)] BY <1>4, <2>3
    <2>6. m \in Nat BY <2>3
    <2> HIDE DEF f, m
    <2>7. [p \in 1 .. m |-> f(p)] \in Seq(KvContent) /\ Len([p \in 1 .. m |-> f(p)]) = m BY <2>4, <2>6
    <2> QED BY ONLY <2>5, <2>7 DEF m
  <1>12. \A o \in KvSeqIds : \A i \in 1 .. Len(kvEntries[o].pages) : kvPages'[kvEntries[o].pages[i]] = kvPages[kvEntries[o].pages[i]]
    <2> SUFFICES ASSUME NEW o \in KvSeqIds, NEW i \in 1 .. Len(kvEntries[o].pages)
                 PROVE  kvPages'[kvEntries[o].pages[i]] = kvPages[kvEntries[o].pages[i]]
      OBVIOUS
    <2> DEFINE p == kvEntries[o].pages[i]
    <2>1. kvEntries[o].pages \in Seq(1 .. Len(kvPages)) /\ p \in 1 .. Len(kvPages) BY <1>1, SeqPagesWithin
    <2>2. i \in DOMAIN kvEntries[o].pages BY <2>1
    <2>3. p \in DOMAIN kvPages BY <1>1, <2>1 DEF KvTypes
    <2>4. OfSeq(o) \in KvHolders /\ OfSeq(o) # OfRelease(t) /\ KvHeldNow[OfSeq(o)] = kvEntries[o].pages BY HoldersAre, HeldNow
    <2>5. \A j \in DOMAIN held : held[j] # p BY ONLY <1>8, <1>9, <1>10, <2>2, <2>4 DEF Exclusive
    <2>6. p \notin Range(held) BY ONLY <2>5 DEF Range
    <2> HIDE DEF p, held
    <2>7. kvPages'[p] = kvPages[p] BY ONLY <1>4, <2>3, <2>6
    <2> QED BY ONLY <2>7 DEF p
  <1> HIDE DEF st, s, e, held, next
  <1>13. kvAt' \in [KvCallers -> KvCall] /\ kvAt'[t] = next /\ \A u \in KvCallers : u # t => kvAt'[u] = kvAt[u]
    BY <1>1, <1>4, <1>6, CallsTyped
  <1>14. KvTypes' /\ KvOwnInv' BY <1>1, <1>4, <1>11, <1>13 DEF KvTypes, KvOwnInv
  <1>15. CallOk(s, e, next, kvPages', kvDisturbed)
    <2>1. ~KvWrites(st) BY <1>2 DEF KvWrites
    <2>2. CASE st.next = "idle"
      <3>1. CallOk(s, e, next, kvPages, kvDisturbed) BY <1>2, <1>6, <2>1, <2>2 DEF CallOk, KvSearches, KvWrites
      <3> QED BY <1>2, <1>3, <1>12, <3>1, CallKept
    <2>3. CASE st.next = "retry"
      <3>1. CallOk(s, e, next, kvPages, kvDisturbed) BY <1>2, <1>6, <2>1, <2>3 DEF CallOk, KvSearches, KvWrites
      <3> QED BY <1>2, <1>3, <1>12, <3>1, CallKept
    <2> QED BY <1>5, <2>2, <2>3
  <1>16. KvSeqsInv' /\ KvCallsInv'
    <2>1. SeqOk(s, e, kvPages', kvDisturbed, kvQuantised) BY <1>2, <1>3, <1>12, SeqKept
    <2>2. KvOwned(t)' = e BY <1>4 DEF KvOwned, e
    <2>3. SeqOk(kvOwn[t], kvEntries'[kvOwn[t]], kvPages', kvDisturbed', kvQuantised) BY <1>3, <1>4, <2>1 DEF s
    <2>4. CallOk(kvOwn[t], KvOwned(t)', kvAt'[t], kvPages', kvDisturbed') BY <1>4, <1>13, <1>15, <2>2 DEF s
    <2> QED BY <1>1, <1>4, <1>12, <1>13, <2>3, <2>4, OthersKept
  <1>17. KvPagesInv'
    <2>1. KvHeldNow'[FreeList] = kvFree' /\ KvHeldNow'[OfPush(t)] = <<>> /\ KvHeldNow'[OfRelease(t)] = <<>>
      <3>1. kvAt'[t].at # "push" /\ kvAt'[t].at # "release" BY <1>5, <1>6, <1>13
      <3> QED BY ONLY <3>1, HeldNext, t \in KvCallers
    <2>2. \A h \in KvHolders : h = FreeList \/ h = OfPush(t) \/ h = OfRelease(t) \/ KvHeldNow'[h] = KvHeldNow[h]
      <3>1. \A u \in KvCallers \ {t} : kvAt'[u] = kvAt[u] BY <1>13
      <3>2. kvEntries' = kvEntries BY <1>4
      <3> QED BY ONLY <3>1, <3>2, HeldByOthers, t \in KvCallers DEF KvHeldNow
    <2>3. \A h \in KvHolders : h = OfRelease(t) \/ h = FreeList \/ KvHeldNow'[h] = KvHeldNow[h] BY ONLY <1>8, <2>1, <2>2
    <2>4. KvHeldNow'[FreeList] = KvHeldNow[FreeList] \o KvHeldNow[OfRelease(t)] BY ONLY <1>4, <1>8, <2>1
    <2>5. Exclusive(KvHeldNow') /\ Within(KvHeldNow', Len(kvPages))
      BY ONLY <1>9, <1>10, <2>1, <2>3, <2>4, HoldersHandOver
    <2> QED BY ONLY <1>11, <2>5, PagesInvIs
  <1> QED BY <1>7, <1>14, <1>16, <1>17 DEF KvInv

\* A page behind the others of a sequence.
KvWithPage(e, p) == [e EXCEPT !.pages = Append(@, p)]

LEMMA EntryExtended ==
  ASSUME NEW e \in KvEntry, NEW p \in Nat
  PROVE  LET f == KvWithPage(e, p) IN
         /\ f \in KvEntry /\ f.live = e.live /\ f.len = e.len /\ f.quant = e.quant
         /\ f.pages = Append(e.pages, p) /\ Len(f.pages) = Len(e.pages) + 1
         /\ \A i \in 1 .. Len(e.pages) : f.pages[i] = e.pages[i] /\ i \in 1 .. Len(f.pages)
  <1> DEFINE f == KvWithPage(e, p)
  <1>1. e.pages \in Seq(Nat) /\ e.len \in Nat /\ Len(e.pages) \in Nat BY DEF KvEntry
  <1>2. /\ Append(e.pages, p) \in Seq(Nat) /\ Len(Append(e.pages, p)) = Len(e.pages) + 1
        /\ \A i \in 1 .. Len(e.pages) : Append(e.pages, p)[i] = e.pages[i]
    BY <1>1
  <1>3. f \in KvEntry /\ f.live = e.live /\ f.len = e.len /\ f.quant = e.quant /\ f.pages = Append(e.pages, p)
    BY <1>2 DEF KvEntry, KvWithPage
  <1>4. Len(f.pages) = Len(e.pages) + 1 /\ \A i \in 1 .. Len(e.pages) : f.pages[i] = e.pages[i] /\ i \in 1 .. Len(f.pages)
    BY ONLY <1>1, <1>2, <1>3
  <1> QED BY ONLY <1>3, <1>4

LEMMA SeqExtended ==
  ASSUME NEW s, NEW e \in KvEntry, NEW p \in Nat, NEW pg, NEW dist, NEW quantised,
         SeqOk(s, e, pg, dist, quantised), e.live
  PROVE  SeqOk(s, KvWithPage(e, p), pg, dist, quantised)
  <1> DEFINE f == KvWithPage(e, p)
  <1>1. /\ f.live = e.live /\ f.len = e.len /\ f.quant = e.quant
        /\ \A i \in 1 .. Len(e.pages) : f.pages[i] = e.pages[i] /\ i \in 1 .. Len(f.pages)
    BY EntryExtended
  <1> HIDE DEF f
  <1>2. f.live /\ (quantised \/ f.quant = <<>>) BY <1>1 DEF SeqOk
  <1>3. ASSUME s \notin dist, NEW q \in 0 .. e.len - 1
        PROVE  KvPageOf(q) \in 1 .. Len(f.pages) /\ pg[f.pages[KvPageOf(q)]][KvSlot(q)] = <<s, q>>
    <2>1. KvPageOf(q) \in 1 .. Len(e.pages) /\ pg[e.pages[KvPageOf(q)]][KvSlot(q)] = <<s, q>> BY <1>3 DEF SeqOk
    <2>2. f.pages[KvPageOf(q)] = e.pages[KvPageOf(q)] /\ KvPageOf(q) \in 1 .. Len(f.pages) BY ONLY <1>1, <2>1
    <2> QED BY ONLY <2>1, <2>2
  <1>4. s \notin dist => (quantised => Len(f.quant) = e.len /\ \A q \in 0 .. e.len - 1 : f.quant[q + 1] = <<s, q>>)
    BY <1>1 DEF SeqOk
  <1>5. SeqOk(s, f, pg, dist, quantised) BY ONLY <1>1, <1>2, <1>3, <1>4 DEF SeqOk
  <1> QED BY <1>5 DEF f

LEMMA PushPageStep == ASSUME KvInv, NEW t \in KvCallers, KvPushPage(t) PROVE KvInv'
  <1> DEFINE st == kvAt[t]
             s == kvOwn[t]
             e == kvEntries[s]
             f == [e EXCEPT !.pages = Append(@, st.page)]
             find == [st EXCEPT !.at = "find", !.page = 0]
  <1>1. KvTypes /\ KvPagesInv /\ KvOwnInv /\ KvSeqsInv /\ KvCallsInv /\ KvOrderInv /\ ReadsUndisturbed BY DEF KvInv
  <1>2. st \in KvCall /\ CallOk(s, KvOwned(t), st, kvPages, kvDisturbed) /\ st.at = "push"
    BY <1>1, OwnedEntry DEF KvPushPage
  <1>3. /\ s # 0 /\ s \in KvSeqIds /\ e = KvOwned(t) /\ e \in KvEntry
        /\ SeqOk(s, e, kvPages, kvDisturbed, kvQuantised)
    BY <1>1, <1>2, OwnedEntry DEF CallOk
  <1>4. st.page \in Nat /\ e.pages \in Seq(Nat) /\ e.len \in Nat BY <1>2, <1>3 DEF KvCall, KvEntry
  <1>5. /\ UNCHANGED <<kvQuantised, kvPages, kvFree, kvOrder, kvNextId, kvOwn, kvDisturbed, kvMisread>>
        /\ kvAt' = [kvAt EXCEPT ![t] = find]
        /\ kvEntries' = IF e.live THEN [kvEntries EXCEPT ![s] = f] ELSE kvEntries
    BY <1>3 DEF KvPushPage, KvGo, KvLive
  <1>6. find \in KvCall /\ find.at = "find" /\ find.pos = st.pos BY <1>2 DEF KvCall, KvStages
  <1>7. /\ e.live => SeqOk(s, f, kvPages, kvDisturbed, kvQuantised)
        /\ f \in KvEntry /\ f.live = e.live /\ f.len = e.len
        /\ f.pages = Append(e.pages, st.page) /\ Len(f.pages) = Len(e.pages) + 1
    <2>1. f = KvWithPage(e, st.page) BY DEF KvWithPage
    <2> HIDE DEF f, e, s, st
    <2>2. /\ f \in KvEntry /\ f.live = e.live /\ f.len = e.len
          /\ f.pages = Append(e.pages, st.page) /\ Len(f.pages) = Len(e.pages) + 1
      BY <1>3, <1>4, <2>1, EntryExtended
    <2>3. e.live => SeqOk(s, f, kvPages, kvDisturbed, kvQuantised) BY ONLY <1>3, <1>4, <2>1, SeqExtended
    <2> QED BY ONLY <2>2, <2>3
  <1>8. KvOrderInv' /\ ReadsUndisturbed' BY <1>1, <1>5, OrderKept DEF ReadsUndisturbed
  <1>9. /\ KvHeldNow[FreeList] = kvFree /\ KvHeldNow[OfPush(t)] = <<st.page>> /\ KvHeldNow[OfRelease(t)] = <<>>
        /\ KvHeldNow[OfSeq(s)] = e.pages
    <2>1. kvAt[t].at = "push" /\ kvAt[t].at # "release" BY <1>2
    <2> QED BY ONLY <1>3, <2>1, HeldNow, t \in KvCallers
  <1>10. Exclusive(KvHeldNow) /\ Within(KvHeldNow, Len(kvPages)) BY ONLY <1>1, PagesInvIs
  <1>11. e.pages \o <<st.page>> = Append(e.pages, st.page) BY <1>4
  <1>12. CallOk(s, e, st, kvPages, kvDisturbed) BY <1>2, <1>3
  <1> HIDE DEF st, s, e, f, find
  <1>13. kvAt' \in [KvCallers -> KvCall] /\ kvAt'[t] = find /\ \A u \in KvCallers : u # t => kvAt'[u] = kvAt[u]
    BY <1>1, <1>5, <1>6, CallsTyped
  <1>14. /\ kvEntries' \in [KvSeqIds -> KvEntry] /\ kvEntries'[s] = (IF e.live THEN f ELSE e)
         /\ \A o \in KvSeqIds : o # s => kvEntries'[o] = kvEntries[o]
    BY <1>1, <1>3, <1>5, <1>7 DEF KvTypes, e
  <1>15. KvTypes' /\ KvOwnInv' BY <1>1, <1>5, <1>13, <1>14 DEF KvTypes, KvOwnInv
  <1>16. CallOk(s, IF e.live THEN f ELSE e, find, kvPages, kvDisturbed)
    <2>1. CASE ~e.live BY <1>3, <1>6, <2>1 DEF CallOk
    <2>2. CASE e.live
      <3>1. find.pos = f.len BY <1>3, <1>2, <1>6, <1>7, <1>12, <2>2 DEF CallOk, KvSearches
      <3>2. s \notin kvDisturbed => Len(f.pages) = KvPageOf(f.len)
        <4> SUFFICES ASSUME s \notin kvDisturbed PROVE Len(f.pages) = KvPageOf(f.len) OBVIOUS
        <4>1. KvSlot(e.len) = 0 /\ Len(e.pages) = KvNeed(e.len) BY <1>2, <1>3, <1>12, <2>2 DEF CallOk, KvSearches, KvWrites
        <4> QED BY <1>4, <1>7, <4>1, NeedOfFull
      <3>3. ~KvSearches(find) /\ KvWrites(find) BY <1>6 DEF KvSearches, KvWrites
      <3> QED BY <1>3, <1>6, <2>2, <3>1, <3>2, <3>3 DEF CallOk
    <2> QED BY <2>1, <2>2
  <1>17. KvSeqsInv' /\ KvCallsInv'
    <2>1. SeqOk(s, IF e.live THEN f ELSE e, kvPages, kvDisturbed, kvQuantised) BY <1>3, <1>7
    <2>2. KvOwned(t)' = IF e.live THEN f ELSE e BY <1>3, <1>5, <1>14 DEF KvOwned, s
    <2>3. SeqOk(kvOwn[t], kvEntries'[kvOwn[t]], kvPages', kvDisturbed', kvQuantised) BY <1>5, <1>14, <2>1 DEF s
    <2>4. CallOk(kvOwn[t], KvOwned(t)', kvAt'[t], kvPages', kvDisturbed') BY <1>5, <1>13, <1>16, <2>2 DEF s
    <2>5. \A o \in KvSeqIds : o # kvOwn[t] => kvEntries'[o] = kvEntries[o] BY <1>14 DEF s
    <2> QED BY <1>1, <1>5, <1>13, <2>3, <2>4, <2>5, OthersKept
  <1>18. KvPagesInv'
    <2>1. /\ KvHeldNow'[FreeList] = kvFree /\ KvHeldNow'[OfPush(t)] = <<>> /\ KvHeldNow'[OfRelease(t)] = <<>>
          /\ KvHeldNow'[OfSeq(s)] = kvEntries'[s].pages
      <3>1. kvAt'[t].at # "push" /\ kvAt'[t].at # "release" BY <1>6, <1>13
      <3> QED BY ONLY <1>3, <1>5, <3>1, HeldNext, t \in KvCallers
    <2>2. \A h \in KvHolders :
            h = FreeList \/ h = OfPush(t) \/ h = OfRelease(t) \/ (\E o \in {s} : h = OfSeq(o)) \/ KvHeldNow'[h] = KvHeldNow[h]
      <3>1. {s} \in SUBSET KvSeqIds /\ \A o \in KvSeqIds \ {s} : kvEntries'[o].pages = kvEntries[o].pages BY <1>3, <1>14
      <3> QED BY ONLY <1>13, <3>1, HeldStep, t \in KvCallers
    <2>3. \A h \in KvHolders : h = OfPush(t) \/ h = OfSeq(s) \/ KvHeldNow'[h] = KvHeldNow[h] BY ONLY <1>9, <2>1, <2>2
    <2>4. CASE e.live
      <3>1. KvHeldNow'[OfSeq(s)] = KvHeldNow[OfSeq(s)] \o KvHeldNow[OfPush(t)]
        BY ONLY <1>7, <1>9, <1>11, <1>14, <2>1, <2>4
      <3>2. OfPush(t) \in KvHolders /\ OfSeq(s) \in KvHolders /\ OfPush(t) # OfSeq(s) BY <1>3, HoldersAre
      <3>3. Exclusive(KvHeldNow') /\ Within(KvHeldNow', Len(kvPages)) BY ONLY <1>10, <2>1, <2>3, <3>1, <3>2, HoldersHandOver
      <3> QED BY ONLY <1>5, <3>3, PagesInvIs
    <2>5. CASE ~e.live
      <3>1. KvHeldNow'[OfSeq(s)] = KvHeldNow[OfSeq(s)] BY ONLY <1>9, <1>14, <2>1, <2>5
      <3>2. \A h \in KvHolders : KvHeldNow'[h] = KvHeldNow[h] \/ KvHeldNow'[h] = <<>> BY ONLY <2>1, <2>3, <3>1
      <3>3. Exclusive(KvHeldNow') /\ Within(KvHeldNow', Len(kvPages)) BY ONLY <1>10, <3>2, HoldersLose
      <3> QED BY ONLY <1>5, <3>3, PagesInvIs
    <2> QED BY <2>4, <2>5
  <1> QED BY <1>8, <1>15, <1>17, <1>18 DEF KvInv

-----------------------------------------------------------------------------
(* The key/value cache: the steps that write *)

LEMMA WritePageStep == ASSUME KvInv, NEW t \in KvCallers, KvWritePage(t) PROVE KvInv'
  <1> DEFINE st == kvAt[t]
             s == kvOwn[t]
             e == kvEntries[s]
             p == st.page
             slot == KvSlot(st.pos)
             count == [st EXCEPT !.at = "count", !.page = 0]
  <1>1. KvTypes /\ KvPagesInv /\ KvOwnInv /\ KvSeqsInv /\ KvCallsInv /\ KvOrderInv /\ ReadsUndisturbed BY DEF KvInv
  <1>2. st \in KvCall /\ CallOk(s, KvOwned(t), st, kvPages, kvDisturbed) /\ st.at = "write"
    BY <1>1, OwnedEntry DEF KvWritePage
  <1>3. /\ s # 0 /\ s \in KvSeqIds /\ e = KvOwned(t) /\ e \in KvEntry
        /\ SeqOk(s, e, kvPages, kvDisturbed, kvQuantised)
    BY <1>1, <1>2, OwnedEntry DEF CallOk
  <1>4. CallOk(s, e, st, kvPages, kvDisturbed) BY <1>2, <1>3
  <1>5. st.pos \in Nat /\ e.pages \in Seq(Nat) /\ e.len \in Nat BY <1>2, <1>3 DEF KvCall, KvEntry
  <1>6. /\ UNCHANGED <<kvQuantised, kvFree, kvEntries, kvOrder, kvNextId, kvOwn, kvMisread>>
        /\ kvAt' = [kvAt EXCEPT ![t] = count]
        /\ kvPages' = [kvPages EXCEPT ![p][slot] = <<s, st.pos>>]
        /\ kvDisturbed' = kvDisturbed \union {o \in KvSeqIds \ {s} : p \in Range(kvEntries[o].pages)}
    BY DEF KvWritePage, KvGo
  <1>7. count \in KvCall /\ count.at = "count" /\ count.pos = st.pos BY <1>2 DEF KvCall, KvStages
  <1>8. KvOrderInv' /\ ReadsUndisturbed' BY <1>1, <1>6, OrderKept DEF ReadsUndisturbed
  <1>9. slot \in 0 .. PageTokens - 1 BY <1>5, Positions
  <1>10. <<s, st.pos>> \in Nat \X Nat BY <1>3, <1>5 DEF KvSeqIds
  <1> HIDE DEF st, s, e, p, slot, count
  <1>11. /\ kvPages' \in Seq(KvContent) /\ Len(kvPages') = Len(kvPages)
         /\ \A x \in 1 .. Len(kvPages) : x # p => kvPages'[x] = kvPages[x]
         /\ p \in 1 .. Len(kvPages) =>
              /\ kvPages'[p][slot] = <<s, st.pos>>
              /\ \A y \in 0 .. PageTokens - 1 : y # slot => kvPages'[p][y] = kvPages[p][y]
    <2> DEFINE g == [kvPages[p] EXCEPT ![slot] = <<s, st.pos>>]
               m == Len(kvPages)
    <2>1. kvPages' = [kvPages EXCEPT ![p] = g] BY <1>6
    <2>2. kvPages \in Seq(KvContent) /\ m \in Nat /\ DOMAIN kvPages = 1 .. m BY <1>1 DEF KvTypes
    <2>3. ASSUME p \in 1 .. m
          PROVE  g \in KvContent /\ g[slot] = <<s, st.pos>> /\ \A y \in 0 .. PageTokens - 1 : y # slot => g[y] = kvPages[p][y]
      <3>1. kvPages[p] \in KvContent BY <2>2, <2>3
      <3> QED BY <1>9, <1>10, <3>1 DEF KvContent
    <2> HIDE DEF g, m
    <2>4. CASE p \in 1 .. m
      <3>1. kvPages' \in Seq(KvContent) /\ Len(kvPages') = Len(kvPages) BY <2>1, <2>2, <2>3, <2>4 DEF m
      <3>2. kvPages'[p] = g /\ \A x \in 1 .. m : x # p => kvPages'[x] = kvPages[x] BY <2>1, <2>2, <2>4
      <3> QED BY ONLY <2>3, <2>4, <3>1, <3>2 DEF m
    <2>5. CASE p \notin 1 .. m
      <3>1. kvPages' = kvPages BY ONLY <2>1, <2>2, <2>5
      <3> QED BY ONLY <2>2, <2>5, <3>1 DEF m
    <2> QED BY <2>4, <2>5
  <1>12. kvAt' \in [KvCallers -> KvCall] /\ kvAt'[t] = count /\ \A u \in KvCallers : u # t => kvAt'[u] = kvAt[u]
    BY <1>1, <1>6, <1>7, CallsTyped
  <1>13. KvTypes' /\ KvOwnInv'
    <2>1. kvDisturbed' \subseteq KvSeqIds BY <1>1, <1>6 DEF KvTypes
    <2> QED BY <1>1, <1>6, <1>11, <1>12, <2>1 DEF KvTypes, KvOwnInv
  <1>14. ASSUME NEW o \in KvSeqIds, o # s, o \notin kvDisturbed'
         PROVE  \A i \in 1 .. Len(kvEntries[o].pages) : kvPages'[kvEntries[o].pages[i]] = kvPages[kvEntries[o].pages[i]]
    <2>1. p \notin Range(kvEntries[o].pages) BY <1>6, <1>14
    <2>2. ASSUME NEW i \in 1 .. Len(kvEntries[o].pages)
          PROVE  kvEntries[o].pages[i] # p /\ kvEntries[o].pages[i] \in 1 .. Len(kvPages)
      <3>1. kvEntries[o].pages \in Seq(1 .. Len(kvPages)) /\ kvEntries[o].pages[i] \in 1 .. Len(kvPages) BY <1>1, SeqPagesWithin
      <3>2. i \in DOMAIN kvEntries[o].pages BY <3>1
      <3> QED BY ONLY <2>1, <3>1, <3>2 DEF Range
    <2> QED BY ONLY <1>11, <2>2
  <1>15. s \in kvDisturbed' <=> s \in kvDisturbed BY <1>6
  <1>16. ASSUME e.live
         PROVE  /\ st.pos = e.len /\ p = e.pages[Len(e.pages)] /\ Len(e.pages) \in 1 .. Len(e.pages) /\ p \in 1 .. Len(kvPages)
                /\ s \notin kvDisturbed => Len(e.pages) = KvPageOf(e.len)
    <2>1. /\ st.pos = e.len /\ p = e.pages[Len(e.pages)] /\ e.pages # <<>>
          /\ s \notin kvDisturbed => Len(e.pages) = KvPageOf(e.len)
      BY <1>2, <1>3, <1>4, <1>16 DEF CallOk, KvWrites, p
    <2>2. Len(e.pages) \in 1 .. Len(e.pages) BY <1>5, <2>1
    <2>3. p \in 1 .. Len(kvPages) BY <1>1, <1>3, <2>1, <2>2, SeqPagesWithin DEF e
    <2> QED BY ONLY <2>1, <2>2, <2>3
  <1>17. SeqOk(s, e, kvPages', kvDisturbed', kvQuantised)
    <2>1. ASSUME e.live, s \notin kvDisturbed, NEW q \in 0 .. e.len - 1
          PROVE  KvPageOf(q) \in 1 .. Len(e.pages) /\ kvPages'[e.pages[KvPageOf(q)]][KvSlot(q)] = <<s, q>>
      <3> DEFINE x == e.pages[KvPageOf(q)]
      <3>1. KvPageOf(q) \in 1 .. Len(e.pages) /\ kvPages[x][KvSlot(q)] = <<s, q>> BY <1>3, <2>1 DEF SeqOk
      <3>2. x \in 1 .. Len(kvPages) /\ (x = p => KvPageOf(q) = Len(e.pages))
        BY <1>1, <1>3, <1>16, <2>1, <3>1, SeqPagesWithin DEF e
      <3>3. q \in Nat /\ q # e.len BY <1>5
      <3>4. KvSlot(q) \in 0 .. PageTokens - 1 BY <3>3, Positions
      <3> HIDE DEF x
      <3>5. CASE x # p BY ONLY <1>11, <3>1, <3>2, <3>5 DEF x
      <3>6. CASE x = p
        <4>1. KvPageOf(q) = KvPageOf(e.len) BY <1>16, <2>1, <3>2, <3>6
        <4>2. KvSlot(q) # KvSlot(e.len) BY <1>5, <3>3, <4>1, PositionsApart
        <4>3. KvSlot(q) # slot BY <1>16, <2>1, <4>2 DEF slot
        <4>4. kvPages'[p][KvSlot(q)] = kvPages[p][KvSlot(q)] BY ONLY <1>11, <3>2, <3>4, <3>6, <4>3
        <4> QED BY ONLY <3>1, <3>6, <4>4 DEF x
      <3> QED BY <3>5, <3>6
    <2> QED BY <1>3, <1>15, <2>1 DEF SeqOk
  <1>18. CallOk(s, e, count, kvPages', kvDisturbed')
    <2>1. CASE ~e.live BY <1>3, <1>7, <2>1 DEF CallOk
    <2>2. CASE e.live
      <3>1. count.pos = e.len /\ e.pages # <<>> BY <1>2, <1>3, <1>4, <1>7, <1>16, <2>2 DEF CallOk
      <3>2. s \notin kvDisturbed' => Len(e.pages) = KvPageOf(e.len) BY <1>15, <1>16, <2>2
      <3>3. kvPages'[e.pages[Len(e.pages)]][KvSlot(e.len)] = <<s, e.len>>
        <4>1. p = e.pages[Len(e.pages)] /\ st.pos = e.len /\ slot = KvSlot(e.len) BY <1>16, <2>2 DEF slot
        <4>2. kvPages'[p][slot] = <<s, st.pos>> BY <1>11, <1>16, <2>2
        <4> QED BY ONLY <4>1, <4>2
      <3>4. ~KvSearches(count) /\ KvWrites(count) BY <1>7 DEF KvSearches, KvWrites
      <3> QED BY <1>3, <1>7, <3>1, <3>2, <3>3, <3>4 DEF CallOk
    <2> QED BY <2>1, <2>2
  <1>19. KvSeqsInv' /\ KvCallsInv'
    <2>1. KvOwned(t)' = e BY <1>3, <1>6 DEF KvOwned, s, e
    <2>2. SeqOk(kvOwn[t], kvEntries'[kvOwn[t]], kvPages', kvDisturbed', kvQuantised) BY <1>6, <1>17 DEF s, e
    <2>3. CallOk(kvOwn[t], KvOwned(t)', kvAt'[t], kvPages', kvDisturbed') BY <1>12, <1>18, <2>1 DEF s
    <2>4. kvDisturbed \subseteq kvDisturbed' BY <1>6
    <2>5. \A o \in KvSeqIds : o # kvOwn[t] /\ o \notin kvDisturbed' =>
            \A i \in 1 .. Len(kvEntries[o].pages) : kvPages'[kvEntries[o].pages[i]] = kvPages[kvEntries[o].pages[i]]
      BY <1>14 DEF s
    <2> QED BY <1>1, <1>6, <1>12, <2>2, <2>3, <2>4, <2>5, OthersKept
  <1>20. KvPagesInv'
    <2>1. /\ KvHeldNow'[FreeList] = KvHeldNow[FreeList] /\ KvHeldNow'[OfPush(t)] = <<>> /\ KvHeldNow'[OfRelease(t)] = <<>>
      <3>1. kvAt'[t].at # "push" /\ kvAt'[t].at # "release" BY <1>7, <1>12
      <3> QED BY ONLY <1>6, <3>1, HeldNow, HeldNext, t \in KvCallers
    <2>2. \A h \in KvHolders : h = FreeList \/ h = OfPush(t) \/ h = OfRelease(t) \/ KvHeldNow'[h] = KvHeldNow[h]
      <3>1. \A u \in KvCallers \ {t} : kvAt'[u] = kvAt[u] BY <1>12
      <3>2. kvEntries' = kvEntries BY <1>6
      <3> QED BY ONLY <3>1, <3>2, HeldByOthers, t \in KvCallers DEF KvHeldNow
    <2>3. \A h \in KvHolders : KvHeldNow'[h] = KvHeldNow[h] \/ KvHeldNow'[h] = <<>> BY ONLY <2>1, <2>2
    <2>4. Exclusive(KvHeldNow) /\ Within(KvHeldNow, Len(kvPages)) BY ONLY <1>1, PagesInvIs
    <2>5. Exclusive(KvHeldNow') /\ Within(KvHeldNow', Len(kvPages)) BY ONLY <2>3, <2>4, HoldersLose
    <2> QED BY ONLY <1>11, <2>5, PagesInvIs
  <1> QED BY <1>8, <1>13, <1>19, <1>20 DEF KvInv

\* The quantised store after one more token: either it has all of them, or it
\* began again and the sequence is marked.
LEMMA QuantStep ==
  ASSUME NEW quant \in Seq(Nat \X Nat), NEW tensor \in Nat \X Nat, NEW n \in Nat
  PROVE  LET r == KvQuantAppend(quant, tensor) IN
         /\ r \in Seq(Nat \X Nat)
         /\ n < Len(r) /\ Len(quant) = n =>
              Len(r) = n + 1 /\ r[n + 1] = tensor /\ \A i \in 1 .. n : r[i] = quant[i]
  <1>1. KvMaxSeqLen \in Nat /\ Len(quant) \in Nat BY KvAssumption
  <1>2. CASE Len(quant) >= KvMaxSeqLen
    <2>1. KvQuantAppend(quant, tensor) = <<tensor>> BY <1>2 DEF KvQuantAppend
    <2>2. <<tensor>> \in Seq(Nat \X Nat) /\ Len(<<tensor>>) = 1 /\ <<tensor>>[1] = tensor OBVIOUS
    <2>3. n < 1 => n = 0 /\ 1 .. n = {} OBVIOUS
    <2> QED BY <2>1, <2>2, <2>3
  <1>3. CASE ~(Len(quant) >= KvMaxSeqLen)
    <2>1. KvQuantAppend(quant, tensor) = Append(quant, tensor) BY <1>3 DEF KvQuantAppend
    <2>2. /\ Append(quant, tensor) \in Seq(Nat \X Nat) /\ Len(Append(quant, tensor)) = Len(quant) + 1
          /\ Append(quant, tensor)[Len(quant) + 1] = tensor
          /\ \A i \in 1 .. Len(quant) : Append(quant, tensor)[i] = quant[i]
      OBVIOUS
    <2> QED BY ONLY <2>1, <2>2
  <1> QED BY <1>2, <1>3

LEMMA CountTokenStep == ASSUME KvInv, NEW t \in KvCallers, KvCountToken(t) PROVE KvInv'
  <1> DEFINE st == kvAt[t]
             s == kvOwn[t]
             e == kvEntries[s]
             tensor == <<s, st.pos>>
             quant == KvQuantAppend(e.quant, tensor)
             kept == IF kvQuantised THEN quant ELSE e.quant
             f == [e EXCEPT !.len = @ + 1, !.quant = kept]
  <1>1. KvTypes /\ KvPagesInv /\ KvOwnInv /\ KvSeqsInv /\ KvCallsInv /\ KvOrderInv /\ ReadsUndisturbed BY DEF KvInv
  <1>2. st \in KvCall /\ CallOk(s, KvOwned(t), st, kvPages, kvDisturbed) /\ st.at = "count"
    BY <1>1, OwnedEntry DEF KvCountToken
  <1>3. /\ s # 0 /\ s \in KvSeqIds /\ e = KvOwned(t) /\ e \in KvEntry
        /\ SeqOk(s, e, kvPages, kvDisturbed, kvQuantised)
    BY <1>1, <1>2, OwnedEntry DEF CallOk
  <1>4. CallOk(s, e, st, kvPages, kvDisturbed) BY <1>2, <1>3
  <1>5. st.pos \in Nat /\ e.pages \in Seq(Nat) /\ e.len \in Nat /\ e.quant \in Seq(Nat \X Nat) BY <1>2, <1>3 DEF KvCall, KvEntry
  <1>6. tensor \in Nat \X Nat BY <1>3, <1>5 DEF KvSeqIds
  <1>7. /\ UNCHANGED <<kvQuantised, kvPages, kvFree, kvOrder, kvNextId, kvOwn, kvMisread>>
        /\ kvAt' = [kvAt EXCEPT ![t] = KvIdle]
        /\ kvEntries' = IF e.live THEN [kvEntries EXCEPT ![s] = f] ELSE kvEntries
        /\ kvDisturbed' = IF e.live /\ kvQuantised /\ Len(quant) <= e.len THEN kvDisturbed \union {s} ELSE kvDisturbed
    <2>1. /\ UNCHANGED <<kvQuantised, kvPages, kvFree, kvOrder, kvNextId, kvOwn, kvMisread>>
          /\ kvAt' = [kvAt EXCEPT ![t] = KvIdle]
          /\ kvDisturbed' = IF e.live /\ kvQuantised /\ Len(quant) <= e.len THEN kvDisturbed \union {s} ELSE kvDisturbed
      BY DEF KvCountToken, KvDone, KvGo
    <2>2. kvEntries' = IF e.live THEN [kvEntries EXCEPT ![s].len = @ + 1, ![s].quant = IF kvQuantised THEN quant ELSE @] ELSE kvEntries
      BY DEF KvCountToken
    <2>3. [kvEntries EXCEPT ![s].len = @ + 1, ![s].quant = IF kvQuantised THEN quant ELSE @] = [kvEntries EXCEPT ![s] = f]
      BY <1>1, <1>3 DEF KvTypes, KvEntry
    <2> QED BY ONLY <2>1, <2>2, <2>3
  <1>8. /\ quant \in Seq(Nat \X Nat)
        /\ e.len < Len(quant) /\ Len(e.quant) = e.len =>
             Len(quant) = e.len + 1 /\ quant[e.len + 1] = tensor /\ \A i \in 1 .. e.len : quant[i] = e.quant[i]
    <2> DEFINE old == e.quant
               n == e.len
    <2>1. old \in Seq(Nat \X Nat) /\ n \in Nat BY <1>5
    <2> HIDE DEF e, s, st, tensor, old, n
    <2>2. LET r == KvQuantAppend(old, tensor) IN
          /\ r \in Seq(Nat \X Nat)
          /\ n < Len(r) /\ Len(old) = n =>
               Len(r) = n + 1 /\ r[n + 1] = tensor /\ \A i \in 1 .. n : r[i] = old[i]
      BY ONLY <1>6, <2>1, QuantStep
    <2> QED BY ONLY <2>2 DEF old, n
  <1> HIDE DEF quant, tensor
  <1>9. kept \in Seq(Nat \X Nat) /\ (kvQuantised => kept = quant) /\ (~kvQuantised => kept = e.quant) BY <1>5, <1>8
  <1> HIDE DEF kept
  <1>10. f \in KvEntry /\ f.live = e.live /\ f.len = e.len + 1 /\ f.quant = kept /\ f.pages = e.pages
    <2> HIDE DEF e
    <2>1. e.len + 1 \in Nat BY <1>5
    <2> QED BY ONLY <1>3, <1>9, <2>1 DEF KvEntry
  <1>11. KvOrderInv' /\ ReadsUndisturbed' BY <1>1, <1>7, OrderKept DEF ReadsUndisturbed
  <1> HIDE DEF st, s, e, f
  <1>12. kvAt' \in [KvCallers -> KvCall] /\ kvAt'[t] = KvIdle /\ \A u \in KvCallers : u # t => kvAt'[u] = kvAt[u]
    BY <1>1, <1>7, KvRecords, CallsTyped
  <1>13. /\ kvEntries' \in [KvSeqIds -> KvEntry] /\ kvEntries'[s] = (IF e.live THEN f ELSE e)
         /\ \A o \in KvSeqIds : o # s => kvEntries'[o] = kvEntries[o]
    BY <1>1, <1>3, <1>7, <1>10 DEF KvTypes, e
  <1>14. KvTypes' /\ KvOwnInv' /\ kvDisturbed \subseteq kvDisturbed'
    <2>1. kvDisturbed' \subseteq KvSeqIds /\ kvDisturbed \subseteq kvDisturbed' BY <1>1, <1>3, <1>7 DEF KvTypes
    <2> QED BY <1>1, <1>7, <1>12, <1>13, <2>1 DEF KvTypes, KvOwnInv
  <1>15. ASSUME e.live
         PROVE  /\ st.pos = e.len
                /\ s \notin kvDisturbed => /\ Len(e.pages) = KvPageOf(e.len) /\ Len(e.pages) \in 1 .. Len(e.pages)
                                           /\ kvPages[e.pages[Len(e.pages)]][KvSlot(e.len)] = <<s, e.len>>
    <2>1. /\ st.pos = e.len /\ e.pages # <<>>
          /\ s \notin kvDisturbed => /\ Len(e.pages) = KvPageOf(e.len)
                                     /\ kvPages[e.pages[Len(e.pages)]][KvSlot(e.len)] = <<s, e.len>>
      BY <1>2, <1>3, <1>4, <1>15 DEF CallOk, KvWrites
    <2>2. Len(e.pages) \in 1 .. Len(e.pages) BY <1>5, <2>1
    <2> QED BY ONLY <2>1, <2>2
  <1>16. ASSUME e.live PROVE SeqOk(s, f, kvPages, kvDisturbed', kvQuantised)
    <2>1. f.live /\ (kvQuantised \/ f.quant = <<>>) BY <1>3, <1>9, <1>10, <1>16 DEF SeqOk
    <2>2. ASSUME s \notin kvDisturbed', NEW q \in 0 .. f.len - 1
          PROVE  KvPageOf(q) \in 1 .. Len(f.pages) /\ kvPages[f.pages[KvPageOf(q)]][KvSlot(q)] = <<s, q>>
      <3>1. s \notin kvDisturbed BY <1>14, <2>2
      <3>2. CASE q = e.len BY ONLY <1>10, <1>15, <1>16, <3>1, <3>2
      <3>3. CASE q # e.len
        <4>1. q \in 0 .. e.len - 1 BY <1>5, <1>10, <3>3
        <4> QED BY <1>3, <1>10, <1>16, <3>1, <4>1 DEF SeqOk
      <3> QED BY <3>2, <3>3
    <2>3. ASSUME s \notin kvDisturbed', kvQuantised
          PROVE  Len(f.quant) = f.len /\ \A q \in 0 .. f.len - 1 : f.quant[q + 1] = <<s, q>>
      <3>1. s \notin kvDisturbed BY <1>14, <2>3
      <3>2. Len(e.quant) = e.len /\ \A q \in 0 .. e.len - 1 : e.quant[q + 1] = <<s, q>> BY <1>3, <1>16, <2>3, <3>1 DEF SeqOk
      <3>3. ~(Len(quant) <= e.len) BY <1>7, <1>16, <2>3
      <3>4. e.len < Len(quant) BY <1>5, <1>8, <3>3
      <3>5. Len(quant) = e.len + 1 /\ quant[e.len + 1] = tensor /\ \A i \in 1 .. e.len : quant[i] = e.quant[i]
        BY ONLY <1>8, <3>2, <3>4
      <3>6. f.quant = quant /\ f.len = e.len + 1 BY <1>9, <1>10, <2>3
      <3>7. tensor = <<s, e.len>> BY <1>15, <1>16 DEF tensor
      <3>8. ASSUME NEW q \in 0 .. f.len - 1 PROVE quant[q + 1] = <<s, q>>
        <4>1. CASE q = e.len BY ONLY <3>5, <3>7, <4>1
        <4>2. CASE q # e.len
          <5>1. q \in 0 .. e.len - 1 /\ q + 1 \in 1 .. e.len BY ONLY <1>5, <3>6, <3>8, <4>2
          <5> QED BY ONLY <3>2, <3>5, <5>1
        <4> QED BY <4>1, <4>2
      <3>9. \A q \in 0 .. f.len - 1 : f.quant[q + 1] = <<s, q>> BY ONLY <3>6, <3>8
      <3> QED BY ONLY <3>5, <3>6, <3>9
    <2> QED BY ONLY <2>1, <2>2, <2>3 DEF SeqOk
  <1>17. SeqOk(s, IF e.live THEN f ELSE e, kvPages, kvDisturbed', kvQuantised)
    <2>1. CASE e.live BY <1>16, <2>1
    <2>2. CASE ~e.live
      <3>1. SeqOk(s, e, kvPages, kvDisturbed', kvQuantised) BY <1>3, <2>2 DEF SeqOk
      <3> QED BY <2>2, <3>1
    <2> QED BY <2>1, <2>2
  <1>18. CallOk(s, IF e.live THEN f ELSE e, KvIdle, kvPages, kvDisturbed')
    <2>1. CASE ~e.live BY <1>3, <2>1, KvRecords DEF CallOk
    <2>2. CASE e.live
      <3>1. s \notin kvDisturbed' => Len(f.pages) = KvNeed(f.len)
        <4>1. KvNeed(e.len + 1) = KvPageOf(e.len) BY <1>5, NeedOfNext
        <4> QED BY ONLY <1>10, <1>14, <1>15, <2>2, <4>1
      <3>2. ~KvSearches(KvIdle) /\ ~KvWrites(KvIdle) BY KvRecords DEF KvSearches, KvWrites
      <3>3. CallOk(s, f, KvIdle, kvPages, kvDisturbed') BY <1>3, <3>1, <3>2, KvRecords DEF CallOk
      <3> QED BY <2>2, <3>3
    <2> QED BY <2>1, <2>2
  <1>19. KvSeqsInv' /\ KvCallsInv'
    <2>1. KvOwned(t)' = IF e.live THEN f ELSE e BY <1>3, <1>7, <1>13 DEF KvOwned, s
    <2>2. SeqOk(kvOwn[t], kvEntries'[kvOwn[t]], kvPages', kvDisturbed', kvQuantised) BY <1>7, <1>13, <1>17 DEF s
    <2>3. CallOk(kvOwn[t], KvOwned(t)', kvAt'[t], kvPages', kvDisturbed') BY <1>7, <1>12, <1>18, <2>1 DEF s
    <2>4. \A o \in KvSeqIds : o # kvOwn[t] => kvEntries'[o] = kvEntries[o] BY <1>13 DEF s
    <2> QED BY <1>1, <1>7, <1>12, <1>14, <2>2, <2>3, <2>4, OthersKept
  <1>20. KvPagesInv'
    <2>1. /\ KvHeldNow'[FreeList] = KvHeldNow[FreeList] /\ KvHeldNow'[OfPush(t)] = <<>> /\ KvHeldNow'[OfRelease(t)] = <<>>
      <3>1. kvAt'[t].at # "push" /\ kvAt'[t].at # "release" BY <1>12, KvRecords
      <3> QED BY ONLY <1>7, <3>1, HeldNow, HeldNext, t \in KvCallers
    <2>2. \A o \in KvSeqIds : kvEntries'[o].pages = kvEntries[o].pages BY <1>10, <1>13 DEF e
    <2>3. \A h \in KvHolders : h = FreeList \/ h = OfPush(t) \/ h = OfRelease(t) \/ KvHeldNow'[h] = KvHeldNow[h]
      <3> DEFINE none == {}
      <3>1. none \in SUBSET KvSeqIds /\ \A o \in none : FALSE OBVIOUS
      <3>2. \A o \in KvSeqIds \ none : kvEntries'[o].pages = kvEntries[o].pages BY <2>2
      <3> HIDE DEF none
      <3>3. \A h \in KvHolders :
              h = FreeList \/ h = OfPush(t) \/ h = OfRelease(t) \/ (\E o \in none : h = OfSeq(o)) \/ KvHeldNow'[h] = KvHeldNow[h]
        BY ONLY <1>12, <3>1, <3>2, HeldStep, t \in KvCallers
      <3> QED BY ONLY <3>1, <3>3
    <2>4. \A h \in KvHolders : KvHeldNow'[h] = KvHeldNow[h] \/ KvHeldNow'[h] = <<>> BY ONLY <2>1, <2>3
    <2>5. Exclusive(KvHeldNow) /\ Within(KvHeldNow, Len(kvPages)) BY ONLY <1>1, PagesInvIs
    <2>6. Exclusive(KvHeldNow') /\ Within(KvHeldNow', Len(kvPages)) BY ONLY <2>4, <2>5, HoldersLose
    <2> QED BY ONLY <1>7, <2>6, PagesInvIs
  <1> QED BY <1>11, <1>14, <1>19, <1>20 DEF KvInv

LEMMA EvictBeyondWindowStep == ASSUME KvInv, NEW t \in KvCallers, KvEvictBeyondWindow(t) PROVE KvInv'
  <1> DEFINE s == kvOwn[t]
             e == kvEntries[s]
             cutoff == IF e.len > KvKeep THEN e.len - KvKeep ELSE 0
             asked == cutoff \div PageTokens
             n == IF asked < Len(e.pages) THEN asked ELSE Len(e.pages)
             f == [e EXCEPT !.pages = SubSeq(e.pages, n + 1, Len(e.pages))]
             st == [KvIdle EXCEPT !.at = "release", !.pages = SubSeq(e.pages, 1, n)]
  <1>1. KvTypes /\ KvPagesInv /\ KvOwnInv /\ KvSeqsInv /\ KvCallsInv /\ KvOrderInv /\ ReadsUndisturbed BY DEF KvInv
  <1>2. s # 0 /\ kvAt[t] = KvIdle /\ e.live BY DEF KvEvictBeyondWindow, KvLive
  <1>3. /\ s \in KvSeqIds /\ s < kvNextId /\ e \in KvEntry /\ KvOwned(t) = e
        /\ SeqOk(s, e, kvPages, kvDisturbed, kvQuantised)
    BY <1>1, <1>2, OwnedEntry
  <1>4. e.pages \in Seq(Nat) /\ e.len \in Nat /\ Len(e.pages) \in Nat BY <1>3 DEF KvEntry
  <1>5. n \in 0 .. Len(e.pages)
    <2>1. cutoff \in Nat BY <1>4, KvAssumption
    <2>2. asked \in Nat BY <2>1, Positions
    <2> QED BY <1>4, <2>2
  <1>6. /\ UNCHANGED <<kvQuantised, kvPages, kvFree, kvOrder, kvNextId, kvOwn, kvMisread>>
        /\ kvAt' = [kvAt EXCEPT ![t] = st]
        /\ kvEntries' = [kvEntries EXCEPT ![s] = f]
        /\ kvDisturbed' = kvDisturbed \union {s}
    BY DEF KvEvictBeyondWindow, KvGo
  <1> HIDE DEF n
  <1>7. SubSeq(e.pages, n + 1, Len(e.pages)) \in Seq(Nat) /\ SubSeq(e.pages, 1, n) \in Seq(Nat) BY <1>4, <1>5, Parted
  <1> DEFINE head == SubSeq(e.pages, 1, n)
             rest == SubSeq(e.pages, n + 1, Len(e.pages))
  <1>8. f = [e EXCEPT !.pages = rest] /\ st = [KvIdle EXCEPT !.at = "release", !.pages = head] OBVIOUS
  <1>9. head \in Seq(Nat) /\ rest \in Seq(Nat) BY <1>7
  <1>10. KvHeldNow[FreeList] = kvFree /\ KvHeldNow[OfPush(t)] = <<>> /\ KvHeldNow[OfRelease(t)] = <<>> /\ KvHeldNow[OfSeq(s)] = e.pages
    <2>1. kvAt[t].at # "push" /\ kvAt[t].at # "release" BY <1>2, KvRecords
    <2> QED BY ONLY <1>3, <2>1, HeldNow, t \in KvCallers
  <1> HIDE DEF head, rest, f, st, e, s
  <1>11. f \in KvEntry /\ f.live = e.live /\ f.len = e.len /\ f.quant = e.quant /\ f.pages = rest
    BY <1>3, <1>8, <1>9 DEF KvEntry
  <1>12. st \in KvCall /\ st.at = "release" /\ st.pages = head /\ st.next = "idle"
    BY <1>8, <1>9, KvRecords DEF KvCall, KvIdle, KvStages
  <1>13. KvOrderInv' /\ ReadsUndisturbed' BY <1>1, <1>6, OrderKept DEF ReadsUndisturbed
  <1>14. kvAt' \in [KvCallers -> KvCall] /\ kvAt'[t] = st /\ \A u \in KvCallers : u # t => kvAt'[u] = kvAt[u]
    BY <1>1, <1>6, <1>12, CallsTyped
  <1>15. /\ kvEntries' \in [KvSeqIds -> KvEntry] /\ kvEntries'[s] = f
         /\ \A o \in KvSeqIds : o # s => kvEntries'[o] = kvEntries[o]
    BY <1>1, <1>3, <1>6, <1>11 DEF KvTypes
  <1>16. KvTypes' /\ KvOwnInv'
    <2>1. kvDisturbed' \subseteq KvSeqIds BY <1>1, <1>3, <1>6 DEF KvTypes
    <2> QED BY <1>1, <1>6, <1>14, <1>15, <2>1 DEF KvTypes, KvOwnInv
  <1>17. s \in kvDisturbed' BY <1>6
  <1>18. SeqOk(s, f, kvPages, kvDisturbed', kvQuantised) BY <1>2, <1>3, <1>11, <1>17 DEF SeqOk
  <1>19. CallOk(s, f, st, kvPages, kvDisturbed') BY <1>2, <1>12, <1>17 DEF CallOk, KvSearches, KvWrites
  <1>20. KvSeqsInv' /\ KvCallsInv'
    <2>1. KvOwned(t)' = f BY <1>2, <1>6, <1>15 DEF KvOwned, s
    <2>2. SeqOk(kvOwn[t], kvEntries'[kvOwn[t]], kvPages', kvDisturbed', kvQuantised) BY <1>6, <1>15, <1>18 DEF s
    <2>3. CallOk(kvOwn[t], KvOwned(t)', kvAt'[t], kvPages', kvDisturbed') BY <1>6, <1>14, <1>19, <2>1 DEF s
    <2>4. \A o \in KvSeqIds : o # kvOwn[t] => kvEntries'[o] = kvEntries[o] BY <1>15 DEF s
    <2> QED BY <1>1, <1>6, <1>14, <2>2, <2>3, <2>4, OthersKept
  <1>21. KvPagesInv'
    <2>1. /\ KvHeldNow'[FreeList] = kvFree /\ KvHeldNow'[OfPush(t)] = <<>> /\ KvHeldNow'[OfRelease(t)] = head
          /\ KvHeldNow'[OfSeq(s)] = rest
      <3>1. kvAt'[t].at # "push" /\ kvAt'[t].at = "release" /\ kvAt'[t].pages = head /\ kvEntries'[s].pages = rest
        BY <1>11, <1>12, <1>14, <1>15
      <3> QED BY ONLY <1>3, <1>6, <3>1, HeldNext, t \in KvCallers
    <2>2. \A h \in KvHolders :
            h = FreeList \/ h = OfPush(t) \/ h = OfRelease(t) \/ (\E o \in {s} : h = OfSeq(o)) \/ KvHeldNow'[h] = KvHeldNow[h]
      <3>1. {s} \in SUBSET KvSeqIds /\ \A o \in KvSeqIds \ {s} : kvEntries'[o].pages = kvEntries[o].pages BY <1>3, <1>15
      <3> QED BY ONLY <1>14, <3>1, HeldStep, t \in KvCallers
    <2>3. \A h \in KvHolders : h = OfSeq(s) \/ h = OfRelease(t) \/ KvHeldNow'[h] = KvHeldNow[h] BY ONLY <1>10, <2>1, <2>2
    <2>4. OfSeq(s) \in KvHolders /\ OfRelease(t) \in KvHolders /\ OfSeq(s) # OfRelease(t) BY <1>3, HoldersAre
    <2>5. n \in 0 .. Len(KvHeldNow[OfSeq(s)]) BY ONLY <1>5, <1>10
    <2>6. /\ KvHeldNow'[OfSeq(s)] = SubSeq(KvHeldNow[OfSeq(s)], n + 1, Len(KvHeldNow[OfSeq(s)]))
          /\ KvHeldNow'[OfRelease(t)] = SubSeq(KvHeldNow[OfSeq(s)], 1, n)
      BY ONLY <1>10, <2>1 DEF head, rest
    <2>7. Exclusive(KvHeldNow) /\ Within(KvHeldNow, Len(kvPages)) BY ONLY <1>1, PagesInvIs
    <2>8. Exclusive(KvHeldNow') /\ Within(KvHeldNow', Len(kvPages))
      BY ONLY <2>3, <2>4, <2>5, <2>6, <2>7, HoldersSplit
    <2> QED BY ONLY <1>6, <2>8, PagesInvIs
  <1> QED BY <1>13, <1>16, <1>20, <1>21 DEF KvInv

-----------------------------------------------------------------------------
(* The memory of a request *)

LEMMA KvInitial == KvInit => KvInv
  <1> SUFFICES ASSUME KvInit PROVE KvInv OBVIOUS
  <1>1. KvTypes /\ KvOwnInv
    <2>1. << >> \in Seq(KvContent) OBVIOUS
    <2> QED BY <2>1, KvAssumption, KvRecords DEF KvInit, KvTypes, KvOwnInv
  <1>2. KvOrderInv BY DEF KvInit, KvOrderInv, NoTwice
  <1>3. KvSeqsInv BY KvRecords DEF KvInit, KvSeqsInv, SeqOk
  <1>4. KvCallsInv
    <2>1. \A t \in KvCallers : kvOwn[t] = 0 /\ KvOwned(t) = KvNone /\ kvAt[t] = KvIdle BY DEF KvInit, KvOwned
    <2>2. CallOk(0, KvNone, KvIdle, kvPages, kvDisturbed) BY KvRecords DEF CallOk
    <2> QED BY <2>1, <2>2 DEF KvCallsInv
  <1>5. KvPagesInv
    <2>1. ASSUME NEW h \in KvHolders PROVE KvHeldNow[h] = <<>>
      <3>1. CASE h = FreeList BY <3>1, HeldInIs DEF KvHeldNow, KvInit
      <3>2. ASSUME NEW s \in KvSeqIds, h = OfSeq(s) PROVE KvHeldNow[h] = <<>>
        BY <3>2, HeldInIs, KvRecords DEF KvHeldNow, KvInit
      <3>3. ASSUME NEW t \in KvCallers, h = OfPush(t) \/ h = OfRelease(t) PROVE KvHeldNow[h] = <<>>
        <4>1. kvAt[t].at # "push" /\ kvAt[t].at # "release" BY KvRecords DEF KvInit
        <4>2. KvHeldNow[OfPush(t)] = <<>> /\ KvHeldNow[OfRelease(t)] = <<>> BY ONLY <4>1, HeldNow, t \in KvCallers
        <4> QED BY <3>3, <4>2
      <3> QED BY <3>1, <3>2, <3>3, HoldersAre
    <2>2. DOMAIN << >> = {} OBVIOUS
    <2>3. << >> \in Seq(1 .. Len(kvPages)) OBVIOUS
    <2>4. Exclusive(KvHeldNow) BY <2>1, <2>2 DEF Exclusive
    <2>5. Within(KvHeldNow, Len(kvPages)) BY <2>1, <2>3 DEF Within
    <2> QED BY <2>4, <2>5, PagesInvIs
  <1>6. ReadsUndisturbed BY DEF KvInit, ReadsUndisturbed
  <1> QED BY <1>1, <1>2, <1>3, <1>4, <1>5, <1>6 DEF KvInv

LEMMA KvStep == KvInv /\ [KvNext]_kvVars => KvInv'
  <1> SUFFICES ASSUME KvInv, [KvNext]_kvVars PROVE KvInv' OBVIOUS
  <1>1. ASSUME NEW t \in KvCallers, KvAppendKv(t) PROVE KvInv'
    BY <1>1, BeginAppendStep, TakePageStep, PickVictimStep, PushPageStep, FindPageStep, WritePageStep, CountTokenStep
       DEF KvAppendKv
  <1>2. ASSUME NEW t \in KvCallers, NEW pos \in 0 .. KvMaxLen - 1, KvReadKv(t, pos) PROVE KvInv' BY <1>2, ReadKvStep
  <1>3. ASSUME NEW t \in KvCallers,
               \/ KvAllocateSequence(t) \/ KvRemoveSequence(t) \/ KvReleasePages(t) \/ KvReadPage(t)
               \/ KvAttend(t) \/ KvAttendPages(t) \/ KvFreeSequence(t) \/ KvEvictBeyondWindow(t)
        PROVE  KvInv'
    BY <1>3, AllocateSequenceStep, RemoveSequenceStep, ReleasePagesStep, ReadPageStep, AttendStep, AttendPagesStep,
       FreeSequenceStep, EvictBeyondWindowStep
  <1>4. CASE UNCHANGED kvVars
    <2>1. KvTypes /\ KvPagesInv /\ KvOwnInv /\ KvSeqsInv /\ KvCallsInv /\ KvOrderInv /\ ReadsUndisturbed BY DEF KvInv
    <2>2. KvTypes' /\ KvOwnInv' /\ KvOrderInv' /\ ReadsUndisturbed'
      BY <1>4, <2>1 DEF kvVars, KvTypes, KvOwnInv, KvOrderInv, ReadsUndisturbed
    <2>3. KvPagesInv' BY <1>4, <2>1 DEF kvVars, KvPagesInv
    <2>4. KvSeqsInv' BY <1>4, <2>1 DEF kvVars, KvSeqsInv
    <2>5. KvCallsInv' BY <1>4, <2>1 DEF kvVars, KvCallsInv, KvOwned
    <2> QED BY <2>2, <2>3, <2>4, <2>5 DEF KvInv
  <1> QED BY <1>1, <1>2, <1>3, <1>4, ResetStep DEF KvNext

LEMMA KvSafe == KvInv => PagesExclusive /\ ReadsUndisturbed
  BY HoldersExclusive, PagesInvIs DEF KvInv, KvHeldNow

\* Whatever the numbers of tasks, callers, pages and bytes: no byte of an arena, no
\* buffer and no page of the key/value cache is handed out twice, grants stay within
\* the GPU's memory, and a reader of an undisturbed sequence finds what was appended
\* (Arena::alloc, MemoryPool::acquire, GpuMemory::allocate, KvCacheManager).
THEOREM RequestMemoryCorrect == RequestMemorySpec => []MemoryIsExclusive
  <1>1. RequestMemoryInit => AllocatorInv /\ KvInv BY AllocatorsInitial, KvInitial DEF RequestMemoryInit
  <1>2. AllocatorInv /\ KvInv /\ [RequestMemoryNext]_requestMemoryVars => (AllocatorInv /\ KvInv)'
    <2>1. [RequestMemoryNext]_requestMemoryVars => [MemoryNext]_memoryVars /\ [KvNext]_kvVars
      BY DEF RequestMemoryNext, requestMemoryVars
    <2> QED BY <2>1, AllocatorsStep, KvStep
  <1>3. AllocatorInv /\ KvInv => MemoryIsExclusive BY AllocatorsSafe, KvSafe DEF MemoryIsExclusive
  <1> QED BY <1>1, <1>2, <1>3, PTL DEF RequestMemorySpec

-----------------------------------------------------------------------------
(* The map caches *)

Stored == [live : BOOLEAN, at : Nat]
Store == [at : {"idle", "pick", "remove", "insert"}, key : CacheKeys, victim : SUBSET CacheKeys]
MapTypes ==
    /\ now \in Nat /\ overlapped \in BOOLEAN
    /\ stored \in [CacheKeys -> Stored] /\ storing \in [CacheCallers -> Store]

\* What a store has made room for, with these entries there.
RoomFor(there, st) ==
    /\ st.at = "remove" => Cardinality(there \ st.victim) < MaxEntries
    /\ st.at = "insert" => Cardinality(there \union {st.key}) <= MaxEntries

\* As long as no two stores overlap.
MapRoom ==
    /\ \A c, d \in Storing : c = d
    /\ \A c \in CacheCallers : RoomFor(Present, storing[c])
    /\ Cardinality(Present) <= MaxEntries
MapInv == MapTypes /\ (overlapped \/ MapRoom)

LEMMA PresentFinite == IsFiniteSet(Present) /\ Present \subseteq CacheKeys
  BY CachesAssumption, FS_Subset DEF Present

LEMMA NotStoringIs ==
  NotStoring \in Store /\ NotStoring.at = "idle" /\ NotStored \in Stored /\ NotStored.live = FALSE
  <1>1. (CHOOSE k \in CacheKeys : TRUE) \in CacheKeys BY CachesAssumption
  <1> QED BY <1>1 DEF NotStoring, Store, NotStored, Stored

LEMMA MapsInitial == MapInit => MapInv
  <1> SUFFICES ASSUME MapInit PROVE MapInv OBVIOUS
  <1>1. MapTypes BY NotStoringIs DEF MapInit, MapTypes
  <1>2. Present = {} /\ Storing = {} BY NotStoringIs DEF MapInit, Present, Storing
  <1>3. \A c \in CacheCallers : RoomFor(Present, storing[c]) BY NotStoringIs DEF MapInit, RoomFor
  <1>4. Cardinality(Present) <= MaxEntries BY <1>2, FS_EmptySet, CachesAssumption
  <1> QED BY <1>1, <1>2, <1>3, <1>4 DEF MapInv, MapRoom

LEMMA BeginStoreStep == ASSUME MapInv, NEW c \in CacheCallers, NEW k \in CacheKeys, BeginStore(c, k) PROVE MapInv'
  <1> DEFINE a == IF MustEvict(k) THEN "pick" ELSE "insert"
             st == [NotStoring EXCEPT !.key = k, !.at = a]
  <1>1. a \in {"pick", "insert"} /\ (a = "insert" => ~MustEvict(k)) OBVIOUS
  <1>2. /\ storing' = [storing EXCEPT ![c] = st] /\ overlapped' = (overlapped \/ Storing # {})
        /\ UNCHANGED <<now, kind, stored>>
    BY DEF BeginStore
  <1> HIDE DEF a
  <1>3. st \in Store /\ st.at = a /\ st.key = k BY <1>1, NotStoringIs DEF Store
  <1> HIDE DEF st
  <1>4. storing' \in [CacheCallers -> Store] /\ storing'[c] = st /\ \A d \in CacheCallers : d # c => storing'[d] = storing[d]
    BY <1>2, <1>3 DEF MapInv, MapTypes
  <1>5. MapTypes' BY <1>2, <1>4 DEF MapInv, MapTypes
  <1>6. ASSUME ~overlapped' PROVE MapRoom'
    <2>1. Storing = {} /\ MapRoom BY <1>2, <1>6 DEF MapInv, MapTypes
    <2>2. Present' = Present BY <1>2 DEF Present
    <2>3. Storing' \subseteq {c} BY <1>4, <2>1 DEF Storing
    <2>4. a = "insert" => Cardinality(Present \union {k}) <= MaxEntries
      <3> SUFFICES ASSUME ~MustEvict(k) PROVE Cardinality(Present \union {k}) <= MaxEntries BY <1>1
      <3>1. MaxEntries \in Nat /\ Cardinality(Present) \in Nat BY CachesAssumption, PresentFinite, FS_CardinalityType
      <3>2. CASE k \in Present
        <4>1. Present \union {k} = Present BY <3>2
        <4> QED BY <2>1, <4>1 DEF MapRoom
      <3>3. CASE k \notin Present
        <4>1. Cardinality(Present) < MaxEntries BY <3>1, <3>3 DEF MustEvict
        <4> QED BY <3>1, <4>1, PresentFinite, WithinLimit
      <3> QED BY <3>2, <3>3
    <2>5. ASSUME NEW d \in CacheCallers PROVE RoomFor(Present', storing'[d])
      <3>1. CASE d = c BY <1>1, <1>3, <1>4, <2>2, <2>4, <3>1 DEF RoomFor
      <3>2. CASE d # c BY <1>4, <2>1, <2>2, <3>2 DEF RoomFor, MapRoom
      <3> QED BY <3>1, <3>2
    <2> QED BY <2>1, <2>2, <2>3, <2>5 DEF MapRoom
  <1> QED BY <1>5, <1>6 DEF MapInv

\* While one store runs, the entries it does not remove may only become fewer.
LEMMA StoreMoves ==
  ASSUME MapInv, NEW c \in CacheCallers, storing[c].at # "idle", NEW st \in Store,
         storing' = [storing EXCEPT ![c] = st], stored' \in [CacheKeys -> Stored],
         UNCHANGED <<now, kind, overlapped>>,
         ~overlapped => Cardinality(Present') <= MaxEntries /\ RoomFor(Present', st)
  PROVE  MapInv'
  <1>1. storing' \in [CacheCallers -> Store] /\ storing'[c] = st /\ \A d \in CacheCallers : d # c => storing'[d] = storing[d]
    BY DEF MapInv, MapTypes
  <1>2. MapTypes' BY <1>1 DEF MapInv, MapTypes
  <1>3. ASSUME ~overlapped PROVE MapRoom'
    <2>1. \A d \in CacheCallers : d # c => storing[d].at = "idle" BY <1>3 DEF MapInv, MapRoom, Storing
    <2>2. Storing' \subseteq {c} BY <1>1, <2>1 DEF Storing
    <2>3. \A d \in CacheCallers : RoomFor(Present', storing'[d])
      <3>1. RoomFor(Present', st) BY <1>3
      <3> QED BY <1>1, <2>1, <3>1 DEF RoomFor
    <2> QED BY <1>3, <2>2, <2>3 DEF MapRoom
  <1> QED BY <1>2, <1>3 DEF MapInv

LEMMA PickVictimOfMap == ASSUME MapInv, NEW c \in CacheCallers, PickVictim(c) PROVE MapInv'
  <1> DEFINE oldest == {k \in Present : \A j \in Present : stored[k].at <= stored[j].at}
             choices == IF kind = "session" THEN Present ELSE oldest
  <1>1. PICK victim \in {{k} : k \in choices} \union (IF choices = {} THEN {{}} ELSE {}) :
          storing' = [storing EXCEPT ![c].at = "remove", ![c].victim = victim]
    BY DEF PickVictim
  <1>2. Present # {} => oldest # {}
    <2> SUFFICES ASSUME Present # {} PROVE oldest # {} OBVIOUS
    <2> DEFINE ages == {stored[k].at : k \in Present}
    <2>1. ages \in SUBSET Nat /\ ages # {}
      <3>1. ASSUME NEW k \in Present PROVE stored[k].at \in Nat
        <4>1. stored[k] \in Stored BY DEF Present, MapInv, MapTypes
        <4> QED BY <4>1 DEF Stored
      <3> QED BY <3>1
    <2>2. PICK a \in ages : \A b \in ages : a <= b
      <3> HIDE DEF ages
      <3> QED BY <2>1, FirstOfNumbers
    <2>3. PICK k \in Present : stored[k].at = a BY <2>2
    <2>4. k \in oldest BY <2>2, <2>3
    <2> QED BY <2>4
  <1>3. choices \subseteq Present /\ (choices = {} => Present = {}) BY <1>2
  <1> HIDE DEF choices, oldest
  <1>4. (victim = {} /\ Present = {}) \/ (\E k \in Present : victim = {k}) BY <1>1, <1>3
  <1>5. victim \in SUBSET CacheKeys BY <1>4, PresentFinite
  <1> DEFINE st == [storing[c] EXCEPT !.at = "remove", !.victim = victim]
  <1>6. storing[c] \in Store /\ storing[c].at = "pick" BY DEF MapInv, MapTypes, PickVictim
  <1>7. st \in Store /\ st.at = "remove" /\ st.victim = victim BY <1>5, <1>6 DEF Store
  <1>8. storing' = [storing EXCEPT ![c] = st] BY <1>1, <1>6 DEF MapInv, MapTypes, Store
  <1>9. UNCHANGED <<now, kind, stored, overlapped>> BY DEF PickVictim
  <1> HIDE DEF st
  <1>10. Present' = Present BY <1>9 DEF Present
  <1>11. MaxEntries \in Nat \ {0} BY CachesAssumption
  <1>12. ASSUME ~overlapped PROVE Cardinality(Present') <= MaxEntries /\ RoomFor(Present', st)
    <2>1. Cardinality(Present) <= MaxEntries BY <1>12 DEF MapInv, MapRoom
    <2>2. Cardinality(Present \ victim) < MaxEntries
      <3>1. CASE victim = {} /\ Present = {}
        <4>1. Present \ victim = {} BY <3>1
        <4> QED BY <1>11, <4>1, FS_EmptySet
      <3>2. ASSUME NEW k \in Present, victim = {k} PROVE Cardinality(Present \ victim) < MaxEntries
        BY <1>11, <2>1, <3>2, PresentFinite, WithinLimit
      <3> QED BY <1>4, <3>1, <3>2
    <2> QED BY <1>7, <1>10, <2>1, <2>2 DEF RoomFor
  <1>13. stored' \in [CacheKeys -> Stored] BY <1>9 DEF MapInv, MapTypes
  <1> QED BY <1>6, <1>7, <1>8, <1>9, <1>12, <1>13, StoreMoves

LEMMA RemoveVictimOfMap == ASSUME MapInv, NEW c \in CacheCallers, RemoveVictim(c) PROVE MapInv'
  <1> DEFINE st == [storing[c] EXCEPT !.at = "insert", !.victim = {}]
             victim == storing[c].victim
             key == storing[c].key
  <1>1. storing[c] \in Store /\ storing[c].at = "remove" BY DEF MapInv, MapTypes, RemoveVictim
  <1>2. st \in Store /\ st.at = "insert" /\ st.key = key BY <1>1 DEF Store
  <1>3. storing' = [storing EXCEPT ![c] = st] /\ UNCHANGED <<now, kind, overlapped>> BY <1>1 DEF RemoveVictim, MapInv, MapTypes, Store
  <1>4. stored' = [k \in CacheKeys |-> IF k \in victim THEN NotStored ELSE stored[k]] BY DEF RemoveVictim
  <1>5. stored' \in [CacheKeys -> Stored] BY <1>4, NotStoringIs DEF MapInv, MapTypes
  <1>6. Present' = Present \ victim BY <1>4, NotStoringIs DEF Present
  <1> HIDE DEF st, victim, key
  <1>7. ASSUME ~overlapped PROVE Cardinality(Present') <= MaxEntries /\ RoomFor(Present', st)
    <2>1. MaxEntries \in Nat BY CachesAssumption
    <2>2. Cardinality(Present \ victim) < MaxEntries BY <1>1, <1>7 DEF MapInv, MapRoom, RoomFor, victim
    <2>3. IsFiniteSet(Present \ victim)
      <3>1. Present \ victim \subseteq Present OBVIOUS
      <3> QED BY <3>1, PresentFinite, FS_Subset
    <2>4. Cardinality((Present \ victim) \union {key}) <= MaxEntries /\ Cardinality(Present \ victim) \in Nat
      BY <2>1, <2>2, <2>3, WithinLimit
    <2>5. Cardinality(Present') <= MaxEntries BY <1>6, <2>1, <2>2, <2>4
    <2>6. RoomFor(Present', st) BY <1>2, <1>6, <2>4 DEF RoomFor
    <2> QED BY <2>5, <2>6
  <1> QED BY <1>1, <1>2, <1>3, <1>5, <1>7, StoreMoves

LEMMA InsertEntryStep == ASSUME MapInv, NEW c \in CacheCallers, InsertEntry(c) PROVE MapInv'
  <1> DEFINE key == storing[c].key
             new == [live |-> TRUE, at |-> now]
  <1>1. storing[c] \in Store /\ storing[c].at = "insert" BY DEF MapInv, MapTypes, InsertEntry
  <1>2. key \in CacheKeys BY <1>1 DEF Store
  <1>3. /\ storing' = [storing EXCEPT ![c] = NotStoring] /\ UNCHANGED <<now, kind, overlapped>>
        /\ stored' = [stored EXCEPT ![key] = new]
    BY DEF InsertEntry
  <1>4. new \in Stored /\ new.live BY DEF Stored, MapInv, MapTypes
  <1> HIDE DEF key, new
  <1>5. stored' \in [CacheKeys -> Stored] /\ stored'[key] = new /\ \A k \in CacheKeys : k # key => stored'[k] = stored[k]
    BY <1>2, <1>3, <1>4 DEF MapInv, MapTypes
  <1>6. Present' = Present \union {key} BY <1>2, <1>4, <1>5 DEF Present
  <1>7. ASSUME ~overlapped PROVE Cardinality(Present') <= MaxEntries /\ RoomFor(Present', NotStoring)
    <2>1. Cardinality(Present \union {key}) <= MaxEntries BY <1>1, <1>7 DEF MapInv, MapRoom, RoomFor, key
    <2> QED BY <1>6, <2>1, NotStoringIs DEF RoomFor
  <1> QED BY <1>1, <1>3, <1>5, <1>7, NotStoringIs, StoreMoves

\* Entries that go leave room.
LEMMA EntriesGo ==
  ASSUME MapInv, stored' \in [CacheKeys -> Stored], Present' \subseteq Present, UNCHANGED <<kind, storing, overlapped>>, now' \in Nat
  PROVE  MapInv'
  <1>1. MapTypes' BY DEF MapInv, MapTypes
  <1>2. ASSUME ~overlapped PROVE MapRoom'
    <2>1. MapRoom BY <1>2 DEF MapInv
    <2>2. MaxEntries \in Nat BY CachesAssumption
    <2>3. ASSUME NEW c \in CacheCallers PROVE RoomFor(Present', storing'[c])
      <3> DEFINE v == storing[c].victim
                 k == storing[c].key
      <3>1. IsFiniteSet(Present \ v) /\ Cardinality(Present \ v) \in Nat /\ IsFiniteSet(Present \union {k}) /\ Cardinality(Present \union {k}) \in Nat
        <4>1. Present \ v \in SUBSET Present OBVIOUS
        <4> QED BY <4>1, <2>2, PresentFinite, WithinLimit
      <3>2. Present' \ v \in SUBSET (Present \ v) /\ Present' \union {k} \in SUBSET (Present \union {k}) OBVIOUS
      <3> HIDE DEF v, k
      <3>3. Cardinality(Present' \ v) <= Cardinality(Present \ v) /\ Cardinality(Present' \ v) \in Nat
        BY <2>2, <3>1, <3>2, WithinLimit
      <3>4. Cardinality(Present' \union {k}) <= Cardinality(Present \union {k}) /\ Cardinality(Present' \union {k}) \in Nat
        BY <2>2, <3>1, <3>2, WithinLimit
      <3>5. /\ storing[c].at = "remove" => Cardinality(Present \ v) < MaxEntries
            /\ storing[c].at = "insert" => Cardinality(Present \union {k}) <= MaxEntries
        BY <2>1 DEF MapRoom, RoomFor, v, k
      <3>6. /\ storing[c].at = "remove" => Cardinality(Present' \ v) < MaxEntries
            /\ storing[c].at = "insert" => Cardinality(Present' \union {k}) <= MaxEntries
        BY <2>2, <3>1, <3>3, <3>4, <3>5
      <3> QED BY <3>6 DEF RoomFor, v, k
    <2>4. Cardinality(Present') <= MaxEntries
      <3>1. /\ Cardinality(Present') <= Cardinality(Present) /\ Cardinality(Present') \in Nat /\ Cardinality(Present) \in Nat
        BY <2>2, PresentFinite, WithinLimit
      <3> QED BY <2>1, <2>2, <3>1 DEF MapRoom
    <2>5. Storing' = Storing BY DEF Storing
    <2> QED BY <2>1, <2>3, <2>4, <2>5 DEF MapRoom
  <1> QED BY <1>1, <1>2 DEF MapInv

LEMMA MapsStep == MapInv /\ [MapNext]_mapVars => MapInv'
  <1> SUFFICES ASSUME MapInv, [MapNext]_mapVars PROVE MapInv' OBVIOUS
  <1>1. CASE CleanupEntries
    <2>1. /\ stored' = [k \in CacheKeys |-> IF Fresh(k) THEN stored[k] ELSE NotStored]
          /\ UNCHANGED <<now, kind, storing, overlapped>>
      BY <1>1 DEF CleanupEntries
    <2>2. stored' \in [CacheKeys -> Stored] BY <2>1, NotStoringIs DEF MapInv, MapTypes
    <2>3. Present' \subseteq Present BY <2>1, NotStoringIs DEF Present
    <2> QED BY <2>1, <2>2, <2>3, EntriesGo DEF MapInv, MapTypes
  <1>2. ASSUME NEW k \in CacheKeys, RemoveEntry(k) PROVE MapInv'
    <2>1. stored' = [stored EXCEPT ![k] = NotStored] /\ UNCHANGED <<now, kind, storing, overlapped>> BY <1>2 DEF RemoveEntry
    <2>2. stored' \in [CacheKeys -> Stored] BY <2>1, NotStoringIs DEF MapInv, MapTypes
    <2>3. Present' \subseteq Present BY <2>1, NotStoringIs DEF Present, MapInv, MapTypes
    <2> QED BY <2>1, <2>2, <2>3, EntriesGo DEF MapInv, MapTypes
  <1>3. CASE Age \/ UNCHANGED mapVars
    <2>1. UNCHANGED <<kind, stored, storing, overlapped>> /\ now' \in Nat BY <1>3 DEF Age, mapVars, MapInv, MapTypes
    <2>2. Present' = Present BY <2>1 DEF Present
    <2> QED BY <2>1, <2>2, EntriesGo DEF MapInv, MapTypes
  <1> QED BY <1>1, <1>2, <1>3, BeginStoreStep, PickVictimOfMap, RemoveVictimOfMap, InsertEntryStep DEF MapNext

LEMMA MapsSafe == MapInv => MapsBounded
  BY DEF MapInv, MapRoom, MapsBounded

-----------------------------------------------------------------------------
(* The prompt cache *)

Occurs(q, x) == \E i \in 1 .. Len(q) : q[i] = x
Before(q, x, y) == \E i, j \in 1 .. Len(q) : i < j /\ q[i] = x /\ q[j] = y

\* What is moved to the end comes after all the others, whose order stays.
LEMMA MovedToEnd ==
  ASSUME NEW S, NEW q \in Seq(S), NoTwice(q), NEW e \in S
  PROVE  LET r == Append(RemoveFirst(q, e), e) IN
         /\ r \in Seq(S) /\ NoTwice(r) /\ Occurs(r, e)
         /\ \A x : Occurs(q, x) => Occurs(r, x)
         /\ \A x, y : Before(r, x, y) => x # e /\ (y = e \/ Before(q, x, y))
  <1> DEFINE m == RemoveFirst(q, e)
             n == Len(q)
             r == Append(m, e)
  <1>0. n \in Nat /\ \A i, j \in 1 .. n : q[i] = q[j] => i = j BY DEF NoTwice
  <1>1. /\ m \in Seq(S)
        /\ \/ (\A i \in 1 .. n : q[i] # e) /\ m = q
           \/ \E k \in 1 .. n :
                /\ q[k] = e /\ Len(m) = n - 1
                /\ \A i \in 1 .. Len(m) : m[i] = IF i < k THEN q[i] ELSE q[i + 1]
    BY <1>0, RemovedOnce
  <1>2. NoTwice(m) /\ \A i \in 1 .. Len(m) : m[i] # e BY Reordered
  <1> HIDE DEF m
  <1>3. r \in Seq(S) /\ NoTwice(r) BY <1>1, <1>2, Appended
  <1>4. Len(m) \in Nat /\ Len(r) = Len(m) + 1 /\ r[Len(m) + 1] = e /\ \A i \in 1 .. Len(m) : r[i] = m[i] BY <1>1
  <1> HIDE DEF r, n
  <1>5. \A x, y : Before(m, x, y) => Before(q, x, y)
    <2>1. CASE (\A i \in 1 .. n : q[i] # e) /\ m = q BY <2>1
    <2>2. ASSUME NEW k \in 1 .. n, q[k] = e, Len(m) = n - 1,
                 \A i \in 1 .. Len(m) : m[i] = IF i < k THEN q[i] ELSE q[i + 1]
          PROVE  \A x, y : Before(m, x, y) => Before(q, x, y)
      <3> SUFFICES ASSUME NEW i \in 1 .. Len(m), NEW j \in 1 .. Len(m), i < j PROVE Before(q, m[i], m[j]) BY DEF Before
      <3> DEFINE f(a) == IF a < k THEN a ELSE a + 1
      <3>1. f(i) \in 1 .. n /\ f(j) \in 1 .. n /\ f(i) < f(j) BY <1>0, <2>2
      <3>2. m[i] = q[f(i)] /\ m[j] = q[f(j)] BY <2>2
      <3> HIDE DEF f
      <3> QED BY <3>1, <3>2 DEF Before, n
    <2> QED BY <1>1, <2>1, <2>2
  <1>6. \A x : Occurs(q, x) => x = e \/ Occurs(m, x)
    <2>1. CASE (\A i \in 1 .. n : q[i] # e) /\ m = q BY <2>1
    <2>2. ASSUME NEW k \in 1 .. n, q[k] = e, Len(m) = n - 1,
                 \A i \in 1 .. Len(m) : m[i] = IF i < k THEN q[i] ELSE q[i + 1]
          PROVE  \A x : Occurs(q, x) => x = e \/ Occurs(m, x)
      <3> SUFFICES ASSUME NEW a \in 1 .. n PROVE q[a] = e \/ Occurs(m, q[a]) BY DEF Occurs, n
      <3>1. CASE a = k BY <2>2, <3>1
      <3>2. CASE a < k
        <4>1. a \in 1 .. Len(m) /\ m[a] = q[a] BY <1>0, <2>2, <3>2
        <4> QED BY <4>1 DEF Occurs
      <3>3. CASE a > k
        <4>1. a - 1 \in 1 .. Len(m) /\ ~(a - 1 < k) /\ (a - 1) + 1 = a BY <1>0, <2>2, <3>3
        <4>2. m[a - 1] = q[a] BY <2>2, <4>1
        <4> QED BY <4>1, <4>2 DEF Occurs
      <3> QED BY <1>0, <3>1, <3>2, <3>3
    <2> QED BY <1>1, <2>1, <2>2
  <1>7. Len(m) + 1 \in 1 .. Len(r) /\ \A i \in 1 .. Len(m) : i \in 1 .. Len(r) BY <1>4
  <1>8. Occurs(r, e) BY <1>4, <1>7 DEF Occurs
  <1>9. \A x : Occurs(m, x) => Occurs(r, x) BY <1>4, <1>7 DEF Occurs
  <1>10. ASSUME NEW i \in 1 .. Len(r), NEW j \in 1 .. Len(r), i < j
         PROVE  r[i] # e /\ (r[j] = e \/ Before(q, r[i], r[j]))
    <2>1. i \in 1 .. Len(m) /\ (j = Len(m) + 1 \/ j \in 1 .. Len(m)) BY <1>4, <1>10
    <2>2. r[i] = m[i] /\ r[i] # e BY <1>2, <1>4, <2>1
    <2>3. CASE j = Len(m) + 1 BY <1>4, <2>2, <2>3
    <2>4. CASE j \in 1 .. Len(m)
      <3>1. Before(m, r[i], r[j]) BY <1>4, <1>10, <2>1, <2>2, <2>4 DEF Before
      <3> QED BY <1>5, <2>2, <3>1
    <2> QED BY <2>1, <2>3, <2>4
  <1>11. \A x, y : Before(r, x, y) => x # e /\ (y = e \/ Before(q, x, y)) BY <1>10 DEF Before
  <1>12. \A x : Occurs(q, x) => Occurs(r, x) BY <1>6, <1>8, <1>9
  <1> QED BY <1>3, <1>8, <1>11, <1>12 DEF r, m

PromptTypes ==
    /\ prompts \in [Prompts -> Nat] /\ accesses \in Nat /\ \A p \in Prompts : prompts[p] <= accesses
    /\ uses \in Seq(Prompts) /\ NoTwice(uses)
    /\ IsFiniteSet(Cached) /\ Cardinality(Cached) <= MaxPrompts

\* The numbers of the cached prompts are in the order of their last uses, and
\* what was used after a cached prompt is cached.
ByUse ==
    /\ \A p \in Cached : Occurs(uses, p)
    /\ \A x, y : Before(uses, x, y) /\ x \in Cached => y \in Cached /\ prompts[x] < prompts[y]
PromptInv == PromptTypes /\ ByUse

LEMMA NoUses ==
  ASSUME NEW q, q = <<>> PROVE q \in Seq(Prompts) /\ NoTwice(q) /\ \A x, y : ~Before(q, x, y)
  <1>1. Len(q) = 0 /\ q \in Seq(Prompts) OBVIOUS
  <1>2. 1 .. Len(q) = {} BY <1>1
  <1> HIDE <1>1
  <1> QED BY <1>1, <1>2 DEF NoTwice, Before

LEMMA NoPrompts ==
  ASSUME prompts' = [p \in Prompts |-> 0], uses' = <<>>, accesses' \in Nat PROVE PromptInv'
  <1>1. uses' \in Seq(Prompts) /\ NoTwice(uses') /\ \A x, y : ~Before(uses', x, y) BY NoUses
  <1>2. Cached' = {} BY DEF Cached
  <1>3. IsFiniteSet(Cached') /\ Cardinality(Cached') <= MaxPrompts BY <1>2, FS_EmptySet, CachesAssumption
  <1>4. prompts' \in [Prompts -> Nat] /\ \A p \in Prompts : prompts'[p] <= accesses' OBVIOUS
  <1> QED BY <1>1, <1>2, <1>3, <1>4 DEF PromptInv, PromptTypes, ByUse

LEMMA PromptsInitial == PromptInit => PromptInv
  <1> SUFFICES ASSUME PromptInit PROVE PromptInv OBVIOUS
  <1>1. uses \in Seq(Prompts) /\ NoTwice(uses) /\ \A x, y : ~Before(uses, x, y) BY NoUses DEF PromptInit
  <1>2. Cached = {} BY DEF Cached, PromptInit
  <1>3. IsFiniteSet(Cached) /\ Cardinality(Cached) <= MaxPrompts BY <1>2, FS_EmptySet, CachesAssumption
  <1>4. prompts \in [Prompts -> Nat] /\ accesses \in Nat /\ \A p \in Prompts : prompts[p] <= accesses BY DEF PromptInit
  <1> QED BY <1>1, <1>2, <1>3, <1>4 DEF PromptInv, PromptTypes, ByUse

\* A prompt is used; those that go are the ones used least recently.
LEMMA UseStep ==
  ASSUME PromptInv, NEW p \in Prompts, Use(p), NEW gone \in SUBSET LeastRecent,
         prompts' = [q \in Prompts |-> IF q = p THEN accesses + 1 ELSE IF q \in gone THEN 0 ELSE prompts[q]],
         Cardinality((Cached \ gone) \union {p}) <= MaxPrompts
  PROVE  PromptInv'
  <1>1. accesses' = accesses + 1 /\ uses' = Append(RemoveFirst(uses, p), p) BY DEF Use
  <1>2. /\ uses' \in Seq(Prompts) /\ NoTwice(uses') /\ Occurs(uses', p)
        /\ \A x : Occurs(uses, x) => Occurs(uses', x)
        /\ \A x, y : Before(uses', x, y) => x # p /\ (y = p \/ Before(uses, x, y))
    BY <1>1, MovedToEnd DEF PromptInv, PromptTypes
  <1>3. prompts \in [Prompts -> Nat] /\ accesses \in Nat /\ \A q \in Prompts : prompts[q] <= accesses
    BY DEF PromptInv, PromptTypes
  <1>4. prompts' \in [Prompts -> Nat] /\ accesses' \in Nat /\ \A q \in Prompts : prompts'[q] <= accesses'
    BY <1>1, <1>3
  <1>5. Cached' = (Cached \ gone) \union {p} BY <1>3 DEF Cached
  <1>6. IsFiniteSet(Cached')
    <2>1. (Cached \ gone) \subseteq Cached OBVIOUS
    <2>2. IsFiniteSet(Cached \ gone) BY <2>1, FS_Subset DEF PromptInv, PromptTypes
    <2> QED BY <1>5, <2>2, FS_AddElement
  <1>7. PromptTypes' BY <1>2, <1>4, <1>5, <1>6 DEF PromptTypes
  <1>8. ASSUME NEW q \in Cached' PROVE Occurs(uses', q)
    <2>1. q = p \/ Occurs(uses, q) BY <1>5 DEF PromptInv, ByUse
    <2> QED BY <1>2, <2>1
  <1>9. ASSUME NEW x, NEW y, Before(uses', x, y), x \in Cached' PROVE y \in Cached' /\ prompts'[x] < prompts'[y]
    <2>1. x # p /\ (y = p \/ Before(uses, x, y)) BY <1>2, <1>9
    <2>2. x \in Cached /\ x \notin gone /\ x \in Prompts BY <1>5, <1>9, <2>1 DEF Cached
    <2>3. prompts'[x] = prompts[x] /\ prompts[x] \in Nat /\ prompts[x] <= accesses BY <1>3, <2>1, <2>2
    <2>4. prompts'[p] = accesses + 1 /\ p \in Cached' BY <1>5
    <2>5. CASE y = p BY <1>3, <2>3, <2>4, <2>5
    <2>6. CASE y # p
      <3>1. y \in Cached /\ prompts[x] < prompts[y] BY <2>1, <2>2, <2>6 DEF PromptInv, ByUse
      <3>2. y \in Prompts /\ prompts[y] \in Nat BY <1>3, <3>1 DEF Cached
      <3>3. y \notin gone BY <2>2, <2>3, <3>1, <3>2 DEF LeastRecent
      <3> QED BY <1>5, <2>3, <2>6, <3>1, <3>2, <3>3
    <2> QED BY <2>5, <2>6
  <1> QED BY <1>7, <1>8, <1>9 DEF PromptInv, ByUse

\* A prompt that is there is used.
LEMMA HitStep ==
  ASSUME PromptInv, NEW p \in Cached, Use(p), prompts' = [prompts EXCEPT ![p] = accesses + 1]
  PROVE  PromptInv'
  <1> DEFINE none == {}
  <1>1. none \in SUBSET LeastRecent OBVIOUS
  <1>2. p \in Prompts BY DEF Cached
  <1>3. prompts' = [q \in Prompts |-> IF q = p THEN accesses + 1 ELSE IF q \in none THEN 0 ELSE prompts[q]]
    BY <1>2 DEF PromptInv, PromptTypes
  <1>4. (Cached \ none) \union {p} = Cached OBVIOUS
  <1>5. Cardinality((Cached \ none) \union {p}) <= MaxPrompts BY <1>4 DEF PromptInv, PromptTypes
  <1> HIDE DEF none
  <1> QED BY <1>1, <1>2, <1>3, <1>5, UseStep

LEMMA InsertPromptStep == ASSUME PromptInv, NEW p \in Prompts, InsertPrompt(p) PROVE PromptInv'
  <1> DEFINE gone == IF Cardinality(Cached) >= MaxPrompts THEN LeastRecent ELSE {}
  <1>1. gone \in SUBSET LeastRecent OBVIOUS
  <1>2. Use(p) /\ prompts' = [q \in Prompts |-> IF q = p THEN accesses + 1 ELSE IF q \in gone THEN 0 ELSE prompts[q]]
    BY DEF InsertPrompt
  <1>3. MaxPrompts \in Nat \ {0} BY CachesAssumption
  <1>4. IsFiniteSet(Cached) /\ Cardinality(Cached) \in Nat /\ Cardinality(Cached) <= MaxPrompts
    BY FS_CardinalityType DEF PromptInv, PromptTypes
  <1>5. Cardinality((Cached \ gone) \union {p}) <= MaxPrompts
    <2>1. CASE Cardinality(Cached) >= MaxPrompts
      <3>1. Cached # {} BY <1>3, <1>4, <2>1, FS_EmptySet
      <3> DEFINE numbers == {prompts[q] : q \in Cached}
      <3>2. numbers \in SUBSET Nat /\ numbers # {} BY <3>1 DEF Cached, PromptInv, PromptTypes
      <3>3. PICK a \in numbers : \A b \in numbers : a <= b
        <4> HIDE DEF numbers
        <4> QED BY <3>2, FirstOfNumbers
      <3>4. PICK g \in Cached : prompts[g] = a BY <3>3
      <3>5. g \in gone BY <2>1, <3>3, <3>4 DEF LeastRecent
      <3> HIDE DEF gone
      <3> DEFINE T == (Cached \ {g}) \union {p}
      <3>6. Cardinality(Cached \ {g}) < MaxPrompts BY <1>3, <1>4, <3>4, WithinLimit
      <3>7. IsFiniteSet(Cached \ {g}) BY <1>4, FS_RemoveElement
      <3>8. IsFiniteSet(T) /\ Cardinality(T) \in Nat /\ Cardinality(T) <= MaxPrompts BY <1>3, <3>6, <3>7, WithinLimit
      <3>9. (Cached \ gone) \union {p} \in SUBSET T BY <3>5
      <3> HIDE DEF T
      <3>10. /\ Cardinality((Cached \ gone) \union {p}) <= Cardinality(T) /\ Cardinality((Cached \ gone) \union {p}) \in Nat
        BY <1>3, <3>8, <3>9, WithinLimit
      <3> QED BY <1>3, <3>8, <3>10
    <2>2. CASE ~(Cardinality(Cached) >= MaxPrompts)
      <3>1. (Cached \ gone) \union {p} = Cached \union {p} BY <2>2
      <3>2. Cardinality(Cached) < MaxPrompts BY <1>3, <1>4, <2>2
      <3> QED BY <1>3, <1>4, <3>1, <3>2, WithinLimit
    <2> QED BY <2>1, <2>2
  <1> HIDE DEF gone
  <1> QED BY <1>1, <1>2, <1>5, UseStep

\* The last of the positions up to m at which there is a hit, 0 if there is none.
LastHit(H, m) == CHOOSE k \in 0 .. m : (k = 0 \/ k \in H) /\ \A j \in H : j <= m => j <= k

LEMMA LastHitIs ==
  ASSUME NEW n \in Nat, NEW H \in SUBSET (1 .. n), NEW m \in 0 .. n
  PROVE  /\ LastHit(H, m) \in 0 .. m /\ (LastHit(H, m) = 0 \/ LastHit(H, m) \in H)
         /\ \A j \in H : j <= m => j <= LastHit(H, m)
         /\ \A k \in 0 .. m : (k = 0 \/ k \in H) /\ (\A j \in H : j <= m => j <= k) => k = LastHit(H, m)
  <1> DEFINE Good == {k \in 0 .. m : k = 0 \/ k \in H}
             Down == {m - k : k \in Good}
  <1>1. m \in Nat /\ 0 \in Good /\ Good \subseteq 0 .. m OBVIOUS
  <1>2. Down \in SUBSET Nat /\ Down # {}
    <2>1. \A k \in Good : m - k \in Nat BY <1>1
    <2> QED BY <1>1, <2>1
  <1>3. PICK d \in Down : \A e \in Down : d <= e
    <2> HIDE DEF Down
    <2> QED BY <1>2, FirstOfNumbers
  <1>4. PICK k \in Good : d = m - k BY <1>3
  <1>5. \A j \in Good : m - k <= m - j BY <1>3, <1>4
  <1>6. \A j \in Good : j <= k BY <1>1, <1>4, <1>5
  <1>7. \A j \in H : j <= m => j \in Good BY <1>1
  <1>8. k \in 0 .. m /\ (k = 0 \/ k \in H) /\ \A j \in H : j <= m => j <= k BY <1>4, <1>6, <1>7
  <1> HIDE DEF Good, Down
  <1>9. /\ LastHit(H, m) \in 0 .. m /\ (LastHit(H, m) = 0 \/ LastHit(H, m) \in H)
        /\ \A j \in H : j <= m => j <= LastHit(H, m)
    BY <1>8 DEF LastHit
  <1>10. ASSUME NEW a \in 0 .. m, NEW b \in 0 .. m, a = 0 \/ a \in H, b = 0 \/ b \in H,
                \A j \in H : j <= m => j <= a, \A j \in H : j <= m => j <= b
         PROVE  a = b
    <2>1. a <= b BY <1>1, <1>10
    <2>2. b <= a BY <1>1, <1>10
    <2> QED BY <1>1, <2>1, <2>2
  <1> QED BY <1>9, <1>10

LEMMA LastHitNext ==
  ASSUME NEW n \in Nat, NEW H \in SUBSET (1 .. n)
  PROVE  /\ LastHit(H, 0) = 0
         /\ \A m \in 1 .. n : LastHit(H, m) = IF m \in H THEN m ELSE LastHit(H, m - 1)
  <1>1. 0 \in 0 .. n /\ LastHit(H, 0) \in 0 .. 0 BY LastHitIs
  <1>2. ASSUME NEW m \in 1 .. n, m \in H PROVE LastHit(H, m) = m
    <2>1. m \in 0 .. n /\ m \in 0 .. m /\ \A j \in H : j <= m => j <= m OBVIOUS
    <2> QED BY <1>2, <2>1, LastHitIs
  <1>3. ASSUME NEW m \in 1 .. n, m \notin H PROVE LastHit(H, m) = LastHit(H, m - 1)
    <2> DEFINE l == LastHit(H, m - 1)
    <2>1. m \in 0 .. n /\ m - 1 \in 0 .. n OBVIOUS
    <2>2. l \in 0 .. m - 1 /\ (l = 0 \/ l \in H) /\ \A j \in H : j <= m - 1 => j <= l BY <2>1, LastHitIs
    <2> HIDE DEF l
    <2>3. l \in 0 .. m BY <2>2
    <2>4. ASSUME NEW j \in H, j <= m PROVE j <= l
      <3>1. j <= m - 1 BY <1>3, <2>4
      <3> QED BY <2>2, <3>1
    <2>5. l = LastHit(H, m) BY <2>1, <2>2, <2>3, <2>4, LastHitIs
    <2> QED BY <2>5 DEF l
  <1> QED BY <1>1, <1>2, <1>3

Prefix(p, k) == SubSeq(p, 1, k)

LEMMA PrefixIs ==
  ASSUME NEW S, NEW p \in Seq(S) PROVE Len(p) \in Nat /\ Prefix(p, 0) = <<>> /\ \A k \in 0 .. Len(p) : Len(Prefix(p, k)) = k
  BY DEF Prefix

\* find_prefix finds the longest of the prefixes that are there.
LEMMA BestIsLongest ==
  ASSUME NEW p \in Prompts, BestPrefix(p) # <<>>
  PROVE  BestPrefix(p) \in Cached /\ BestPrefix(p) = Longest(p)
  <1> DEFINE n == Len(p)
             H == {k \in 1 .. n : Prefix(p, k) \in Cached}
             Step(m, s) == IF m = 0 THEN <<>> ELSE IF Prefix(p, m) \in Cached THEN Prefix(p, m) ELSE s[m - 1]
             scan == CHOOSE s : s = [m \in 0 .. n |-> Step(m, s)]
             g == [m \in 0 .. n |-> Prefix(p, LastHit(H, m))]
  <1>1. PICK l \in 1 .. MaxPromptLen : p \in [1 .. l -> PromptTokens] BY DEF Prompts
  <1>2. p \in Seq(PromptTokens) BY <1>1
  <1>3. n \in Nat /\ Prefix(p, 0) = <<>> /\ \A k \in 0 .. n : Len(Prefix(p, k)) = k BY <1>2, PrefixIs
  <1>4. BestPrefix(p) = scan[n] BY DEF BestPrefix, Prefix
  <1>5. H \in SUBSET (1 .. n) OBVIOUS
  <1>6. \A k \in 1 .. n : k \in H <=> Prefix(p, k) \in Cached OBVIOUS
  <1> HIDE DEF n, H
  <1>7. /\ LastHit(H, 0) = 0
        /\ \A m \in 1 .. n : LastHit(H, m) = IF m \in H THEN m ELSE LastHit(H, m - 1)
    <2>1. n \in Nat /\ H \in SUBSET (1 .. n) BY <1>3, <1>5
    <2> QED BY ONLY <2>1, LastHitNext, ZenonT(60)
  <1>8. \A m \in 0 .. n : m = 0 \/ (m \in 1 .. n /\ m - 1 \in 0 .. n /\ m - 1 < m) BY <1>3
  <1>9. g = [m \in 0 .. n |-> Step(m, g)]
    <2> SUFFICES ASSUME NEW m \in 0 .. n PROVE Prefix(p, LastHit(H, m)) = Step(m, g) OBVIOUS
    <2>1. CASE m = 0 BY <1>3, <1>7, <2>1
    <2>2. CASE m # 0
      <3>1. m \in 1 .. n /\ g[m - 1] = Prefix(p, LastHit(H, m - 1)) BY <1>8, <2>2
      <3> HIDE DEF g
      <3> QED BY <1>6, <1>7, <2>2, <3>1
    <2> QED BY <2>1, <2>2
  <1> HIDE DEF Step
  <1>10. scan = [m \in 0 .. n |-> Step(m, scan)] BY <1>9
  <1> HIDE DEF scan, g
  <1>11. \A m \in 0 .. n : scan[m] = Step(m, scan) BY <1>10
  <1>12. ASSUME NEW m \in 0 .. n PROVE scan[m] = Prefix(p, LastHit(H, m))
    <2> DEFINE Differ == {d \in 0 .. n : scan[d] # Prefix(p, LastHit(H, d))}
    <2>1. CASE Differ # {}
      <3>1. Differ \in SUBSET Nat BY <1>3
      <3>2. PICK d \in Differ : \A e \in Differ : d <= e
        <4> HIDE DEF Differ
        <4> QED BY <2>1, <3>1, FirstOfNumbers
      <3>3. CASE d = 0 BY <1>3, <1>7, <1>11, <3>2, <3>3 DEF Step
      <3>4. CASE d # 0
        <4>1. d \in 1 .. n /\ d - 1 \in 0 .. n /\ ~(d <= d - 1) BY <1>3, <1>8, <3>1, <3>2, <3>4
        <4>2. scan[d - 1] = Prefix(p, LastHit(H, d - 1)) BY <3>2, <4>1
        <4>3. scan[d] = IF d \in H THEN Prefix(p, d) ELSE scan[d - 1] BY <1>6, <1>11, <3>2, <3>4, <4>1 DEF Step
        <4>4. scan[d] = Prefix(p, LastHit(H, d)) BY <1>7, <4>1, <4>2, <4>3
        <4> QED BY <3>2, <4>4
      <3> QED BY <3>3, <3>4
    <2> QED BY <2>1
  <1> DEFINE h == LastHit(H, n)
  <1>13. n \in 0 .. n BY <1>3
  <1>14. h \in 0 .. n /\ (h = 0 \/ h \in H) /\ (\A j \in H : j <= n => j <= h)
         /\ \A k \in 0 .. n : (k = 0 \/ k \in H) /\ (\A j \in H : j <= n => j <= k) => k = h
    BY <1>3, <1>5, <1>13, LastHitIs
  <1>15. BestPrefix(p) = Prefix(p, h) BY <1>4, <1>12, <1>13
  <1> HIDE DEF h
  <1>16. h # 0 BY <1>3, <1>15
  <1>17. BestPrefix(p) \in Cached BY <1>5, <1>6, <1>14, <1>15, <1>16
  <1> DEFINE Right(q) == /\ q \in Cached \union {<<>>}
                         /\ \A k \in 1 .. n : Prefix(p, k) \in Cached => k <= Len(q)
             L == {Prefix(p, k) : k \in 0 .. n}
  <1>18. Longest(p) = CHOOSE q \in L : Right(q) BY DEF Longest, Prefix, n
  <1>19. Prefix(p, h) \in L /\ Right(Prefix(p, h))
    <2>1. ASSUME NEW k \in 1 .. n, Prefix(p, k) \in Cached PROVE k <= Len(Prefix(p, h))
      <3>1. k <= h BY <1>3, <1>6, <1>14, <2>1
      <3> QED BY <1>3, <1>14, <3>1
    <2> QED BY <1>14, <1>15, <1>17, <2>1
  <1>20. ASSUME NEW q \in L, Right(q) PROVE q = Prefix(p, h)
    <2>1. PICK k \in 0 .. n : q = Prefix(p, k) OBVIOUS
    <2>2. Len(q) = k BY <1>3, <2>1
    <2>3. \A j \in H : j <= k BY <1>5, <1>6, <1>20, <2>2
    <2>4. k = 0 \/ k \in H
      <3> SUFFICES ASSUME k # 0 PROVE k \in H OBVIOUS
      <3>1. k \in 1 .. n /\ q # <<>> BY <1>3, <2>2
      <3> QED BY <1>6, <1>20, <2>1, <3>1
    <2> QED BY <1>14, <2>1, <2>3, <2>4
  <1> HIDE DEF Right, L
  <1>21. Longest(p) = Prefix(p, h) BY <1>18, <1>19, <1>20
  <1> QED BY <1>15, <1>17, <1>21

LEMMA PromptsStep == PromptInv /\ [PromptNext]_promptVars => PromptInv'
  <1> SUFFICES ASSUME PromptInv, [PromptNext]_promptVars PROVE PromptInv' OBVIOUS
  <1>1. ASSUME NEW p \in Prompts, GetPrompt(p) PROVE PromptInv'
    <2>1. CASE p \in Cached BY <1>1, <2>1, HitStep DEF GetPrompt
    <2>2. CASE p \notin Cached
      <3>1. accesses' = accesses + 1 /\ UNCHANGED <<prompts, uses>> BY <1>1, <2>2 DEF GetPrompt
      <3>2. Cached' = Cached BY <3>1 DEF Cached
      <3>3. PromptTypes' BY <3>1, <3>2 DEF PromptInv, PromptTypes
      <3>4. ByUse' BY <3>1, <3>2 DEF PromptInv, ByUse
      <3> QED BY <3>3, <3>4 DEF PromptInv
    <2> QED BY <2>1, <2>2
  <1>2. ASSUME NEW p \in Prompts, FindPrefix(p) PROVE PromptInv'
    <2> DEFINE found == BestPrefix(p)
    <2>1. found # <<>> /\ Use(Longest(p)) /\ prompts' = [prompts EXCEPT ![found] = accesses + 1] BY <1>2 DEF FindPrefix
    <2>2. found \in Cached /\ found = Longest(p) BY <2>1, BestIsLongest
    <2> HIDE DEF found
    <2> QED BY <2>1, <2>2, HitStep
  <1>3. CASE ClearPrompts
    <2>1. accesses' \in Nat BY <1>3 DEF ClearPrompts, PromptInv, PromptTypes
    <2> QED BY <1>3, <2>1, NoPrompts DEF ClearPrompts
  <1>4. CASE UNCHANGED promptVars
    <2>1. Cached' = Cached BY <1>4 DEF promptVars, Cached
    <2>2. PromptTypes' BY <1>4, <2>1 DEF promptVars, PromptInv, PromptTypes
    <2>3. ByUse' BY <1>4, <2>1 DEF promptVars, PromptInv, ByUse
    <2> QED BY <2>2, <2>3 DEF PromptInv
  <1> QED BY <1>1, <1>2, <1>3, <1>4, InsertPromptStep DEF PromptNext

LEMMA PromptsSafe == PromptInv => PromptsMostRecent
  <1> SUFFICES ASSUME PromptInv PROVE PromptsMostRecent OBVIOUS
  <1>1. uses \in Seq(Prompts) /\ Cardinality(Cached) <= MaxPrompts BY DEF PromptInv, PromptTypes
  <1>2. DOMAIN uses = 1 .. Len(uses) /\ Len(uses) \in Nat BY <1>1
  <1>3. ASSUME NEW i \in 1 .. Len(uses), uses[i] \in Cached, NEW j \in i .. Len(uses) PROVE uses[j] \in Cached
    <2>1. CASE i = j BY <1>3, <2>1
    <2>2. CASE i # j
      <3>1. i < j /\ j \in 1 .. Len(uses) BY <1>2, <2>2
      <3>2. Before(uses, uses[i], uses[j]) BY <3>1 DEF Before
      <3> QED BY <1>3, <3>2 DEF PromptInv, ByUse
    <2> QED BY <2>1, <2>2
  <1> QED BY <1>1, <1>2, <1>3 DEF PromptsMostRecent

\* The map caches stay within max_entries as long as no two stores overlap, and
\* the prompt cache holds exactly the prompts used last, within max_entries
\* (memory/cache.rs, scheduler/dedup.rs, memory/prompt_cache.rs).
THEOREM CachesCorrect == CacheSpec => []CachesHold
  <1> DEFINE Inv == MapInv /\ PromptInv
  <1>1. CacheInit => Inv BY MapsInitial, PromptsInitial DEF CacheInit
  <1>2. Inv /\ [(MapNext /\ UNCHANGED promptVars) \/ (PromptNext /\ UNCHANGED mapVars)]_cacheVars => Inv'
    <2> SUFFICES ASSUME Inv, [(MapNext /\ UNCHANGED promptVars) \/ (PromptNext /\ UNCHANGED mapVars)]_cacheVars PROVE Inv'
      OBVIOUS
    <2>1. [MapNext]_mapVars /\ [PromptNext]_promptVars BY DEF cacheVars, mapVars, promptVars
    <2> QED BY <2>1, MapsStep, PromptsStep
  <1>3. Inv => CachesHold BY MapsSafe, PromptsSafe DEF CachesHold
  <1> QED BY <1>1, <1>2, <1>3, PTL DEF CacheSpec
=============================================================================
