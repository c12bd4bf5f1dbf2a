------------------------------- MODULE KvCache -------------------------------
(***************************************************************************)
(* The key/value cache (memory/kv_cache_core.rs, kv_cache_ops.rs,          *)
(* paged.rs, kv_quant.rs): sequences own pages of one page table.  The     *)
(* sequences are behind one lock and the pages behind another, and no      *)
(* operation holds both, so every operation is a few atomic steps and      *)
(* other callers run in between.                                           *)
(*                                                                         *)
(* A caller works on one sequence of its own, as a request does; what      *)
(* callers share is the page table and the least-recently-used order that  *)
(* an append evicts by.  The tensor appended at position p of sequence s   *)
(* is the pair <<s, p>>; a quantised tensor reads back as itself.          *)
(***************************************************************************)
EXTENDS Naturals, Sequences, SequencesExt

CONSTANTS
    KvCallers,
    KvMaxPages,     \* KvCacheConfig.max_pages
    PageTokens,     \* PAGE_TOKENS
    KvKeep,         \* window_size + overlap_tokens, 0 without a window
    KvMaxSeqLen,    \* KvCacheConfig.max_seq_len, the room of a quantised store
    KvMaxSeqs,      \* bound on the sequences allocated
    KvMaxLen        \* bound on the tokens of a sequence

ASSUME KvAssumption ==
    /\ KvMaxPages \in Nat /\ PageTokens \in Nat \ {0} /\ KvKeep \in Nat
    /\ KvMaxSeqLen \in Nat /\ KvMaxSeqs \in Nat /\ KvMaxLen \in Nat

KvSeqIds == 1 .. KvMaxSeqs
KvPageIds == 1 .. KvMaxPages
KvZero == <<0, 0>>
KvTensors == {KvZero} \union (KvSeqIds \X (0 .. KvMaxLen))

VARIABLES
    kvQuantised,  \* KvCacheConfig.enable_quantization
    kvPages,      \* PageTable.pages: the content of each page by slot
    kvFree,       \* PageTable.free_pages
    kvEntries,    \* SequenceStore.entries: a partial map, as a function on ids with "none"
    kvOrder,      \* SequenceStore.access_order
    kvNextId,     \* next_seq_id
    kvOwn,        \* the sequence of each caller, 0 for none
    kvAt,         \* where each caller is in its operation
    kvDisturbed,  \* history: sequences whose pages were moved or written by others
    kvMisread     \* history: reads that did not return what was appended

kvVars == <<kvQuantised, kvPages, kvFree, kvEntries, kvOrder, kvNextId, kvOwn, kvAt,
            kvDisturbed, kvMisread>>

KvNone == [live |-> FALSE, pages |-> <<>>, len |-> 0, quant |-> <<>>]
KvFresh == [KvNone EXCEPT !.live = TRUE]
KvIdle == [at |-> "idle", pos |-> 0, page |-> 0, pages |-> <<>>, victim |-> 0, next |-> "idle"]
KvBlank == [slot \in 0 .. PageTokens - 1 |-> KvZero]

KvInit ==
    /\ kvQuantised \in BOOLEAN
    /\ kvPages = <<>> /\ kvFree = <<>> /\ kvOrder = <<>>
    /\ kvEntries = [s \in KvSeqIds |-> KvNone]
    /\ kvNextId = 1
    /\ kvOwn = [t \in KvCallers |-> 0]
    /\ kvAt = [t \in KvCallers |-> KvIdle]
    /\ kvDisturbed = {} /\ kvMisread = {}

KvLive(s) == s # 0 /\ kvEntries[s].live
KvGo(t, stage) == kvAt' = [kvAt EXCEPT ![t] = stage]
KvDone(t) == KvGo(t, KvIdle)
\* retain; the order holds an id once at most.
KvWithout(s) == RemoveFirst(kvOrder, s)
KvTouch(s) == kvOrder' = Append(KvWithout(s), s)
KvSlot(pos) == pos % PageTokens
KvPageOf(pos) == pos \div PageTokens + 1

KvAllocateSequence(t) ==
    /\ kvAt[t] = KvIdle /\ ~KvLive(kvOwn[t]) /\ kvNextId <= KvMaxSeqs
    /\ kvEntries' = [kvEntries EXCEPT ![kvNextId] = KvFresh]
    /\ kvOrder' = Append(kvOrder, kvNextId)
    /\ kvOwn' = [kvOwn EXCEPT ![t] = kvNextId]
    /\ kvNextId' = kvNextId + 1
    /\ UNCHANGED <<kvQuantised, kvPages, kvFree, kvAt, kvDisturbed, kvMisread>>

-----------------------------------------------------------------------------
(* append_kv *)

\* The order is touched before the sequence is looked up: an evicted
\* sequence enters it again and fails.
KvBeginAppend(t) ==
    LET s == kvOwn[t]
        e == kvEntries[s]
    IN  /\ kvAt[t] = KvIdle /\ s # 0 /\ e.len < KvMaxLen
        /\ KvTouch(s)
        /\ KvGo(t, IF ~KvLive(s) THEN KvIdle
                   ELSE [KvIdle EXCEPT !.pos = e.len,
                           !.at = IF KvSlot(e.len) = 0 \/ e.pages = <<>> THEN "alloc" ELSE "find"])
        /\ UNCHANGED <<kvQuantised, kvPages, kvFree, kvEntries, kvNextId, kvOwn, kvDisturbed, kvMisread>>

\* allocate_page: the oldest free page, or a new one while there is room;
\* the first failure evicts, the second gives up.
KvTakePage(t) ==
    LET stage == kvAt[t] IN
    /\ stage.at \in {"alloc", "retry"}
    /\ \/ /\ kvFree # <<>>
          /\ KvGo(t, [stage EXCEPT !.at = "push", !.page = Head(kvFree)])
          /\ kvFree' = Tail(kvFree)
          /\ UNCHANGED kvPages
       \/ /\ kvFree = <<>> /\ Len(kvPages) < KvMaxPages
          /\ KvGo(t, [stage EXCEPT !.at = "push", !.page = Len(kvPages) + 1])
          /\ kvPages' = Append(kvPages, KvBlank)
          /\ UNCHANGED kvFree
       \/ /\ kvFree = <<>> /\ Len(kvPages) >= KvMaxPages
          /\ KvGo(t, IF stage.at = "alloc" THEN [stage EXCEPT !.at = "evict"] ELSE KvIdle)
          /\ UNCHANGED <<kvPages, kvFree>>
    /\ UNCHANGED <<kvQuantised, kvEntries, kvOrder, kvNextId, kvOwn, kvDisturbed, kvMisread>>

\* evict_lru takes the head of the order and frees that sequence in the
\* next step.
KvPickVictim(t) ==
    LET stage == kvAt[t] IN
    /\ stage.at = "evict"
    /\ IF kvOrder = <<>>
       THEN KvGo(t, [stage EXCEPT !.at = "retry"]) /\ UNCHANGED kvOrder
       ELSE /\ KvGo(t, [stage EXCEPT !.at = "remove", !.victim = Head(kvOrder), !.next = "retry"])
            /\ kvOrder' = Tail(kvOrder)
    /\ UNCHANGED <<kvQuantised, kvPages, kvFree, kvEntries, kvNextId, kvOwn, kvDisturbed, kvMisread>>

\* free_sequence, under the lock of the sequences; a sequence that is gone
\* already fails the whole call.
KvRemoveSequence(t) ==
    LET stage == kvAt[t]
        v == stage.victim
    IN  /\ stage.at = "remove"
        /\ IF KvLive(v)
           THEN /\ kvEntries' = [kvEntries EXCEPT ![v] = KvNone]
                /\ kvOrder' = KvWithout(v)
                /\ KvGo(t, [stage EXCEPT !.at = "release", !.pages = kvEntries[v].pages])
           ELSE KvDone(t) /\ UNCHANGED <<kvEntries, kvOrder>>
        /\ UNCHANGED <<kvQuantised, kvPages, kvFree, kvNextId, kvOwn, kvDisturbed, kvMisread>>

\* PageTable::free, under the lock of the pages.
KvReleasePages(t) ==
    LET stage == kvAt[t] IN
    /\ stage.at = "release"
    /\ kvFree' = kvFree \o stage.pages
    /\ kvPages' = [p \in DOMAIN kvPages |-> IF p \in Range(stage.pages) THEN KvBlank ELSE kvPages[p]]
    /\ KvGo(t, [stage EXCEPT !.at = stage.next, !.pages = <<>>, !.victim = 0, !.next = "idle"])
    /\ UNCHANGED <<kvQuantised, kvEntries, kvOrder, kvNextId, kvOwn, kvDisturbed, kvMisread>>

\* The page goes to the sequence if that still exists, and is lost
\* otherwise.
KvPushPage(t) ==
    LET stage == kvAt[t] IN
    /\ stage.at = "push"
    /\ kvEntries' = IF KvLive(kvOwn[t])
                    THEN [kvEntries EXCEPT ![kvOwn[t]].pages = Append(@, stage.page)] ELSE kvEntries
    /\ KvGo(t, [stage EXCEPT !.at = "find", !.page = 0])
    /\ UNCHANGED <<kvQuantised, kvPages, kvFree, kvOrder, kvNextId, kvOwn, kvDisturbed, kvMisread>>

\* A slip: the first page of the sequence instead of the last.
KvFindFirstPage(t) ==
    LET stage == kvAt[t]
        e == kvEntries[kvOwn[t]]
    IN  /\ stage.at = "find"
        /\ KvGo(t, IF e.pages = <<>> THEN KvIdle
                   ELSE [stage EXCEPT !.at = "write", !.page = Head(e.pages)])
        /\ UNCHANGED <<kvQuantised, kvPages, kvFree, kvEntries, kvOrder, kvNextId, kvOwn, kvDisturbed, kvMisread>>

KvFindPage(t) ==
    LET stage == kvAt[t]
        e == kvEntries[kvOwn[t]]
    IN  /\ stage.at = "find"
        /\ KvGo(t, IF e.pages = <<>> THEN KvIdle
                   ELSE [stage EXCEPT !.at = "write", !.page = Last(e.pages)])
        /\ UNCHANGED <<kvQuantised, kvPages, kvFree, kvEntries, kvOrder, kvNextId, kvOwn, kvDisturbed, kvMisread>>

\* write_to_page trusts the page id it found one lock ago.
KvWritePage(t) ==
    LET stage == kvAt[t]
        s == kvOwn[t]
    IN  /\ stage.at = "write"
        /\ kvPages' = [kvPages EXCEPT ![stage.page][KvSlot(stage.pos)] = <<s, stage.pos>>]
        /\ kvDisturbed' = kvDisturbed \union
                            {o \in KvSeqIds \ {s} : stage.page \in Range(kvEntries[o].pages)}
        /\ KvGo(t, [stage EXCEPT !.at = "count", !.page = 0])
        /\ UNCHANGED <<kvQuantised, kvFree, kvEntries, kvOrder, kvNextId, kvOwn, kvMisread>>

\* A quantised store that is full starts again from its beginning.
KvQuantAppend(quant, tensor) ==
    IF Len(quant) >= KvMaxSeqLen THEN <<tensor>> ELSE Append(quant, tensor)

KvCountToken(t) ==
    LET s == kvOwn[t]
        e == kvEntries[s]
        quant == KvQuantAppend(e.quant, <<s, kvAt[t].pos>>)
    IN  /\ kvAt[t].at = "count"
        /\ kvEntries' = IF e.live
                        THEN [kvEntries EXCEPT ![s].len = @ + 1, ![s].quant = IF kvQuantised THEN quant ELSE @]
                        ELSE kvEntries
        /\ kvDisturbed' = IF e.live /\ kvQuantised /\ Len(quant) <= e.len
                          THEN kvDisturbed \union {s} ELSE kvDisturbed
        /\ KvDone(t)
        /\ UNCHANGED <<kvQuantised, kvPages, kvFree, kvOrder, kvNextId, kvOwn, kvMisread>>

KvAppendKv(t) ==
    \/ KvBeginAppend(t) \/ KvTakePage(t) \/ KvPickVictim(t) \/ KvPushPage(t)
    \/ KvFindPage(t) \/ KvWritePage(t) \/ KvCountToken(t)

-----------------------------------------------------------------------------
(* read_kv and attention_scores *)

\* What a read of these positions gave, judged against what was appended.
KvJudge(s, got) ==
    kvMisread' = kvMisread \union
        {IF s \in kvDisturbed THEN "disturbed" ELSE "plain" : pos \in {q \in DOMAIN got : got[q] # <<s, q>>}}

\* A position the quantised store has is served from there; the others lead
\* to a page.
KvReadKv(t, pos) ==
    LET s == kvOwn[t]
        e == kvEntries[s]
        paged == pos >= Len(e.quant)
    IN  /\ kvAt[t] = KvIdle /\ s # 0
        /\ KvTouch(s)
        /\ KvGo(t, IF KvLive(s) /\ pos < e.len /\ paged /\ KvPageOf(pos) <= Len(e.pages)
                   THEN [KvIdle EXCEPT !.at = "read", !.pos = pos, !.page = e.pages[KvPageOf(pos)]]
                   ELSE KvIdle)
        /\ IF KvLive(s) /\ pos < e.len /\ ~paged
           THEN KvJudge(s, [q \in {pos} |-> e.quant[pos + 1]])
           ELSE UNCHANGED kvMisread
        /\ UNCHANGED <<kvQuantised, kvPages, kvFree, kvEntries, kvNextId, kvOwn, kvDisturbed>>

KvReadPage(t) ==
    LET stage == kvAt[t]
        s == kvOwn[t]
    IN  /\ stage.at = "read"
        /\ IF KvLive(s)
           THEN KvJudge(s, [q \in {stage.pos} |-> kvPages[stage.page][KvSlot(stage.pos)]])
           ELSE UNCHANGED kvMisread
        /\ KvDone(t)
        /\ UNCHANGED <<kvQuantised, kvPages, kvFree, kvEntries, kvOrder, kvNextId, kvOwn, kvDisturbed>>

\* attention_scores copies the page ids, then reads every position.
KvAttend(t) ==
    LET s == kvOwn[t]
        e == kvEntries[s]
        whole == Len(e.quant) >= e.len
    IN  /\ kvAt[t] = KvIdle /\ KvLive(s) /\ e.len > 0
        /\ IF kvQuantised /\ whole
           THEN KvJudge(s, [q \in 0 .. e.len - 1 |-> e.quant[q + 1]]) /\ UNCHANGED kvAt
           ELSE /\ KvGo(t, [KvIdle EXCEPT !.at = "attend", !.pos = e.len, !.pages = e.pages])
                /\ UNCHANGED kvMisread
        /\ UNCHANGED <<kvQuantised, kvPages, kvFree, kvEntries, kvOrder, kvNextId, kvOwn, kvDisturbed>>

KvAttendPages(t) ==
    LET stage == kvAt[t]
        s == kvOwn[t]
        found == {q \in 0 .. stage.pos - 1 : KvPageOf(q) <= Len(stage.pages)}
    IN  /\ stage.at = "attend"
        /\ IF KvLive(s)
           THEN KvJudge(s, [q \in found |-> kvPages[stage.pages[KvPageOf(q)]][KvSlot(q)]])
           ELSE UNCHANGED kvMisread
        /\ KvDone(t)
        /\ UNCHANGED <<kvQuantised, kvPages, kvFree, kvEntries, kvOrder, kvNextId, kvOwn, kvDisturbed>>

-----------------------------------------------------------------------------
(* Freeing *)

KvFreeSequence(t) ==
    /\ kvAt[t] = KvIdle /\ kvOwn[t] # 0
    /\ KvGo(t, [KvIdle EXCEPT !.at = "remove", !.victim = kvOwn[t]])
    /\ UNCHANGED <<kvQuantised, kvPages, kvFree, kvEntries, kvOrder, kvNextId, kvOwn, kvDisturbed, kvMisread>>

\* A slip: the pages are released and stay in the sequence.
KvEvictKeepingPages(t) ==
    LET e == kvEntries[kvOwn[t]]
    IN  /\ KvKeep > 0 /\ kvAt[t] = KvIdle /\ KvLive(kvOwn[t]) /\ e.len >= KvKeep + PageTokens
        /\ KvGo(t, [KvIdle EXCEPT !.at = "release", !.pages = SubSeq(e.pages, 1, 1)])
        /\ UNCHANGED <<kvQuantised, kvPages, kvFree, kvEntries, kvOrder, kvNextId, kvOwn, kvDisturbed, kvMisread>>

\* evict_beyond_window drops the pages before the window; what is left moves
\* to the front of page_ids.
KvEvictBeyondWindow(t) ==
    LET s == kvOwn[t]
        e == kvEntries[s]
        cutoff == IF e.len > KvKeep THEN e.len - KvKeep ELSE 0
        asked == cutoff \div PageTokens
        count == IF asked < Len(e.pages) THEN asked ELSE Len(e.pages)
    IN  /\ KvKeep > 0 /\ kvAt[t] = KvIdle /\ KvLive(s) /\ asked > 0
        /\ kvEntries' = [kvEntries EXCEPT ![s].pages = SubSeq(e.pages, count + 1, Len(e.pages))]
        /\ kvDisturbed' = kvDisturbed \union {s}
        /\ KvGo(t, [KvIdle EXCEPT !.at = "release", !.pages = SubSeq(e.pages, 1, count)])
        /\ UNCHANGED <<kvQuantised, kvPages, kvFree, kvOrder, kvNextId, kvOwn, kvMisread>>

\* reset forgets the sequences and keeps their pages out of the free list.
KvReset ==
    /\ kvOrder # <<>>
    /\ kvEntries' = [s \in KvSeqIds |-> KvNone]
    /\ kvOrder' = <<>>
    /\ UNCHANGED <<kvQuantised, kvPages, kvFree, kvNextId, kvOwn, kvAt, kvDisturbed, kvMisread>>

KvNext ==
    \/ \E t \in KvCallers :
          \/ KvAllocateSequence(t) \/ KvAppendKv(t) \/ KvRemoveSequence(t) \/ KvReleasePages(t)
          \/ (\E pos \in 0 .. KvMaxLen - 1 : KvReadKv(t, pos))
          \/ KvReadPage(t) \/ KvAttend(t) \/ KvAttendPages(t)
          \/ KvFreeSequence(t) \/ KvEvictBeyondWindow(t)
    \/ KvReset

KvSpec == KvInit /\ [][KvNext]_kvVars

-----------------------------------------------------------------------------
(* Properties *)

\* The places a page can be held: the free list, a sequence, a caller that
\* has taken it and not yet given it to its sequence, a caller about to
\* release it.
KvHolders == ({"free"} \X {0}) \union ({"seq"} \X KvSeqIds) \union ({"push", "release"} \X KvCallers)
KvHeld(h) ==
    CASE h[1] = "free" -> kvFree
      [] h[1] = "seq" -> kvEntries[h[2]].pages
      [] h[1] = "push" -> IF kvAt[h[2]].at = "push" THEN <<kvAt[h[2]].page>> ELSE <<>>
      [] h[1] = "release" -> IF kvAt[h[2]].at = "release" THEN kvAt[h[2]].pages ELSE <<>>

\* A page belongs to one sequence, to the free list or to one call in
\* progress, never to two of them and never twice to one: sequences do not
\* alias although an operation gives up its lock between finding a page and
\* using it (kv_cache_core.rs, allocate_page_for_seq, free_sequence).
PagesExclusive ==
    \A h, k \in KvHolders : \A i \in DOMAIN KvHeld(h), j \in DOMAIN KvHeld(k) :
        KvHeld(h)[i] = KvHeld(k)[j] => h = k /\ i = j

\* A read or an attention pass over a sequence that still exists returns what
\* was appended at each position, unless the sliding window took pages away,
\* the quantised store began again, or an append of an evicted sequence wrote
\* into the page after it had changed hands.
ReadsUndisturbed == "plain" \notin kvMisread

\* A sequence that still exists reads back what was appended to it.
ReadsAppended == kvMisread = {}
=============================================================================
