-------------------------------- MODULE Caches --------------------------------
(***************************************************************************)
(* The caches beside the key/value pages: the context cache and the        *)
(* session cache (memory/cache.rs) are concurrent maps, where a store      *)
(* looks at the size, evicts and inserts in separate steps; the output     *)
(* cache (scheduler/dedup.rs) has one caller at a time and so has the      *)
(* prompt cache (memory/prompt_cache.rs), which evicts by last use.        *)
(*                                                                         *)
(* Keys stand for hashes, data for what was stored.  The prompts of the    *)
(* prompt cache are token sequences, equal exactly when their hashes are.  *)
(***************************************************************************)
EXTENDS Naturals, Sequences, SequencesExt, FiniteSets

CONSTANTS
    CacheCallers,
    CacheKeys,
    MaxEntries,     \* max_entries of the context, session and output caches
    CacheTtl,       \* ttl of the context and output caches
    MaxAge,         \* bound on the clock
    PromptTokens,
    MaxPromptLen,   \* bound on the length of a prompt
    MaxPrompts,     \* PromptCache.max_entries
    MaxAccesses     \* bound on access_counter

ASSUME CachesAssumption ==
    /\ IsFiniteSet(CacheKeys) /\ CacheKeys # {} /\ IsFiniteSet(PromptTokens)
    /\ MaxEntries \in Nat \ {0} /\ MaxPrompts \in Nat \ {0}
    /\ CacheTtl \in Nat /\ MaxAge \in Nat /\ MaxPromptLen \in Nat /\ MaxAccesses \in Nat

VARIABLES
    now,
    kind,        \* which of the three map caches this is
    stored,      \* entries: [live, at] of each key
    storing,     \* where each store is
    prompts,     \* PromptCache.entries: last_used by prompt, 0 for none
    accesses,    \* PromptCache.access_counter
    overlapped,  \* history: two stores have run at once
    uses         \* history: the prompts used, the last use last

mapVars == <<now, kind, stored, storing, overlapped>>
promptVars == <<prompts, accesses, uses>>
cacheVars == <<mapVars, promptVars>>

NotStored == [live |-> FALSE, at |-> 0]
Present == {k \in CacheKeys : stored[k].live}
NotStoring == [at |-> "idle", key |-> CHOOSE k \in CacheKeys : TRUE, victim |-> {}]
Prompts == UNION {[1 .. n -> PromptTokens] : n \in 1 .. MaxPromptLen}

MapInit ==
    /\ now = 0 /\ kind \in {"context", "session", "output"}
    /\ stored = [k \in CacheKeys |-> NotStored]
    /\ storing = [c \in CacheCallers |-> NotStoring]
    /\ overlapped = FALSE

PromptInit ==
    /\ prompts = [p \in Prompts |-> 0] /\ accesses = 0 /\ uses = <<>>

CacheInit == MapInit /\ PromptInit

-----------------------------------------------------------------------------
(* Context, session and output cache *)

Storing == {c \in CacheCallers : storing[c].at # "idle"}

\* A slip: room is made only once the limit is passed.
MustEvictLate(k) == Cardinality(Present) > MaxEntries /\ (kind = "session" => k \notin Present)

\* The size is looked at; the session cache spares an entry that is to be
\* replaced, the others evict for it.
MustEvict(k) == Cardinality(Present) >= MaxEntries /\ (kind = "session" => k \notin Present)
BeginStore(c, k) ==
    /\ storing[c].at = "idle"
    /\ kind = "output" => Storing = {}
    /\ overlapped' = (overlapped \/ Storing # {})
    /\ storing' = [storing EXCEPT ![c] = [NotStoring EXCEPT !.key = k,
                                            !.at = IF MustEvict(k) THEN "pick" ELSE "insert"]]
    /\ UNCHANGED <<now, kind, stored>>

\* evict_oldest looks for the oldest entry, evict_one takes any; the entry
\* goes in the next step.
PickVictim(c) ==
    LET oldest == {k \in Present : \A j \in Present : stored[k].at <= stored[j].at}
        choices == IF kind = "session" THEN Present ELSE oldest
    IN  /\ storing[c].at = "pick"
        /\ \E victim \in {{k} : k \in choices} \union (IF choices = {} THEN {{}} ELSE {}) :
              storing' = [storing EXCEPT ![c].at = "remove", ![c].victim = victim]
        /\ UNCHANGED <<now, kind, stored, overlapped>>

RemoveVictim(c) ==
    /\ storing[c].at = "remove"
    /\ stored' = [k \in CacheKeys |-> IF k \in storing[c].victim THEN NotStored ELSE stored[k]]
    /\ storing' = [storing EXCEPT ![c].at = "insert", ![c].victim = {}]
    /\ UNCHANGED <<now, kind, overlapped>>

InsertEntry(c) ==
    /\ storing[c].at = "insert"
    /\ stored' = [stored EXCEPT ![storing[c].key] = [live |-> TRUE, at |-> now]]
    /\ storing' = [storing EXCEPT ![c] = NotStoring]
    /\ UNCHANGED <<now, kind, overlapped>>

\* get returns an entry up to and including the age ttl.
Fresh(k) == stored[k].live /\ now - stored[k].at <= CacheTtl

\* cleanup keeps what get would still return.
CleanupEntries ==
    /\ kind # "session"
    /\ stored' = [k \in CacheKeys |-> IF Fresh(k) THEN stored[k] ELSE NotStored]
    /\ stored' # stored
    /\ UNCHANGED <<now, kind, storing, overlapped>>

\* remove of the session cache.
RemoveEntry(k) ==
    /\ kind = "session" /\ stored[k].live
    /\ stored' = [stored EXCEPT ![k] = NotStored]
    /\ UNCHANGED <<now, kind, storing, overlapped>>

Age == now < MaxAge /\ now' = now + 1 /\ UNCHANGED <<kind, stored, storing, overlapped>>

MapNext ==
    \/ \E c \in CacheCallers :
          \/ (\E k \in CacheKeys : BeginStore(c, k))
          \/ PickVictim(c) \/ RemoveVictim(c) \/ InsertEntry(c)
    \/ CleanupEntries
    \/ \E k \in CacheKeys : RemoveEntry(k)
    \/ Age

-----------------------------------------------------------------------------
(* Prompt cache *)

Cached == {p \in Prompts : prompts[p] > 0}
LeastRecent == {p \in Cached : \A q \in Cached : prompts[p] <= prompts[q]}

\* Every use takes the next number of the counter; the history moves the
\* prompt, which is there once at most, to its end.
Use(p) == accesses' = accesses + 1 /\ uses' = Append(RemoveFirst(uses, p), p)

\* A slip: a hit does not count as a use.
GetPromptUntouched(p) ==
    /\ accesses < MaxAccesses
    /\ IF p \in Cached THEN Use(p) ELSE accesses' = accesses + 1 /\ UNCHANGED uses
    /\ UNCHANGED prompts

GetPrompt(p) ==
    /\ accesses < MaxAccesses
    /\ IF p \in Cached
       THEN Use(p) /\ prompts' = [prompts EXCEPT ![p] = accesses + 1]
       ELSE accesses' = accesses + 1 /\ UNCHANGED <<prompts, uses>>

\* A full cache evicts first, even when the prompt is there already.
InsertPrompt(p) ==
    LET gone == IF Cardinality(Cached) >= MaxPrompts THEN LeastRecent ELSE {} IN
    /\ accesses < MaxAccesses
    /\ Use(p)
    /\ prompts' = [q \in Prompts |-> IF q = p THEN accesses + 1 ELSE IF q \in gone THEN 0 ELSE prompts[q]]

\* find_prefix goes through the prefixes from short to long and keeps the
\* last that is there.
BestPrefix(p) ==
    LET scan[n \in 0 .. Len(p)] ==
            IF n = 0 THEN <<>>
            ELSE IF SubSeq(p, 1, n) \in Cached THEN SubSeq(p, 1, n) ELSE scan[n - 1]
    IN  scan[Len(p)]

\* The longest cached prefix is what is used.
Longest(p) ==
    CHOOSE q \in {SubSeq(p, 1, n) : n \in 0 .. Len(p)} :
        /\ q \in Cached \union {<<>>}
        /\ \A n \in 1 .. Len(p) : SubSeq(p, 1, n) \in Cached => n <= Len(q)

FindPrefix(p) ==
    LET found == BestPrefix(p) IN
    /\ accesses < MaxAccesses /\ found # <<>>
    /\ Use(Longest(p))
    /\ prompts' = [prompts EXCEPT ![found] = accesses + 1]

ClearPrompts ==
    /\ Cached # {}
    /\ prompts' = [p \in Prompts |-> 0] /\ uses' = <<>>
    /\ UNCHANGED accesses

PromptNext ==
    \/ \E p \in Prompts : GetPrompt(p) \/ InsertPrompt(p) \/ FindPrefix(p)
    \/ ClearPrompts

\* The caches share no state and their steps interleave.
CacheSpec ==
    /\ CacheInit
    /\ [][(MapNext /\ UNCHANGED promptVars) \/ (PromptNext /\ UNCHANGED mapVars)]_cacheVars

-----------------------------------------------------------------------------
(* Properties *)

\* A cache stays within its limit as long as no two stores overlap.  Once
\* they do the excess stays, for a store evicts one entry at most
\* (memory/cache.rs, store_sync and update_sync; dedup.rs, insert).
MapsBounded == overlapped \/ Cardinality(Present) <= MaxEntries

\* The prompt cache holds exactly the prompts used last: no eviction takes a
\* prompt that was inserted, read or matched as the longest prefix after one
\* that stays (prompt_cache.rs, evict_lru with get and find_prefix).
PromptsMostRecent ==
    /\ Cardinality(Cached) <= MaxPrompts
    /\ \A i \in DOMAIN uses : uses[i] \in Cached =>
          \A j \in i .. Len(uses) : uses[j] \in Cached

\* The caches stay within their bounds and the prompt cache drops the entry used
\* least recently (ContextCache, OutputCache, PromptCache::insert).
CachesHold == MapsBounded /\ PromptsMostRecent
===============================================================================
