----------------------------- MODULE Speculative -----------------------------
(***************************************************************************)
(* Adaptive speculative decoding (engine/adaptive_speculative/,            *)
(* engine/gguf/speculative_session.rs, adaptive_speculative.rs,            *)
(* engine/inference_speculative.rs): a drafter proposes a block, a         *)
(* scheduler decides whether it is worth verifying, the target verifies it *)
(* in one pass over its KV cache, and what agrees is committed.            *)
(*                                                                         *)
(* The target is a function from what its KV cache holds to the next       *)
(* token: the token of the greedy text while the cache holds a beginning   *)
(* of it, and another one otherwise.  Scores of floating point are left    *)
(* open: the window a plan computes is any window in its bounds.           *)
(* Acceptance rates are counted in tenths.                                 *)
(***************************************************************************)
EXTENDS Naturals, Sequences, SequencesExt, FiniteSets

CONSTANTS
    SpecTokens,      \* the vocabulary without the end-of-sequence token
    SpecPrompt,      \* the length of the prompt
    SpecMaxTokens,   \* bound on max_tokens
    SpecMaxDraft,    \* max_draft_tokens
    SpecNgram,       \* prompt_lookup_ngram
    SpecMinWindow,   \* min_verification_tokens
    SpecMaxWindow,   \* max_verification_tokens
    SpecHistory,     \* HISTORY_LEN
    SpecThreshold    \* auto_disable_threshold, in tenths

\* seat asserts that there is a last token.
ASSUME SpecAssumption ==
    SpecPrompt \in Nat \ {0} /\ SpecMaxTokens \in Nat /\ SpecMaxDraft \in Nat /\ SpecNgram \in Nat

Eos == "eos"
SpecVocabulary == SpecTokens \union {Eos}
SpecLength == SpecPrompt + SpecMaxTokens + (IF SpecMaxDraft = 0 THEN 0 ELSE SpecMaxDraft - 1)

VARIABLES
    greedy,      \* the prompt and the text the target continues it with
    specActive,  \* AdaptiveSpeculativeConfig.is_active
    specLookup,  \* there is no draft model: the prompt is searched
    specMax,     \* max_tokens of the request
    specAt,      \* where the run is
    context,     \* the tokens so far
    block,       \* the draft
    window,      \* VerificationPlan.window
    kv,          \* the tokens of the target's KV cache
    kvLen,       \* kv_len of the session; SpecLength + 1 without a session
    rates,       \* AcceptanceHistory of the scheduler, in tenths
    disabled,    \* auto_disable_fired
    specStats    \* SpeculativeTelemetry: drafted, accepted, rejected

specVars == <<greedy, specActive, specLookup, specMax, specAt, context, block, window, kv, kvLen,
              rates, disabled, specStats>>

NoSpecSession == SpecLength + 1
SpecInit ==
    /\ greedy \in [1 .. SpecLength -> SpecVocabulary]
    /\ \A i \in 1 .. SpecPrompt : greedy[i] # Eos
    /\ specActive \in BOOLEAN /\ specLookup \in BOOLEAN /\ specMax \in 0 .. SpecMaxTokens
    /\ specAt = "draft" /\ context = SubSeq(greedy, 1, SpecPrompt)
    /\ block = <<>> /\ window = 0 /\ kv = <<>> /\ kvLen = NoSpecSession
    /\ rates = <<>> /\ disabled = FALSE
    /\ specStats = [drafted |-> 0, accepted |-> 0, rejected |-> 0]

Generated == Len(context) - SpecPrompt

\* What the target predicts after the tokens in its cache.
Predict(cache) ==
    LET next == greedy[Len(cache) + 1]
    IN  IF IsPrefix(cache, greedy) THEN next ELSE CHOOSE t \in SpecVocabulary : t # next

-----------------------------------------------------------------------------
(* Drafting                                                                    *)

\* lookup: what followed the latest earlier occurrence of the last n tokens.
Lookup(c) ==
    LET n == SpecNgram
        found == {s \in 0 .. Len(c) - n - 1 : SubSeq(c, s + 1, s + n) = SubSeq(c, Len(c) - n + 1, Len(c))}
    IN  IF n = 0 \/ Len(c) <= n \/ found = {} THEN <<>>
        ELSE LET s == CHOOSE x \in found : \A y \in found : y <= x
                 end == IF s + n + SpecMaxDraft < Len(c) THEN s + n + SpecMaxDraft ELSE Len(c)
             IN  SubSeq(c, s + n + 1, end)
\* A draft model may propose anything, up to its end of text.
Drafts == UNION {[1 .. n -> SpecTokens] : n \in 0 .. SpecMaxDraft}

\* try_speculative leaves an inactive configuration alone; run ends when
\* enough was generated.
Draft ==
    /\ specAt = "draft"
    /\ IF ~specActive \/ Generated >= specMax
       THEN specAt' = "done" /\ UNCHANGED block
       ELSE /\ block' \in IF specLookup THEN {Lookup(context)} ELSE Drafts
            /\ specAt' = IF block' = <<>> THEN "one" ELSE "plan"
    /\ UNCHANGED <<greedy, specActive, specLookup, specMax, context, window, kv, kvLen, rates, disabled, specStats>>

\* AcceptanceHistory::mean, half when nothing was recorded.
MeanTenths ==
    IF rates = <<>> THEN 5
    ELSE FoldSeq(LAMBDA x, y : x + y, 0, rates) \div Len(rates)
ShouldAutoDisable == 10 + MeanTenths < SpecThreshold

\* plan: too few acceptances, or a window of nothing, and the target goes on
\* alone.  Scores only ever choose a window between the bounds.
Windows == {IF w < SpecMinWindow THEN SpecMinWindow ELSE w : w \in 0 .. SpecMaxWindow}
Plan ==
    /\ specAt = "plan"
    /\ IF ShouldAutoDisable
       THEN disabled' = TRUE /\ window' = 0
       ELSE UNCHANGED disabled /\ window' \in Windows
    /\ specAt' = IF window' = 0 THEN "one" ELSE "verify"
    /\ UNCHANGED <<greedy, specActive, specLookup, specMax, context, block, kv, kvLen, rates, specStats>>

-----------------------------------------------------------------------------
(* The target's session                                                        *)

\* with_session makes the session on first use, with the whole context in the
\* cache; seat brings the cache to the context without its last token, back
\* or forward, and decodes that token again for its logits.
Seated ==
    LET p == Len(context)
        cache == IF kvLen = NoSpecSession THEN context ELSE kv
        len == IF kvLen = NoSpecSession THEN p ELSE kvLen
        upTo == IF len > p - 1 THEN SubSeq(cache, 1, p - 1)
                ELSE cache \o SubSeq(context, len + 1, p - 1)
    IN  Append(upTo, context[p])

\* How much of the block the target agrees with: its prediction for each
\* position, given the context and the block before it.
Agrees(cache) == {k \in 0 .. Len(block) :
    \A i \in 1 .. k : Predict(cache \o SubSeq(block, 1, i - 1)) = block[i]}
Accepted(cache) == CHOOSE k \in Agrees(cache) : \A j \in Agrees(cache) : j <= k

\* The scheduler holds the accepted tokens against the window it planned.
AcceptedShare(accepted) == IF accepted > window THEN 10 ELSE (10 * accepted) \div window
Record(accepted) ==
    /\ rates' = Append(IF Len(rates) = SpecHistory THEN Tail(rates) ELSE rates, AcceptedShare(accepted))
    /\ specStats' = [drafted |-> specStats.drafted + Len(block), accepted |-> specStats.accepted + accepted,
                     rejected |-> specStats.rejected + (Len(block) - accepted)]

\* run's loop over the committed tokens: the end of the text or the limit
\* stops it, whatever else was committed.
Commit(tokens) ==
    LET room == specMax - Generated
        ends == {i \in DOMAIN tokens : tokens[i] = Eos \/ i = room}
        kept == IF ends = {} THEN tokens
                ELSE SubSeq(tokens, 1, CHOOSE i \in ends : \A j \in ends : i <= j)
    IN  /\ context' = context \o kept
        /\ specAt' = IF ends = {} THEN "draft" ELSE "done"
        /\ block' = <<>> /\ window' = 0

SpecError == specAt' = "failed" /\ UNCHANGED <<context, block, window, kv, kvLen, rates, specStats>>

\* A slip: the draft stays in the cache.
RolledBackToDraft(cache) == cache \o block

\* verify decodes the draft behind the context and takes it out again.
RolledBack(cache) == SubSeq(cache \o block, 1, Len(context))

\* verify, whatever window was planned: the whole block; then the accepted
\* tokens and the target's own where it differs.
Verify ==
    /\ specAt = "verify"
    /\ \/ SpecError
       \/ LET cache == Seated
              accepted == Accepted(cache)
              correction == IF accepted = Len(block) THEN <<>>
                            ELSE <<Predict(cache \o SubSeq(block, 1, accepted))>>
          IN  /\ kv' = RolledBack(cache) /\ kvLen' = Len(context)
              /\ Record(accepted)
              /\ Commit(SubSeq(block, 1, accepted) \o correction)
    /\ UNCHANGED <<greedy, specActive, specLookup, specMax, disabled>>

GenerateOne ==
    /\ specAt = "one"
    /\ \/ SpecError
       \/ /\ kv' = Seated /\ kvLen' = Len(context)
          /\ Commit(<<Predict(Seated)>>)
          /\ UNCHANGED <<rates, specStats>>
    /\ UNCHANGED <<greedy, specActive, specLookup, specMax, disabled>>

SpecNext == Draft \/ Plan \/ Verify \/ GenerateOne

SpecSpec == SpecInit /\ [][SpecNext]_specVars

-----------------------------------------------------------------------------
(* Properties *)

\* Speculation never changes the text: whatever was drafted, planned,
\* rejected and rolled back, the output is what the target alone would have
\* generated, cut at the end of the text and at the limit; the session's
\* length is what its cache holds, a beginning of the context; and no drafted
\* token is counted twice (executor.rs, run; speculative_session.rs, seat and
\* verify).
SpeculationIsGreedy ==
    /\ IsPrefix(context, greedy) /\ Generated <= specMax
    /\ \A i \in SpecPrompt + 1 .. Len(context) - 1 : context[i] # Eos
    /\ specAt = "done" /\ specActive => Generated = specMax \/ Last(context) = Eos
    /\ kvLen # NoSpecSession => kvLen = Len(kv) /\ IsPrefix(kv, context)
    /\ specStats.accepted + specStats.rejected = specStats.drafted
=============================================================================
