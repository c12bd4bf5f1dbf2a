------------------------------ MODULE Security ------------------------------
(***************************************************************************)
(* The security pipeline (security/pipeline.rs, prompt_injection.rs,       *)
(* pii_detector.rs, output_sanitizer.rs, stream_sanitizer.rs): the ingress *)
(* scan that rejects a prompt, the egress sanitiser that redacts a text,   *)
(* and the streaming sanitiser that releases a growing text chunk by chunk *)
(* without sanitising all of it again for every token.                     *)
(*                                                                         *)
(* A text is a sequence of symbols: digits, separators and what replaces a *)
(* redacted match.  The regular expressions are a few words over those     *)
(* symbols, one of which is a part of another and one of which spans a     *)
(* separator; the content filter's phrases are a word without the word     *)
(* boundaries.  A prompt is what the two pattern matchers find in it.      *)
(***************************************************************************)
EXTENDS Naturals, Sequences, SequencesExt, FiniteSets

CONSTANTS
    SecHoldback,   \* HOLDBACK
    SecMaxText,    \* bound on the length of a generated text
    SecMaxMatches  \* bound on the matches of one severity in a prompt

VARIABLES
    secConfig,  \* SecurityConfig: detect, block, pii, redact
    prompt,     \* what the matchers find: how many of each kind
    verdict,    \* "unscanned", then ScanVerdict
    text,       \* the text generated so far
    emitted,    \* StreamSanitizer.emitted
    stableRaw,  \* stable_raw
    stableSan,  \* stable_san
    released,   \* the chunks released, joined
    flushed     \* the terminal frame was sent

secVars == <<secConfig, prompt, verdict, text, emitted, stableRaw, stableSan, released, flushed>>
streamVars == <<text, emitted, stableRaw, stableSan, released, flushed>>

-----------------------------------------------------------------------------
(* The ingress scan                                                            *)

\* SecurityConfig::from_env: the three ingress settings and the two egress ones.
SecConfigs == {c \in [detect : BOOLEAN, block : BOOLEAN, pii : BOOLEAN, redact : BOOLEAN] :
                   (c.block => c.detect) /\ c.pii = c.redact}

\* Matches of the high-risk automaton, of the other one by the severity
\* classify_severity gives them, and of the pairs of words near each other.
Prompts == [high : 0 .. SecMaxMatches, five : 0 .. SecMaxMatches, four : 0 .. SecMaxMatches,
            three : 0 .. 1, two : 0 .. SecMaxMatches, near : 0 .. 1]
Severity(p) == CASE p.high > 0 \/ p.five > 0 -> 5
                 [] p.high + p.five = 0 /\ p.four > 0 -> 4
                 [] p.high + p.five + p.four = 0 /\ p.three + p.near > 0 -> 3
                 [] OTHER -> IF p.two > 0 THEN 2 ELSE 0

\* scan: a saturating u8, cut off at 100.
Risk(p) ==
    LET sum == 30 * p.high + 25 * p.five + 20 * p.four + 15 * (p.three + p.near) + 10 * p.two
    IN  IF sum > 100 THEN 100 ELSE sum

\* scan_prompt: marginal matches are let through, a risk of 50 or one match of
\* severity five is not.
Blocked(p) == secConfig.detect /\ secConfig.block /\ (Risk(p) >= 50 \/ Severity(p) >= 5)

-----------------------------------------------------------------------------
(* The egress sanitiser                                                        *)

Digit == "d"
Sep == "-"
Alphanumeric(c) == c \in {Digit, "x"}

\* The patterns with their confidence, in the order they are tried; those
\* under the threshold, or of a type that is not redacted, only shadow others.
PiiPatterns == << [word |-> <<Digit>>, confidence |-> 1, redact |-> FALSE],
                  [word |-> <<Digit, Sep, Digit>>, confidence |-> 2, redact |-> TRUE] >>
Redaction == <<"[", "x", "]">>
ContentPattern == <<Digit, Digit, Sep>>
ContentReplacement == <<"[", "x", "x", "]">>

\* \b: a boundary between the i-th symbol and the next.
WordBoundary(t, i) ==
    (IF i = 0 THEN FALSE ELSE Alphanumeric(t[i])) # (IF i = Len(t) THEN FALSE ELSE Alphanumeric(t[i + 1]))
IsAt(word, t, i) == i + Len(word) - 1 <= Len(t) /\ SubSeq(t, i, i + Len(word) - 1) = word
\* A scan of the positions 1 .. n from the left.
Scan(Op(_, _), start, n) ==
    LET upTo[i \in 0 .. n] == IF i = 0 THEN start ELSE Op(upTo[i - 1], i) IN upTo[n]

\* detect: every pattern's matches, leftmost first and not overlapping each
\* other, sorted by where they start.
Matches(t) ==
    LET Try(i, acc, k) ==
            LET p == PiiPatterns[k]
                end == i + Len(p.word) - 1
            IN  IF i > acc.after[k] /\ IsAt(p.word, t, i) /\ WordBoundary(t, i - 1) /\ WordBoundary(t, end)
                THEN [after |-> [acc.after EXCEPT ![k] = end],
                      found |-> Append(acc.found, [start |-> i, end |-> end, pattern |-> p])]
                ELSE acc
        At(acc, i) == Scan(LAMBDA a, k : Try(i, a, k), acc, Len(PiiPatterns))
    IN  Scan(At, [after |-> [k \in DOMAIN PiiPatterns |-> 0], found |-> <<>>], Len(t)).found

\* remove_overlaps: of two matches that overlap the more confident one stays.
RemoveOverlaps(found) ==
    LET Merge(kept, k) ==
            LET mm == found[k] IN
            IF kept = <<>> THEN <<mm>>
            ELSE IF mm.start > Last(kept).end THEN Append(kept, mm)
            ELSE IF mm.pattern.confidence > Last(kept).pattern.confidence THEN Append(Front(kept), mm)
            ELSE kept
    IN  Scan(Merge, <<>>, Len(found))

\* redact_all.
RedactAll(t) ==
    LET kept == SelectSeq(RemoveOverlaps(Matches(t)), LAMBDA mm : mm.pattern.redact)
        Piece(i) == IF \E k \in DOMAIN kept : kept[k].start = i THEN Redaction
                    ELSE IF \E k \in DOMAIN kept : i \in kept[k].start .. kept[k].end THEN <<>>
                    ELSE <<t[i]>>
    IN  Scan(LAMBDA acc, i : acc \o Piece(i), <<>>, Len(t))

\* filter_content_patterns.
FilterContent(t) ==
    LET Step(acc, i) ==
            IF i <= acc.after THEN acc
            ELSE IF IsAt(ContentPattern, t, i)
            THEN [after |-> i + Len(ContentPattern) - 1, out |-> acc.out \o ContentReplacement]
            ELSE [acc EXCEPT !.out = Append(@, t[i])]
    IN  Scan(Step, [after |-> 0, out |-> <<>>], Len(t)).out

\* sanitize_output: without the detector nothing is done.
SanitizeOutput(t) ==
    IF ~secConfig.pii THEN t
    ELSE FilterContent(IF secConfig.redact THEN RedactAll(t) ELSE t)

-----------------------------------------------------------------------------
(* The streaming sanitiser                                                     *)

After(t, p) == SubSeq(t, p + 1, Len(t))
Sanitized(t) == stableSan \o SanitizeOutput(After(t, stableRaw))

\* A slip: the end of the sanitised text is released as it is.
ReleaseAll(san) == Len(san)
\* release_cut: SecHoldback symbols behind the end, and back to the boundary
\* of a word.
ReleaseCut(san) ==
    LET cuts == {i \in 1 .. Len(san) - SecHoldback : ~(Alphanumeric(san[i]) /\ Alphanumeric(san[i + 1]))}
    IN  IF Len(san) <= SecHoldback \/ cuts = {} THEN 0
        ELSE CHOOSE i \in cuts : \A j \in cuts : j <= i

\* splits_cleanly, clean_split_at_or_before.
\* A slip: any boundary will do.
SplitsAnyhow(joint, t, p) == p <= Len(t)
SplitsCleanly(joint, t, p) ==
    joint = SanitizeOutput(SubSeq(t, stableRaw + 1, p)) \o SanitizeOutput(After(t, p))
CleanSplits(t) ==
    LET target == Len(t) - 2 * SecHoldback
        limit == IF target - 2 * SecHoldback > stableRaw THEN target - 2 * SecHoldback ELSE stableRaw
        joint == SanitizeOutput(After(t, stableRaw))
    IN  {p \in limit + 1 .. target : SplitsCleanly(joint, t, p)}

\* maybe_rebase moves the cached prefix once the tail is long.
MaybeRebase(t) ==
    LET splits == IF Len(t) - stableRaw <= 4 * SecHoldback THEN {} ELSE CleanSplits(t)
        p == CHOOSE x \in splits : \A y \in splits : y <= x
    IN  IF splits = {}
        THEN UNCHANGED <<stableRaw, stableSan>>
        ELSE /\ stableSan' = stableSan \o SanitizeOutput(SubSeq(t, stableRaw + 1, p))
             /\ stableRaw' = p

Release(san, cut) ==
    IF cut > emitted
    THEN released' = released \o SubSeq(san, emitted + 1, cut) /\ emitted' = cut
    ELSE UNCHANGED <<released, emitted>>

-----------------------------------------------------------------------------
SecInit ==
    /\ secConfig \in SecConfigs /\ prompt \in Prompts /\ verdict = "unscanned"
    /\ text = <<>> /\ emitted = 0 /\ stableRaw = 0 /\ stableSan = <<>> /\ released = <<>> /\ flushed = FALSE

\* scan_ingress: a rejected request gets its error and no text.  The prompt and
\* the ingress settings are read no more and are forgotten.
ScanIngress ==
    /\ verdict = "unscanned"
    /\ verdict' = IF Blocked(prompt) THEN "rejected" ELSE "allowed"
    /\ prompt' = [f \in DOMAIN prompt |-> 0]
    /\ secConfig' = [secConfig EXCEPT !.detect = FALSE, !.block = FALSE]
    /\ UNCHANGED streamVars

Push ==
    /\ verdict = "allowed" /\ ~flushed /\ Len(text) < SecMaxText
    /\ \E c \in {Digit, Sep} :
           LET t == Append(text, c)
               san == Sanitized(t)
           IN  text' = t /\ Release(san, ReleaseCut(san)) /\ MaybeRebase(t)
    /\ UNCHANGED <<secConfig, prompt, verdict, flushed>>

Flush ==
    /\ verdict = "allowed" /\ ~flushed
    /\ Release(Sanitized(text), Len(Sanitized(text)))
    /\ flushed' = TRUE
    /\ UNCHANGED <<secConfig, prompt, verdict, text, stableRaw, stableSan>>

SecNext == ScanIngress \/ Push \/ Flush
SecSpec == SecInit /\ [][SecNext]_secVars

-----------------------------------------------------------------------------
(* Whatever chunks a stream was released in, and wherever the cached       *)
(* prefix was moved to, the chunks joined are the text as one call of      *)
(* sanitize_output makes it: nothing raw escaped early, nothing is missing *)
(* or repeated.                                                            *)
EgressIsOneShot == flushed => released = SanitizeOutput(text)
=============================================================================
