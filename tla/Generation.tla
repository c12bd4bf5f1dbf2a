------------------------------ MODULE Generation ------------------------------
(***************************************************************************)
(* Text generation: the engine's entry points (engine/inference.rs,        *)
(* inference_streaming.rs, inference_degraded.rs, degraded_mode.rs), the   *)
(* GGUF generator and its llama.cpp backend (engine/gguf/generator.rs,     *)
(* backend.rs, mod.rs).  Between any two steps of a generation its token   *)
(* may be cancelled, its deadline may pass, the reader of its stream may   *)
(* go away and its model may be unregistered.                              *)
(*                                                                         *)
(* llama.cpp is external: it decodes or fails, and the sampler answers     *)
(* with a word or with the end of the text.  The KV cache of the context   *)
(* is the number of positions decoded.                                     *)
(***************************************************************************)
EXTENDS Naturals, Sequences

CONSTANTS
    GenLoaders,     \* concurrent loads of a model
    GenContext,     \* n_ctx
    GenBatch,       \* min(n_batch, n_ubatch)
    GenCheckpoint,  \* PREFILL_CHECKPOINT_TOKENS
    GenMaxContext,  \* max_context_length of the engine
    GenMinContext,  \* min_context_tokens of the degraded mode
    GenMaxPrompt,   \* bound on the tokens of a prompt
    GenMaxTokens    \* bound on max_tokens

\* The context of a model has a position at least.
ASSUME GenAssumption ==
    /\ GenContext \in Nat \ {0}
    /\ {GenBatch, GenCheckpoint, GenMaxContext, GenMinContext, GenMaxPrompt, GenMaxTokens} \subseteq Nat

VARIABLES
    llReady,    \* BACKEND is set
    llLock,     \* who holds INIT: a set of at most one
    llInits,    \* history: successful LlamaBackend::init calls
    loader,     \* where each load is
    genModel,   \* the engine knows the model
    genStop,    \* what StopControl sees: the set of "cancelled", "expired"
    genReader,  \* the reader of the stream is there
    gen,        \* the generation
    genSent     \* the items of the stream

llVars == <<llReady, llLock, llInits, loader>>
genVars == <<llReady, llLock, llInits, loader, genModel, genStop, genReader, gen, genSent>>

GenKinds == {"unary", "run", "stream", "draft"}
GenIdle == [at |-> "idle", kind |-> "unary", prompt |-> 0, max |-> 0, pos |-> 0, out |-> 0,
            reason |-> "none", result |-> "none"]

GenInit ==
    /\ llReady = FALSE /\ llLock = {} /\ llInits = 0
    /\ loader = [l \in GenLoaders |-> "idle"]
    /\ genModel = FALSE /\ genStop = {} /\ genReader = TRUE
    /\ gen = GenIdle /\ genSent = <<>>

-----------------------------------------------------------------------------
(* Loading: process_backend initialises llama.cpp once, under a lock          *)

LoaderTo(l, at) == loader' = [loader EXCEPT ![l] = at]
LoadLook(l) ==
    /\ loader[l] = "idle"
    /\ LoaderTo(l, IF llReady THEN "load" ELSE "lock")
    /\ UNCHANGED <<llReady, llLock, llInits, genModel, genStop, genReader, gen, genSent>>
LoadLock(l) ==
    /\ loader[l] = "lock" /\ llLock = {}
    /\ llLock' = {l} /\ LoaderTo(l, "init")
    /\ UNCHANGED <<llReady, llInits, genModel, genStop, genReader, gen, genSent>>

\* A slip: the second look, with the lock held, is left out.
InitUnlooked(l) ==
    /\ loader[l] = "init"
    /\ \/ llInits' = llInits + 1 /\ llReady' = TRUE /\ LoaderTo(l, "load")
       \/ LoaderTo(l, "idle") /\ UNCHANGED <<llReady, llInits>>
    /\ llLock' = {}
    /\ UNCHANGED <<genModel, genStop, genReader, gen, genSent>>

\* The second look, then LlamaBackend::init, which may fail.
InitBackend(l) ==
    /\ loader[l] = "init"
    /\ \/ llReady /\ LoaderTo(l, "load") /\ UNCHANGED <<llReady, llInits>>
       \/ ~llReady /\ llInits' = llInits + 1 /\ llReady' = TRUE /\ LoaderTo(l, "load")
       \/ ~llReady /\ LoaderTo(l, "idle") /\ UNCHANGED <<llReady, llInits>>
    /\ llLock' = {}
    /\ UNCHANGED <<genModel, genStop, genReader, gen, genSent>>

\* load_from_file, and register_model of the engine; or it fails.
LoadModel(l) ==
    /\ loader[l] = "load" /\ LoaderTo(l, "idle")
    /\ genModel' \in {genModel, TRUE}
    /\ UNCHANGED <<llReady, llLock, llInits, genStop, genReader, gen, genSent>>
UnloadModel ==
    /\ genModel /\ genModel' = FALSE
    /\ UNCHANGED <<llVars, genStop, genReader, gen, genSent>>

-----------------------------------------------------------------------------
(* Starting: run, run_controlled, run_stream_sync and generate_tokens         *)

\* check_context refuses a long prompt; run cuts it instead, when the degraded
\* mode may reduce that far.
CheckContext(prompt) == prompt <= GenMaxContext
MayReduceContext == GenMaxContext >= GenMinContext
ReducedContext(prompt) ==
    IF CheckContext(prompt) \/ ~MayReduceContext THEN prompt ELSE GenMaxContext

\* An error before the model is called is the result; a stream still ends.
GenRefuse(kind, why) ==
    gen' = [GenIdle EXCEPT !.at = IF kind = "stream" THEN "finish" ELSE "done", !.kind = kind, !.result = why]
\* The first stop the control reports: cancellation before the deadline.
StopResult == IF "cancelled" \in genStop THEN "Cancelled" ELSE "DeadlineExceeded"

\* ensure_prompt_room: a prompt has a token and leaves room for one.
PromptRoom(prompt) == prompt > 0 /\ prompt < GenContext
Begin(kind, prompt, max) ==
    IF ~PromptRoom(prompt)
    THEN gen' = [GenIdle EXCEPT !.at = "finish", !.kind = kind, !.result = "Error"]
    ELSE gen' = [GenIdle EXCEPT !.at = "prefill", !.kind = kind, !.prompt = prompt, !.max = max]

StartGeneration(kind, asked, max) ==
    LET prompt == IF kind = "run" THEN ReducedContext(asked) ELSE asked IN
    /\ gen.at = "idle" /\ (kind = "run" => "cancelled" \notin genStop)
    /\ \/ kind = "unary" /\ genStop # {} /\ GenRefuse(kind, StopResult)
       \/ ~genModel /\ GenRefuse(kind, "ModelNotLoaded")
       \/ genModel /\ kind \in {"unary", "run"} /\ ~CheckContext(prompt) /\ GenRefuse(kind, "ContextExceeded")
       \/ genModel /\ kind = "unary" /\ genStop = {} /\ CheckContext(prompt) /\ GenRefuse(kind, "MemoryExceeded")
       \/ /\ genModel /\ (kind = "unary" => genStop = {})
          /\ (kind \in {"unary", "run"} => CheckContext(prompt))
          /\ Begin(kind, prompt, max)
    /\ UNCHANGED <<llVars, genModel, genStop, genReader, genSent>>

-----------------------------------------------------------------------------
(* Prefill and sampling                                                        *)

\* Drafting takes no stop check.
Stopped == gen.kind # "draft" /\ genStop # {}
GenEnd(reason) == gen' = [gen EXCEPT !.at = "finish", !.reason = reason]
NativeFailure == gen' = [gen EXCEPT !.at = "finish", !.result = "Error"]

\* decode_range_checked: a chunk at a time, with a look at the stop before
\* each; the chunks of a prompt that can be stopped are capped.
ChunkCap == IF gen.kind = "draft" \/ GenBatch < GenCheckpoint THEN GenBatch ELSE GenCheckpoint
DecodeChunk ==
    LET left == gen.prompt - gen.pos
        chunk == IF left < ChunkCap THEN left ELSE ChunkCap
    IN  /\ gen.at = "prefill"
        /\ \/ Stopped /\ GenEnd("cancelled")
           \/ ~Stopped /\ NativeFailure
           \/ ~Stopped /\ gen' = [gen EXCEPT !.pos = @ + chunk,
                                             !.at = IF left = chunk THEN "sample" ELSE "prefill"]
        /\ UNCHANGED <<llVars, genModel, genStop, genReader, genSent>>

\* A slip: the room left in the context is not looked at.
LimitUnroomed == gen.max

\* What may still be generated: max_tokens, within the context.
GenLimit ==
    LET room == GenContext - gen.prompt IN IF gen.max < room THEN gen.max ELSE room

\* A sampled token is emitted, and decoded unless it is the last.
SampleToken ==
    /\ gen.at = "sample"
    /\ \/ gen.out >= GenLimit /\ GenEnd("max") /\ UNCHANGED genSent
       \/ gen.out < GenLimit /\ Stopped /\ GenEnd("cancelled") /\ UNCHANGED genSent
       \/ gen.out < GenLimit /\ ~Stopped /\ NativeFailure /\ UNCHANGED genSent
       \/ /\ gen.out < GenLimit /\ ~Stopped
          /\ \E token \in {"word", "eog"} :
                LET last == gen.out + 1 = GenLimit
                    counted == IF token = "eog" THEN gen.out ELSE gen.out + 1
                    closed == gen.kind = "stream" /\ ~genReader
                IN  /\ gen' = [gen EXCEPT
                                 !.out = counted,
                                 !.pos = IF token = "eog" \/ last \/ closed THEN @ ELSE @ + 1,
                                 !.at = IF token = "eog" \/ last \/ closed THEN "finish" ELSE "sample",
                                 !.reason = IF token = "eog" THEN "stop" ELSE IF last THEN "max"
                                            ELSE IF closed THEN "closed" ELSE @]
                    /\ genSent' = IF gen.kind = "stream" /\ genReader THEN Append(genSent, token) ELSE genSent
    /\ UNCHANGED <<llVars, genModel, genStop, genReader>>

-----------------------------------------------------------------------------
(* The result                                                                  *)

\* infer_controlled: a stop by now counts before whatever the model returned.
UnaryResult ==
    IF gen.kind # "draft" /\ genStop # {} THEN StopResult
    ELSE IF gen.result # "none" THEN gen.result
    ELSE IF gen.reason = "cancelled" THEN "Cancelled" ELSE "Ok"

\* A slip: a generation that returned is complete.
StreamResultTrusted == IF gen.result # "none" THEN "Error" ELSE "Ok"

\* run_stream_sync: a stream that was stopped is not complete.
StreamResult ==
    IF gen.result # "none" \/ genStop # {} THEN "Error" ELSE "Ok"

FinishGeneration ==
    LET result == IF gen.kind = "stream" THEN StreamResult ELSE UnaryResult IN
    /\ gen.at = "finish"
    /\ gen' = [gen EXCEPT !.at = "done", !.result = result]
    /\ genSent' = IF gen.kind = "stream" /\ genReader THEN Append(genSent, "End") ELSE genSent
    /\ UNCHANGED <<llVars, genModel, genStop, genReader>>
NextGeneration ==
    /\ gen.at = "done" /\ gen' = GenIdle /\ genSent' = <<>> /\ genStop' = {} /\ genReader' = TRUE
    /\ UNCHANGED <<llVars, genModel>>

\* A token is cancelled, a deadline passes, a reader leaves.
StopGeneration(why) ==
    /\ why \notin genStop /\ gen.at # "done" /\ (gen.kind = "run" => why = "expired")
    /\ genStop' = genStop \union {why}
    /\ UNCHANGED <<llVars, genModel, genReader, gen, genSent>>
DropReader ==
    /\ genReader /\ gen.kind = "stream" /\ gen.at \in {"prefill", "sample", "finish"}
    /\ genReader' = FALSE
    /\ UNCHANGED <<llVars, genModel, genStop, gen, genSent>>

GenNext ==
    \/ \E l \in GenLoaders : LoadLook(l) \/ LoadLock(l) \/ InitBackend(l) \/ LoadModel(l)
    \/ UnloadModel
    \/ \E kind \in GenKinds, prompt \in 0 .. GenMaxPrompt, max \in 0 .. GenMaxTokens :
          StartGeneration(kind, prompt, max)
    \/ DecodeChunk \/ SampleToken \/ FinishGeneration \/ NextGeneration
    \/ \E why \in {"cancelled", "expired"} : StopGeneration(why)
    \/ DropReader

GenSpec == GenInit /\ [][GenNext]_genVars

-----------------------------------------------------------------------------
(* Properties *)

\* A result is what it says: a generation that reports success was not cut
\* short by a stop it saw, however late, and ended at the end of the text, at
\* its limit or with its reader; no position beyond the context is ever
\* decoded, whatever the sizes of prompt, chunks and limit; a stream has one
\* End and nothing after it; and llama.cpp is initialised once, however many
\* loads race (inference.rs, infer_controlled; inference_streaming.rs,
\* run_stream_sync; backend.rs, sample_loop, process_backend).
GenerationHonest ==
    /\ gen.at = "done" /\ gen.result = "Ok" => gen.reason \in {"stop", "max", "closed"}
    /\ gen.pos < GenContext /\ gen.prompt + gen.out <= GenContext /\ gen.out <= gen.max
    /\ \A i \in DOMAIN genSent : genSent[i] = "End" => i = Len(genSent) /\ gen.at = "done"
    /\ gen.at = "done" /\ gen.kind = "stream" /\ genReader => genSent[Len(genSent)] = "End"
    /\ llInits <= 1
=============================================================================
