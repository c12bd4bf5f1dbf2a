----------------------------- MODULE EngineProofs -----------------------------
(***************************************************************************)
(* Proofs about what runs the work: a generation (Generation) reports what *)
(* happened to it and stays within its context, speculation (Speculative)  *)
(* does not change what is generated, the thread pool (ThreadPool) runs    *)
(* what it accepted once and in order, and work divided over devices and   *)
(* experts (GpuWork) is complete, whatever the remainders.                 *)
(***************************************************************************)
EXTENDS Generation, ThreadPool, Speculative, GpuWork, CountingLemmas

-----------------------------------------------------------------------------
(* Generation *)

GenStage == {"idle", "prefill", "sample", "finish", "done"}
GenReason == {"none", "stop", "max", "closed", "cancelled"}
GenError == {"Cancelled", "DeadlineExceeded", "ModelNotLoaded", "ContextExceeded", "MemoryExceeded", "Error"}

GenRecord == [at : GenStage, kind : GenKinds, prompt : Nat, max : Nat, pos : Nat, out : Nat,
              reason : GenReason, result : GenError \union {"none", "Ok"}]

\* llama.cpp is not initialised before it is ready.
BackendInv == llInits \in 0 .. 1 /\ (~llReady => llInits = 0)

\* The positions decoded: those of the prompt, then one for every token but the
\* last.
RoomOf(g) ==
    /\ g.prompt + g.out <= GenContext /\ g.out <= g.max /\ g.pos < GenContext
    /\ g.at \in {"prefill", "sample"} => g.prompt + g.out < GenContext
    /\ g.at = "prefill" => g.pos <= g.prompt /\ g.out = 0
    /\ g.at = "sample" => g.pos = g.prompt + g.out

\* What a generation will report: while it goes on it has no reason and no result;
\* once it has finished either an error or a reason, and one that was cut short saw
\* a stop that is still there.
VerdictOf(g) ==
    /\ g.at \in {"idle", "prefill", "sample"} => g.reason = "none" /\ g.result = "none"
    /\ g.at = "finish" => \/ g.result \in GenError
                          \/ g.result = "none" /\ g.reason # "none"
    /\ g.at = "finish" /\ g.reason = "cancelled" => genStop # {} /\ g.kind # "draft"
    /\ g.at = "done" /\ g.result = "Ok" => g.reason \in {"stop", "max", "closed"}

\* Nothing follows the End of a stream, and it comes with the result.
SentInv ==
    /\ genSent \in Seq({"word", "eog", "End"})
    /\ gen.at # "done" => \A i \in DOMAIN genSent : genSent[i] # "End"
    /\ gen.at = "done" => \A i \in DOMAIN genSent : genSent[i] = "End" => i = Len(genSent)
    /\ gen.at = "done" /\ gen.kind = "stream" /\ genReader =>
          genSent # <<>> /\ genSent[Len(genSent)] = "End"

GenInv == BackendInv /\ gen \in GenRecord /\ RoomOf(gen) /\ VerdictOf(gen) /\ SentInv

LEMMA IdleGeneration == GenIdle \in GenRecord /\ RoomOf(GenIdle) /\ VerdictOf(GenIdle) /\ GenIdle.at = "idle"
  <1>1. GenIdle \in GenRecord /\ GenIdle.at = "idle"
    BY DEF GenIdle, GenRecord, GenStage, GenKinds, GenReason
  <1>2. RoomOf(GenIdle) BY GenAssumption DEF GenIdle, RoomOf
  <1>3. VerdictOf(GenIdle) BY DEF GenIdle, VerdictOf
  <1> QED BY <1>1, <1>2, <1>3

LEMMA GenInitial == GenInit => GenInv
  <1> SUFFICES ASSUME GenInit PROVE GenInv OBVIOUS
  <1>1. BackendInv
    <2>1. llReady = FALSE /\ llInits = 0 BY DEF GenInit
    <2> QED BY <2>1 DEF BackendInv
  <1>2. SentInv BY IdleGeneration DEF GenInit, SentInv
  <1> QED BY <1>1, <1>2, IdleGeneration DEF GenInit, GenInv

\* A step of a load.
LEMMA BackendStep ==
  ASSUME GenInv, NEW l \in GenLoaders, LoadLook(l) \/ LoadLock(l) \/ InitBackend(l) \/ LoadModel(l)
  PROVE  GenInv'
  <1>1. BackendInv'
    <2>1. \/ UNCHANGED <<llReady, llInits>>
          \/ ~llReady /\ llInits' = llInits + 1 /\ llReady' = TRUE
      BY DEF LoadLook, LoadLock, InitBackend, LoadModel
    <2>2. llInits \in 0 .. 1 /\ (~llReady => llInits = 0) BY DEF GenInv, BackendInv
    <2>3. CASE UNCHANGED <<llReady, llInits>> BY <2>3 DEF GenInv, BackendInv
    <2>4. CASE ~llReady /\ llInits' = llInits + 1 /\ llReady' = TRUE
      <3>1. llInits' \in 0 .. 1 BY <2>2, <2>4
      <3> QED BY <2>4, <3>1 DEF BackendInv
    <2> QED BY <2>1, <2>3, <2>4
  <1>2. UNCHANGED <<gen, genSent, genStop, genReader>>
    BY DEF LoadLook, LoadLock, InitBackend, LoadModel
  <1> QED BY <1>1, <1>2 DEF GenInv, RoomOf, VerdictOf, SentInv

\* An error before the model is called.
LEMMA Refused ==
  ASSUME NEW kind \in GenKinds, NEW why \in GenError, NEW at \in {"finish", "done"}
  PROVE  LET g == [GenIdle EXCEPT !.at = at, !.kind = kind, !.result = why]
         IN  g \in GenRecord /\ RoomOf(g) /\ VerdictOf(g) /\ g.at = at /\ g.kind = kind
  <1> DEFINE g == [GenIdle EXCEPT !.at = at, !.kind = kind, !.result = why]
  <1>1. /\ g \in GenRecord /\ g.at = at /\ g.kind = kind /\ g.prompt = 0 /\ g.out = 0 /\ g.max = 0
        /\ g.pos = 0 /\ g.reason = "none" /\ g.result = why
    BY DEF GenIdle, GenRecord, GenStage, GenReason
  <1> HIDE DEF g
  <1>2. RoomOf(g) BY <1>1, GenAssumption DEF RoomOf
  <1>3. VerdictOf(g) BY <1>1 DEF VerdictOf, GenError
  <1> QED BY <1>1, <1>2, <1>3 DEF g

LEMMA StartStep ==
  ASSUME GenInv, NEW kind \in GenKinds, NEW asked \in 0 .. GenMaxPrompt, NEW max \in 0 .. GenMaxTokens,
         StartGeneration(kind, asked, max)
  PROVE  GenInv'
  <1> DEFINE prompt == IF kind = "run" THEN ReducedContext(asked) ELSE asked
  <1>1. prompt \in Nat /\ max \in Nat BY GenAssumption DEF ReducedContext
  <1>2. gen.at = "idle" /\ UNCHANGED <<llVars, genSent, genStop, genReader>> BY DEF StartGeneration
  <1>3. CASE \E why \in GenError : GenRefuse(kind, why)
    <2>1. PICK why \in GenError : GenRefuse(kind, why) BY <1>3
    <2>2. /\ gen' \in GenRecord /\ RoomOf(gen') /\ VerdictOf(gen')
          /\ gen'.at \in {"finish", "done"} /\ (gen'.at = "done" => gen'.kind # "stream")
      <3>1. CASE kind = "stream"
        <4>1. gen' = [GenIdle EXCEPT !.at = "finish", !.kind = kind, !.result = why]
          BY <2>1, <3>1 DEF GenRefuse
        <4> QED BY <4>1, Refused
      <3>2. CASE kind # "stream"
        <4>1. gen' = [GenIdle EXCEPT !.at = "done", !.kind = kind, !.result = why]
          BY <2>1, <3>2 DEF GenRefuse
        <4> QED BY <3>2, <4>1, Refused
      <3> QED BY <3>1, <3>2
    <2>3. SentInv' BY <1>2, <2>2 DEF GenInv, SentInv
    <2>4. VerdictOf(gen)' BY <1>2, <2>2 DEF VerdictOf
    <2> QED BY <1>2, <2>2, <2>3, <2>4 DEF GenInv, BackendInv, llVars, RoomOf
  <1>4. CASE Begin(kind, prompt, max)
    <2>1. /\ gen' \in GenRecord /\ RoomOf(gen') /\ VerdictOf(gen') /\ gen'.at \in {"finish", "prefill"}
      <3>1. CASE ~PromptRoom(prompt)
        <4>1. gen' = [GenIdle EXCEPT !.at = "finish", !.kind = kind, !.result = "Error"]
          BY <1>4, <3>1 DEF Begin
        <4> QED BY <4>1, Refused DEF GenError
      <3>2. CASE PromptRoom(prompt)
        <4> DEFINE g == [GenIdle EXCEPT !.at = "prefill", !.kind = kind, !.prompt = prompt, !.max = max]
        <4>1. gen' = g BY <1>4, <3>2 DEF Begin
        <4> HIDE DEF prompt
        <4>2. /\ g \in GenRecord /\ g.at = "prefill" /\ g.prompt = prompt /\ g.max = max /\ g.out = 0
              /\ g.pos = 0 /\ g.reason = "none" /\ g.result = "none"
          BY <1>1 DEF GenIdle, GenRecord, GenStage, GenReason
        <4> HIDE DEF g
        <4>3. RoomOf(g) BY <1>1, <3>2, <4>2, GenAssumption DEF RoomOf, PromptRoom
        <4>4. VerdictOf(g) BY <4>2 DEF VerdictOf
        <4> QED BY <4>1, <4>2, <4>3, <4>4
      <3> QED BY <3>1, <3>2
    <2>2. SentInv' BY <1>2, <2>1 DEF GenInv, SentInv
    <2>3. VerdictOf(gen)' BY <1>2, <2>1 DEF VerdictOf
    <2> QED BY <1>2, <2>1, <2>2, <2>3 DEF GenInv, BackendInv, llVars, RoomOf
  <1>5. \A why \in {"Cancelled", "DeadlineExceeded", "ModelNotLoaded", "ContextExceeded", "MemoryExceeded"} :
          why \in GenError
    BY DEF GenError
  <1>6. StopResult \in GenError BY DEF StopResult, GenError
  <1> QED BY <1>3, <1>4, <1>5, <1>6 DEF StartGeneration

LEMMA ChunkStep ==
  ASSUME GenInv, DecodeChunk
  PROVE  GenInv'
  <1> DEFINE left == gen.prompt - gen.pos
             chunk == IF left < ChunkCap THEN left ELSE ChunkCap
  <1>1. gen \in GenRecord /\ RoomOf(gen) /\ VerdictOf(gen) /\ gen.at = "prefill"
    BY DEF GenInv, DecodeChunk
  <1>2. UNCHANGED <<llVars, genSent, genStop, genReader>> BY DEF DecodeChunk
  <1>3. ChunkCap \in Nat BY GenAssumption DEF ChunkCap
  <1>4. /\ gen.prompt \in Nat /\ gen.pos \in Nat /\ gen.out = 0 /\ gen.pos <= gen.prompt
        /\ gen.prompt < GenContext /\ gen.max \in Nat /\ gen.reason = "none" /\ gen.result = "none"
    BY <1>1, GenAssumption DEF GenRecord, RoomOf, VerdictOf
  <1>5. gen.pos + chunk \in Nat /\ gen.pos + chunk <= gen.prompt /\ (left = chunk => gen.pos + chunk = gen.prompt)
    BY <1>3, <1>4
  <1> HIDE DEF left, chunk
  <1>6. /\ gen' \in GenRecord /\ RoomOf(gen') /\ VerdictOf(gen')
        /\ gen'.at \in {"finish", "prefill", "sample"}
    <2>1. CASE Stopped /\ GenEnd("cancelled")
      <3>1. /\ gen' \in GenRecord /\ gen'.at = "finish" /\ gen'.reason = "cancelled" /\ gen'.result = "none"
            /\ gen'.prompt = gen.prompt /\ gen'.out = gen.out /\ gen'.max = gen.max /\ gen'.pos = gen.pos
            /\ gen'.kind = gen.kind
        BY <1>1, <1>4, <2>1 DEF GenEnd, GenRecord, GenStage, GenReason
      <3>2. RoomOf(gen') BY <1>4, <3>1, GenAssumption DEF RoomOf
      <3>3. VerdictOf(gen') BY <2>1, <3>1 DEF VerdictOf, Stopped
      <3> QED BY <3>1, <3>2, <3>3
    <2>2. CASE NativeFailure
      <3>1. /\ gen' \in GenRecord /\ gen'.at = "finish" /\ gen'.reason = "none" /\ gen'.result = "Error"
            /\ gen'.prompt = gen.prompt /\ gen'.out = gen.out /\ gen'.max = gen.max /\ gen'.pos = gen.pos
        BY <1>1, <1>4, <2>2 DEF NativeFailure, GenRecord, GenStage, GenError
      <3>2. RoomOf(gen') BY <1>4, <3>1, GenAssumption DEF RoomOf
      <3>3. VerdictOf(gen') BY <3>1 DEF VerdictOf, GenError
      <3> QED BY <3>1, <3>2, <3>3
    <2>3. CASE gen' = [gen EXCEPT !.pos = @ + chunk, !.at = IF left = chunk THEN "sample" ELSE "prefill"]
      <3>1. /\ gen' \in GenRecord /\ gen'.at = (IF left = chunk THEN "sample" ELSE "prefill")
            /\ gen'.reason = "none" /\ gen'.result = "none" /\ gen'.pos = gen.pos + chunk
            /\ gen'.prompt = gen.prompt /\ gen'.out = gen.out /\ gen'.max = gen.max
        BY <1>1, <1>4, <1>5, <2>3 DEF GenRecord, GenStage
      <3>2. RoomOf(gen') BY <1>4, <1>5, <3>1, GenAssumption DEF RoomOf
      <3>3. VerdictOf(gen') BY <3>1 DEF VerdictOf
      <3> QED BY <3>1, <3>2, <3>3
    <2> QED BY <2>1, <2>2, <2>3 DEF DecodeChunk, left, chunk
  <1>7. SentInv' BY <1>1, <1>2, <1>6 DEF GenInv, SentInv
  <1>8. VerdictOf(gen)' BY <1>2, <1>6 DEF VerdictOf
  <1> QED BY <1>2, <1>6, <1>7, <1>8 DEF GenInv, BackendInv, llVars, RoomOf

\* A token is sampled: the limit leaves room for the position it is decoded at.
LEMMA SampleStep ==
  ASSUME GenInv, SampleToken
  PROVE  GenInv'
  <1>1. gen \in GenRecord /\ RoomOf(gen) /\ VerdictOf(gen) /\ gen.at = "sample"
    BY DEF GenInv, SampleToken
  <1>2. UNCHANGED <<llVars, genStop, genReader>> BY DEF SampleToken
  <1>3. /\ gen.prompt \in Nat /\ gen.pos \in Nat /\ gen.out \in Nat /\ gen.max \in Nat
        /\ gen.pos = gen.prompt + gen.out /\ gen.pos < GenContext /\ gen.out <= gen.max
        /\ gen.reason = "none" /\ gen.result = "none"
    BY <1>1 DEF GenRecord, RoomOf, VerdictOf
  <1>4. GenLimit \in Nat /\ GenLimit <= gen.max /\ gen.prompt + GenLimit <= GenContext
    BY <1>3, GenAssumption DEF GenLimit
  <1>5. /\ gen' \in GenRecord /\ RoomOf(gen') /\ VerdictOf(gen')
        /\ gen'.at \in {"finish", "sample"}
        /\ genSent' = genSent \/ \E token \in {"word", "eog"} : genSent' = Append(genSent, token)
    <2>1. CASE /\ UNCHANGED genSent
               /\ \E reason \in {"max", "cancelled"} : GenEnd(reason) /\ (reason = "cancelled" => Stopped)
      <3>1. PICK reason \in {"max", "cancelled"} : GenEnd(reason) /\ (reason = "cancelled" => Stopped)
        BY <2>1
      <3>2. /\ gen' \in GenRecord /\ gen'.at = "finish" /\ gen'.reason = reason /\ gen'.result = "none"
            /\ gen'.prompt = gen.prompt /\ gen'.out = gen.out /\ gen'.max = gen.max /\ gen'.pos = gen.pos
            /\ gen'.kind = gen.kind
        BY <1>1, <1>3, <3>1 DEF GenEnd, GenRecord, GenStage, GenReason
      <3>3. RoomOf(gen') BY <1>3, <3>2, GenAssumption DEF RoomOf
      <3>4. VerdictOf(gen') BY <3>1, <3>2 DEF VerdictOf, Stopped
      <3> QED BY <2>1, <3>2, <3>3, <3>4
    <2>2. CASE NativeFailure /\ UNCHANGED genSent
      <3>1. /\ gen' \in GenRecord /\ gen'.at = "finish" /\ gen'.reason = "none" /\ gen'.result = "Error"
            /\ gen'.prompt = gen.prompt /\ gen'.out = gen.out /\ gen'.max = gen.max /\ gen'.pos = gen.pos
        BY <1>1, <1>3, <2>2 DEF NativeFailure, GenRecord, GenStage, GenError
      <3>2. RoomOf(gen') BY <1>3, <3>1, GenAssumption DEF RoomOf
      <3>3. VerdictOf(gen') BY <3>1 DEF VerdictOf, GenError
      <3> QED BY <2>2, <3>1, <3>2, <3>3
    <2> DEFINE last == gen.out + 1 = GenLimit
               closed == gen.kind = "stream" /\ ~genReader
               Counted(token) == IF token = "eog" THEN gen.out ELSE gen.out + 1
               Ends(token) == token = "eog" \/ last \/ closed
               Reason(token) == IF token = "eog" THEN "stop" ELSE IF last THEN "max"
                                ELSE IF closed THEN "closed" ELSE gen.reason
               Pos(token) == IF Ends(token) THEN gen.pos ELSE gen.pos + 1
               At(token) == IF Ends(token) THEN "finish" ELSE "sample"
               Sampled(token) == [gen EXCEPT !.out = Counted(token), !.pos = Pos(token),
                                             !.at = At(token), !.reason = Reason(token)]
    <2>3. CASE /\ gen.out < GenLimit
               /\ \E token \in {"word", "eog"} :
                     /\ gen' = Sampled(token)
                     /\ genSent' = genSent \/ genSent' = Append(genSent, token)
      <3>1. PICK token \in {"word", "eog"} :
                     /\ gen' = Sampled(token)
                     /\ genSent' = genSent \/ genSent' = Append(genSent, token)
        BY <2>3
      <3>2. Counted(token) \in Nat /\ Counted(token) <= GenLimit /\ Counted(token) <= gen.out + 1
        BY <1>3, <1>4, <2>3
      <3>3. Reason(token) \in GenReason /\ Reason(token) # "cancelled"
        BY <1>3 DEF GenReason
      <3>4. Ends(token) => Reason(token) \in {"stop", "max", "closed"}
        OBVIOUS
      <3>5. ~Ends(token) => /\ Counted(token) = gen.out + 1 /\ Counted(token) < GenLimit
                            /\ Reason(token) = "none"
        BY <1>3, <1>4, <2>3
      <3> HIDE DEF Counted, Ends, Reason
      <3>a. Pos(token) \in Nat /\ At(token) \in GenStage BY <1>3 DEF GenStage
      <3> HIDE DEF Pos, At
      <3>6. /\ gen' \in GenRecord /\ gen'.at = At(token)
            /\ gen'.reason = Reason(token) /\ gen'.result = "none" /\ gen'.out = Counted(token)
            /\ gen'.prompt = gen.prompt /\ gen'.max = gen.max /\ gen'.pos = Pos(token)
        BY <1>1, <1>3, <3>1, <3>2, <3>3, <3>a DEF GenRecord
      <3>7. RoomOf(gen') BY <1>3, <1>4, <3>2, <3>5, <3>6, GenAssumption DEF RoomOf, Pos, At
      <3>8. VerdictOf(gen') BY <3>3, <3>4, <3>5, <3>6 DEF VerdictOf, At
      <3> QED BY <3>1, <3>6, <3>7, <3>8 DEF At
    <2> QED BY <2>1, <2>2, <2>3 DEF SampleToken
  <1>6. SentInv'
    <2>1. genSent' \in Seq({"word", "eog", "End"}) /\ \A i \in DOMAIN genSent' : genSent'[i] # "End"
      <3>1. genSent \in Seq({"word", "eog", "End"}) /\ \A i \in DOMAIN genSent : genSent[i] # "End"
        BY <1>1 DEF GenInv, SentInv
      <3>2. CASE genSent' = genSent BY <3>1, <3>2
      <3>3. CASE \E token \in {"word", "eog"} : genSent' = Append(genSent, token)
        <4>1. PICK token \in {"word", "eog"} : genSent' = Append(genSent, token) BY <3>3
        <4>2. token \in {"word", "eog", "End"} /\ token # "End" BY <4>1
        <4>3. /\ genSent' \in Seq({"word", "eog", "End"})
              /\ \A i \in DOMAIN genSent' : genSent'[i] = token \/ (i \in DOMAIN genSent /\ genSent'[i] = genSent[i])
          BY <3>1, <4>1, <4>2
        <4> QED BY <3>1, <4>2, <4>3
      <3> QED BY <1>5, <3>2, <3>3
    <2> QED BY <1>5, <2>1 DEF SentInv
  <1>7. VerdictOf(gen)' BY <1>2, <1>5 DEF VerdictOf
  <1> QED BY <1>2, <1>5, <1>6, <1>7 DEF GenInv, BackendInv, llVars, RoomOf

\* The result: Ok only without a stop and without an error.
LEMMA FinishStep ==
  ASSUME GenInv, FinishGeneration
  PROVE  GenInv'
  <1> DEFINE result == IF gen.kind = "stream" THEN StreamResult ELSE UnaryResult
  <1>1. gen \in GenRecord /\ RoomOf(gen) /\ VerdictOf(gen) /\ gen.at = "finish"
    BY DEF GenInv, FinishGeneration
  <1>2. UNCHANGED <<llVars, genStop, genReader>> /\ gen' = [gen EXCEPT !.at = "done", !.result = result]
    BY DEF FinishGeneration
  <1>3. gen.result \in GenError \/ (gen.result = "none" /\ gen.reason \in GenReason \ {"none"})
    BY <1>1 DEF VerdictOf, GenRecord
  <1>4. result \in GenError \union {"Ok"}
    BY <1>3 DEF StreamResult, UnaryResult, StopResult, GenError
  <1>5. result = "Ok" => gen.reason \in {"stop", "max", "closed"}
    <2> SUFFICES ASSUME result = "Ok" PROVE gen.reason \in {"stop", "max", "closed"} OBVIOUS
    <2>1. gen.result = "none" BY <1>3 DEF StreamResult, UnaryResult, StopResult, GenError
    <2>2. gen.reason \in GenReason \ {"none"} BY <1>3, <2>1 DEF GenError
    <2>3. gen.kind = "draft" \/ genStop = {} BY DEF StreamResult, UnaryResult, StopResult
    <2>4. gen.reason # "cancelled" BY <1>1, <2>3 DEF VerdictOf
    <2> QED BY <2>2, <2>4 DEF GenReason
  <1> HIDE DEF result
  <1>6. /\ gen' \in GenRecord /\ gen'.at = "done" /\ gen'.result = result
        /\ gen'.reason = gen.reason /\ gen'.out = gen.out /\ gen'.prompt = gen.prompt
        /\ gen'.max = gen.max /\ gen'.pos = gen.pos /\ gen'.kind = gen.kind
    BY <1>1, <1>2, <1>4 DEF GenRecord, GenStage
  <1>7. RoomOf(gen') BY <1>1, <1>6 DEF RoomOf
  <1>8. VerdictOf(gen)' BY <1>5, <1>6 DEF VerdictOf
  <1>9. SentInv'
    <2>1. genSent \in Seq({"word", "eog", "End"}) /\ \A i \in DOMAIN genSent : genSent[i] # "End"
      BY <1>1 DEF GenInv, SentInv
    <2>2. CASE gen.kind = "stream" /\ genReader
      <3>1. genSent' = Append(genSent, "End") BY <2>2 DEF FinishGeneration
      <3>2. /\ genSent' \in Seq({"word", "eog", "End"}) /\ Len(genSent') = Len(genSent) + 1
            /\ genSent'[Len(genSent) + 1] = "End" /\ genSent' # <<>>
            /\ \A i \in DOMAIN genSent' : i = Len(genSent) + 1 \/ (i \in DOMAIN genSent /\ genSent'[i] = genSent[i])
        BY <2>1, <3>1
      <3> QED BY <1>6, <2>1, <3>2 DEF SentInv
    <2>3. CASE ~(gen.kind = "stream" /\ genReader)
      <3>1. genSent' = genSent BY <2>3 DEF FinishGeneration
      <3> QED BY <1>2, <1>6, <2>1, <2>3, <3>1 DEF SentInv
    <2> QED BY <2>2, <2>3
  <1> QED BY <1>2, <1>6, <1>7, <1>8, <1>9 DEF GenInv, BackendInv, llVars, RoomOf

LEMMA GenStep == GenInv /\ [GenNext]_genVars => GenInv'
  <1> SUFFICES ASSUME GenInv, [GenNext]_genVars PROVE GenInv' OBVIOUS
  <1>1. CASE UnloadModel
    BY <1>1 DEF UnloadModel, llVars, GenInv, BackendInv, RoomOf, VerdictOf, SentInv
  <1>2. CASE NextGeneration
    <2>1. gen' = GenIdle /\ genSent' = <<>> /\ UNCHANGED llVars BY <1>2 DEF NextGeneration
    <2>2. VerdictOf(gen)' BY <2>1, IdleGeneration DEF VerdictOf
    <2>3. SentInv' BY <2>1, IdleGeneration DEF SentInv
    <2> QED BY <2>1, <2>2, <2>3, IdleGeneration DEF GenInv, BackendInv, llVars, RoomOf
  <1>3. CASE \E why \in {"cancelled", "expired"} : StopGeneration(why)
    <2>1. genStop' # {} /\ UNCHANGED <<llVars, genReader, gen, genSent>>
      BY <1>3 DEF StopGeneration
    <2> QED BY <2>1 DEF GenInv, BackendInv, llVars, RoomOf, VerdictOf, SentInv
  <1>4. CASE DropReader
    <2>1. gen.at # "done" /\ UNCHANGED <<llVars, genStop, gen, genSent>> BY <1>4 DEF DropReader
    <2> QED BY <2>1 DEF GenInv, BackendInv, llVars, RoomOf, VerdictOf, SentInv
  <1>5. CASE UNCHANGED genVars
    BY <1>5 DEF genVars, GenInv, BackendInv, RoomOf, VerdictOf, SentInv
  <1> QED
    BY <1>1, <1>2, <1>3, <1>4, <1>5, BackendStep, StartStep, ChunkStep, SampleStep, FinishStep DEF GenNext

\* For every size of context, batch, checkpoint and limit, and any number of racing
\* loads: a generation that reports success was not cut short, decodes no position
\* beyond its context and emits no more than it was asked for; a stream ends once;
\* and llama.cpp is initialised once (infer_controlled, run_stream_sync,
\* sample_loop, decode_range_checked, process_backend).
THEOREM GenerationCorrect == GenSpec => []GenerationHonest
  <1>1. GenInv => GenerationHonest
    <2> SUFFICES ASSUME GenInv PROVE GenerationHonest OBVIOUS
    <2>1. llInits <= 1 BY DEF GenInv, BackendInv
    <2>2. gen.pos < GenContext /\ gen.prompt + gen.out <= GenContext /\ gen.out <= gen.max
      BY DEF GenInv, RoomOf
    <2>3. gen.at = "done" /\ gen.result = "Ok" => gen.reason \in {"stop", "max", "closed"}
      BY DEF GenInv, VerdictOf
    <2>4. /\ \A i \in DOMAIN genSent : genSent[i] = "End" => i = Len(genSent) /\ gen.at = "done"
          /\ gen.at = "done" /\ gen.kind = "stream" /\ genReader => genSent[Len(genSent)] = "End"
      BY DEF GenInv, SentInv
    <2> QED BY <2>1, <2>2, <2>3, <2>4 DEF GenerationHonest
  <1> QED BY <1>1, GenInitial, GenStep, PTL DEF GenSpec
-----------------------------------------------------------------------------
(* The thread pool *)

JobStage == {"new", "look", "insert", "queued", "refused"}
ThreadStage == {"top", "own", "steal", "run", "wait", "dead", "exit"}
JobRecord == [at : JobStage, priority : Nat, seq : Nat, look : PoolWorkers, best : PoolWorkers, least : Nat]
ThreadRecord == [at : ThreadStage, job : PoolJobs \union {NoJob}, victim : PoolWorkers]

ThreadType ==
    /\ poolQueue \in [PoolWorkers -> Seq(PoolJobs)]
    /\ job \in [PoolJobs -> JobRecord]
    /\ thread \in [PoolWorkers -> ThreadRecord]
    /\ ran \in [PoolJobs -> 0 .. 1]
    /\ taskSequence \in Nat /\ poolSize \in Nat
    /\ \A w \in PoolWorkers : Len(poolQueue[w]) <= poolSize

\* Tasks that are under way or accepted have numbers of their own.
Numbered(j) == job[j].at \in {"look", "insert", "queued"}
NumbersInv ==
    /\ \A j \in PoolJobs : Numbered(j) => job[j].seq < taskSequence
    /\ \A j, k \in PoolJobs : j # k /\ Numbered(j) /\ Numbered(k) => job[j].seq # job[k].seq

OrderInv ==
    \A w \in PoolWorkers : \A i, k \in DOMAIN poolQueue[w] :
        i < k => RunsAfter(poolQueue[w][k], poolQueue[w][i])

\* A task that is neither in a hand nor has run.
Untouched(j) == job[j].at = "queued" /\ ran[j] = 0 /\ \A w \in PoolWorkers : thread[w].job # j

\* An accepted task is in one queue, in one hand or has run.
PlaceInv ==
    /\ \A w, v \in PoolWorkers : \A i \in DOMAIN poolQueue[w], k \in DOMAIN poolQueue[v] :
          poolQueue[w][i] = poolQueue[v][k] => w = v /\ i = k
    /\ \A w \in PoolWorkers : \A i \in DOMAIN poolQueue[w] : Untouched(poolQueue[w][i])
    /\ \A w, v \in PoolWorkers : thread[w].job = thread[v].job => thread[w].job = NoJob \/ w = v
    /\ \A w \in PoolWorkers :
          /\ thread[w].at = "run" <=> thread[w].job # NoJob
          /\ thread[w].job # NoJob => job[thread[w].job].at = "queued" /\ ran[thread[w].job] = 0
    /\ \A j \in PoolJobs : ran[j] = 1 => job[j].at = "queued"
    /\ \A j \in PoolJobs : job[j].at = "queued" =>
          \/ ran[j] = 1
          \/ \E w \in PoolWorkers : thread[w].job = j
          \/ \E w \in PoolWorkers : \E i \in DOMAIN poolQueue[w] : poolQueue[w][i] = j

ThreadInv == ThreadType /\ NumbersInv /\ OrderInv /\ PlaceInv

LEMMA ThreadTopTyped ==
  ASSUME NEW at \in ThreadStage
  PROVE  [ThreadTop EXCEPT !.at = at] \in ThreadRecord
  BY ThreadAssumption DEF ThreadTop, ThreadRecord, ThreadStage, PoolWorkers

LEMMA ThreadInitial == ThreadInit => ThreadInv
  <1> SUFFICES ASSUME ThreadInit PROVE ThreadInv OBVIOUS
  <1>1. JobNew \in JobRecord /\ JobNew.at = "new"
    <2>1. Cardinality(PoolJobs) + 1 \in Nat BY ThreadAssumption, FS_CardinalityType
    <2> QED BY <2>1, ThreadAssumption DEF JobNew, JobRecord, JobStage, PoolWorkers
  <1>2. ThreadTop \in ThreadRecord /\ ThreadTop.at = "top" /\ ThreadTop.job = NoJob
    BY ThreadAssumption DEF ThreadTop, ThreadRecord, ThreadStage, PoolWorkers
  <1>3. /\ \A w \in PoolWorkers : poolQueue[w] = <<>> /\ thread[w] = ThreadTop
        /\ \A j \in PoolJobs : job[j] = JobNew /\ ran[j] = 0
    BY DEF ThreadInit
  <1> HIDE DEF JobNew, ThreadTop
  <1>4. poolSize \in Nat BY ThreadAssumption DEF ThreadInit
  <1>5. ThreadType BY <1>1, <1>2, <1>3, <1>4 DEF ThreadInit, ThreadType
  <1>6. NumbersInv BY <1>1, <1>3 DEF NumbersInv, Numbered
  <1>7. OrderInv BY <1>3 DEF OrderInv
  <1>8. PlaceInv BY <1>1, <1>2, <1>3 DEF PlaceInv
  <1> QED BY <1>5, <1>6, <1>7, <1>8 DEF ThreadInv

\* A task that is not accepted moves on.
LEMMA JobMoves ==
  ASSUME ThreadInv, NEW j \in PoolJobs, job[j].at # "queued",
         NEW next \in JobRecord, next.at # "queued", job' = [job EXCEPT ![j] = next],
         UNCHANGED <<poolQueue, thread, ran, poolSize>>,
         taskSequence' \in Nat, taskSequence' >= taskSequence,
         next.at \in {"look", "insert"} =>
             \/ next.seq = taskSequence /\ taskSequence' = taskSequence + 1
             \/ next.seq = job[j].seq /\ Numbered(j)
  PROVE  ThreadInv'
  <1>1. \A k \in PoolJobs : job'[k] = IF k = j THEN next ELSE job[k] BY DEF ThreadInv, ThreadType
  <1>2. ThreadType' BY DEF ThreadInv, ThreadType
  <1>3. NumbersInv'
    <2>1. /\ taskSequence \in Nat /\ next.seq \in Nat /\ \A k \in PoolJobs : job[k].seq \in Nat
      BY DEF ThreadInv, ThreadType, JobRecord
    <2>2. \A k \in PoolJobs : k # j => (Numbered(k)' <=> Numbered(k)) /\ job'[k].seq = job[k].seq
      BY <1>1 DEF Numbered
    <2>3. Numbered(j)' => /\ job'[j].seq = next.seq
                          /\ \/ next.seq = taskSequence /\ taskSequence' = taskSequence + 1
                             \/ next.seq = job[j].seq /\ Numbered(j)
      BY <1>1 DEF Numbered
    <2>4. ASSUME NEW k \in PoolJobs, Numbered(k)' PROVE job'[k].seq < taskSequence'
      BY <2>1, <2>2, <2>3, <2>4 DEF ThreadInv, NumbersInv
    <2>5. ASSUME NEW k \in PoolJobs, NEW l \in PoolJobs, k # l, Numbered(k)', Numbered(l)'
          PROVE  job'[k].seq # job'[l].seq
      <3>1. CASE k = j BY <2>1, <2>2, <2>3, <2>5, <3>1 DEF ThreadInv, NumbersInv
      <3>2. CASE l = j BY <2>1, <2>2, <2>3, <2>5, <3>2 DEF ThreadInv, NumbersInv
      <3>3. CASE k # j /\ l # j BY <2>2, <2>5, <3>3 DEF ThreadInv, NumbersInv
      <3> QED BY <3>1, <3>2, <3>3
    <2> QED BY <2>4, <2>5 DEF NumbersInv
  <1>4. \A w \in PoolWorkers : \A i \in DOMAIN poolQueue[w] :
           poolQueue[w][i] \in PoolJobs /\ poolQueue[w][i] # j
    BY DEF ThreadInv, ThreadType, PlaceInv, Untouched
  <1>5. OrderInv' BY <1>1, <1>4 DEF ThreadInv, OrderInv, RunsAfter
  <1>6. PlaceInv'
    <2>1. \A k \in PoolJobs : job'[k].at = "queued" <=> job[k].at = "queued" BY <1>1
    <2>2. \A w \in PoolWorkers : thread[w].job # NoJob => thread[w].job \in PoolJobs
      BY DEF ThreadInv, ThreadType, ThreadRecord
    <2> QED BY <1>4, <2>1, <2>2 DEF ThreadInv, PlaceInv, Untouched
  <1> QED BY <1>2, <1>3, <1>5, <1>6 DEF ThreadInv

\* A worker without a task moves on.
LEMMA ThreadMoves ==
  ASSUME ThreadInv, NEW w \in PoolWorkers, thread[w].job = NoJob,
         NEW next \in ThreadRecord, next.job = NoJob, next.at # "run",
         thread' = [thread EXCEPT ![w] = next],
         UNCHANGED <<poolQueue, job, ran, poolSize, taskSequence>>
  PROVE  ThreadInv'
  <1>1. \A v \in PoolWorkers : thread'[v] = IF v = w THEN next ELSE thread[v] BY DEF ThreadInv, ThreadType
  <1>2. ThreadType' BY DEF ThreadInv, ThreadType
  <1>3. NumbersInv' /\ OrderInv' BY DEF ThreadInv, NumbersInv, Numbered, OrderInv, RunsAfter
  <1>4. \A v \in PoolWorkers : thread'[v].job = thread[v].job /\ (thread'[v].at = "run" <=> thread[v].at = "run")
    BY <1>1 DEF ThreadInv, PlaceInv
  <1>5. PlaceInv' BY <1>4 DEF ThreadInv, PlaceInv, Untouched
  <1> QED BY <1>2, <1>3, <1>5 DEF ThreadInv

\* Where a task goes: everything before it runs before it, what is there runs after.
LEMMA PositionOf ==
  ASSUME NEW q \in Seq(PoolJobs), NEW j
  PROVE  LET p == InsertPosition(q, j)
         IN  /\ p \in 1 .. Len(q) + 1
             /\ \A i \in 1 .. p - 1 : ~RunsAfter(q[i], j)
             /\ p <= Len(q) => RunsAfter(q[p], j)
  <1> DEFINE after == {i \in DOMAIN q : RunsAfter(q[i], j)}
             p == InsertPosition(q, j)
  <1>1. DOMAIN q = 1 .. Len(q) /\ Len(q) \in Nat /\ after \in SUBSET Nat OBVIOUS
  <1>2. p = IF after = {} THEN Len(q) + 1 ELSE CHOOSE i \in after : \A k \in after : i <= k
    BY DEF InsertPosition
  <1>3. CASE after = {}
    <2>1. p = Len(q) + 1 BY <1>2, <1>3
    <2> QED BY <1>1, <1>3, <2>1
  <1>4. CASE after # {}
    <2>1. p \in after /\ \A k \in after : p <= k
      <3> HIDE DEF after, p
      <3> QED BY <1>1, <1>2, <1>4, FirstOfNumbers
    <2>2. p \in 1 .. Len(q) /\ RunsAfter(q[p], j) BY <1>1, <2>1
    <2>3. \A i \in 1 .. p - 1 : i \in DOMAIN q /\ i \notin after
      <3> HIDE DEF p, after
      <3> QED BY <1>1, <2>1, <2>2
    <2> HIDE DEF p
    <2> QED BY <1>1, <2>2, <2>3 DEF p
  <1> QED BY <1>3, <1>4

LEMMA InsertedAt ==
  ASSUME NEW q \in Seq(PoolJobs), NEW j \in PoolJobs, NEW p \in 1 .. Len(q) + 1
  PROVE  LET r == InsertAt(q, p, j)
         IN  /\ r \in Seq(PoolJobs) /\ Len(r) = Len(q) + 1 /\ r[p] = j
             /\ \A i \in 1 .. p - 1 : r[i] = q[i]
             /\ \A i \in p + 1 .. Len(q) + 1 : r[i] = q[i - 1]
  <1> DEFINE a == SubSeq(q, 1, p - 1)
             b == SubSeq(q, p, Len(q))
  <1>1. a \in Seq(PoolJobs) /\ Len(a) = p - 1 /\ \A i \in 1 .. p - 1 : a[i] = q[i] OBVIOUS
  <1>2. b \in Seq(PoolJobs) /\ Len(b) = Len(q) - p + 1 /\ \A i \in 1 .. Len(q) - p + 1 : b[i] = q[p + i - 1] OBVIOUS
  <1>3. InsertAt(q, p, j) = (a \o <<j>>) \o b BY DEF InsertAt
  <1> HIDE DEF a, b
  <1> DEFINE c == a \o <<j>>
  <1>4. c \in Seq(PoolJobs) /\ Len(c) = p /\ c[p] = j /\ \A i \in 1 .. p - 1 : c[i] = a[i] BY <1>1
  <1> HIDE DEF c
  <1>5. /\ c \o b \in Seq(PoolJobs) /\ Len(c \o b) = Len(q) + 1
        /\ \A i \in 1 .. p : (c \o b)[i] = c[i]
        /\ \A i \in p + 1 .. Len(q) + 1 : (c \o b)[i] = b[i - p]
    <2>0. c \in Seq(PoolJobs) /\ b \in Seq(PoolJobs) BY <1>2, <1>4
    <2>1. c \o b \in Seq(PoolJobs) /\ Len(c \o b) = Len(c) + Len(b) BY <2>0
    <2>2. \A i \in 1 .. Len(c) + Len(b) : (c \o b)[i] = IF i <= Len(c) THEN c[i] ELSE b[i - Len(c)]
      BY <1>2, <1>4, SMTT(30)
    <2>3. Len(c) + Len(b) = Len(q) + 1 /\ Len(c) = p BY <1>2, <1>4
    <2> QED BY <2>1, <2>2, <2>3
  <1>6. \A i \in p + 1 .. Len(q) + 1 : b[i - p] = q[i - 1]
    <2> TAKE i \in p + 1 .. Len(q) + 1
    <2>1. i - p \in 1 .. Len(q) - p + 1 /\ p + (i - p) - 1 = i - 1 OBVIOUS
    <2> QED BY <1>2, <2>1
  <1>7. InsertAt(q, p, j) = c \o b BY <1>3 DEF c
  <1>8. c \o b \in Seq(PoolJobs) /\ Len(c \o b) = Len(q) + 1 /\ (c \o b)[p] = j BY <1>4, <1>5
  <1>9. ASSUME NEW i \in 1 .. p - 1 PROVE (c \o b)[i] = q[i]
    <2>1. i \in 1 .. p OBVIOUS
    <2> QED BY <1>1, <1>4, <1>5, <2>1
  <1>10. ASSUME NEW i \in p + 1 .. Len(q) + 1 PROVE (c \o b)[i] = q[i - 1] BY <1>5, <1>6
  <1> QED BY <1>7, <1>8, <1>9, <1>10

LEMMA RunsAfterOrder ==
  ASSUME ThreadType, NEW a \in PoolJobs, NEW b \in PoolJobs, NEW c \in PoolJobs
  PROVE  /\ RunsAfter(c, b) /\ RunsAfter(b, a) => RunsAfter(c, a)
         /\ job[a].seq # job[b].seq => RunsAfter(a, b) \/ RunsAfter(b, a)
  <1>1. \A x \in PoolJobs : job[x].priority \in Nat /\ job[x].seq \in Nat BY DEF ThreadType, JobRecord
  <1> QED BY <1>1 DEF RunsAfter

\* submit_with_priority inserts the task.
LEMMA InsertStep ==
  ASSUME ThreadInv, NEW j \in PoolJobs, NEW w \in PoolWorkers, job[j].at = "insert",
         Len(poolQueue[w]) < poolSize,
         poolQueue' = [poolQueue EXCEPT ![w] = InsertAt(poolQueue[w], InsertPosition(poolQueue[w], j), j)],
         JobTo(j, "queued"), UNCHANGED <<thread, ran, poolSize, taskSequence>>
  PROVE  ThreadInv'
  <1> DEFINE q == poolQueue[w]
             p == InsertPosition(q, j)
             r == InsertAt(q, p, j)
             next == [job[j] EXCEPT !.at = "queued"]
  <1>1. /\ q \in Seq(PoolJobs) /\ Len(q) \in Nat /\ DOMAIN q = 1 .. Len(q) /\ poolSize \in Nat /\ Len(q) < poolSize
        /\ \A i \in DOMAIN q : q[i] \in PoolJobs
    BY DEF ThreadInv, ThreadType
  <1>2. /\ p \in 1 .. Len(q) + 1 /\ \A i \in 1 .. p - 1 : ~RunsAfter(q[i], j)
        /\ p <= Len(q) => RunsAfter(q[p], j)
    BY <1>1, PositionOf
  <1> HIDE DEF p
  <1>3. /\ r \in Seq(PoolJobs) /\ Len(r) = Len(q) + 1 /\ r[p] = j
        /\ \A i \in 1 .. p - 1 : r[i] = q[i]
        /\ \A i \in p + 1 .. Len(q) + 1 : r[i] = q[i - 1]
    BY <1>1, <1>2, InsertedAt, SMTT(60)
  <1>4. \A v \in PoolWorkers : poolQueue'[v] = IF v = w THEN r ELSE poolQueue[v]
    BY DEF ThreadInv, ThreadType, p
  <1>5. /\ next \in JobRecord /\ next.at = "queued" /\ next.seq = job[j].seq /\ next.priority = job[j].priority
        /\ \A k \in PoolJobs : job'[k] = IF k = j THEN next ELSE job[k]
        /\ job' = [job EXCEPT ![j] = next]
    BY DEF ThreadInv, ThreadType, JobRecord, JobStage, JobTo
  <1> HIDE DEF r, next
  <1>6. \A k, l \in PoolJobs : RunsAfter(k, l)' <=> RunsAfter(k, l) BY <1>5 DEF RunsAfter
  <1>7. \A v \in PoolWorkers : \A i \in DOMAIN poolQueue[v] :
           poolQueue[v][i] \in PoolJobs /\ poolQueue[v][i] # j /\ Untouched(poolQueue[v][i])
    BY DEF ThreadInv, ThreadType, PlaceInv, Untouched
  <1>8. DOMAIN r = 1 .. Len(q) + 1 BY <1>3
  <1>9. \A i \in DOMAIN r : i = p \/ (i < p /\ i \in DOMAIN q /\ r[i] = q[i])
                                  \/ (i > p /\ i - 1 \in DOMAIN q /\ r[i] = q[i - 1])
    <2> HIDE DEF q
    <2> TAKE i \in DOMAIN r
    <2>1. i \in 1 .. Len(q) + 1 BY <1>8
    <2>2. CASE i < p
      <3>1. i \in 1 .. p - 1 /\ i \in 1 .. Len(q) BY <1>1, <1>2, <2>1, <2>2
      <3> QED BY <1>1, <1>3, <2>2, <3>1
    <2>3. CASE i > p
      <3>1. i \in p + 1 .. Len(q) + 1 /\ i - 1 \in 1 .. Len(q) BY <1>1, <1>2, <2>1, <2>3
      <3> QED BY <1>1, <1>3, <2>3, <3>1
    <2>4. i = p \/ i < p \/ i > p BY <1>1, <1>2, <2>1
    <2> QED BY <2>2, <2>3, <2>4
  <1>10. ThreadType'
    <2>1. job' \in [PoolJobs -> JobRecord] BY <1>5 DEF ThreadInv, ThreadType
    <2>2. poolQueue' \in [PoolWorkers -> Seq(PoolJobs)] BY <1>3 DEF ThreadInv, ThreadType, r, p
    <2>3. \A v \in PoolWorkers : Len(poolQueue'[v]) <= poolSize'
      <3>1. Len(r) <= poolSize BY <1>1, <1>3
      <3> QED BY <1>4, <3>1 DEF ThreadInv, ThreadType
    <2> QED BY <2>1, <2>2, <2>3 DEF ThreadInv, ThreadType
  <1>11. NumbersInv'
    <2>1. \A k \in PoolJobs : (Numbered(k)' <=> Numbered(k)) /\ job'[k].seq = job[k].seq
      BY <1>5 DEF Numbered
    <2> QED BY <2>1 DEF ThreadInv, NumbersInv
  <1>12. ASSUME NEW i \in DOMAIN r, NEW k \in DOMAIN r, i < k PROVE RunsAfter(r[k], r[i])
    <2>1. \A a, b \in DOMAIN q : a < b => RunsAfter(q[b], q[a]) BY DEF ThreadInv, OrderInv
    <2>2. \A a \in DOMAIN q : job[q[a]].seq # job[j].seq
      BY <1>7 DEF ThreadInv, NumbersInv, Numbered, Untouched
    <2>3. CASE k = p
      <3>1. i \in DOMAIN q /\ r[i] = q[i] /\ i \in 1 .. p - 1 BY <1>1, <1>2, <1>8, <1>9, <1>12, <2>3
      <3>2. ~RunsAfter(q[i], j) BY <1>2, <3>1
      <3>3. RunsAfter(j, q[i]) BY <1>1, <2>2, <3>1, <3>2, RunsAfterOrder DEF ThreadInv
      <3> QED BY <1>3, <2>3, <3>1, <3>3
    <2>4. CASE i = p
      <3>1. k - 1 \in DOMAIN q /\ r[k] = q[k - 1] /\ p <= k - 1 /\ p <= Len(q) /\ p \in DOMAIN q
        BY <1>1, <1>2, <1>8, <1>9, <1>12, <2>4
      <3>2. RunsAfter(q[p], j) BY <1>2, <3>1
      <3>3. p = k - 1 \/ RunsAfter(q[k - 1], q[p]) BY <1>1, <2>1, <3>1
      <3>4. RunsAfter(q[k - 1], j) BY <1>1, <3>1, <3>2, <3>3, RunsAfterOrder DEF ThreadInv
      <3> QED BY <1>3, <2>4, <3>1, <3>4
    <2>5. CASE i # p /\ k # p
      <3> DEFINE Old(n) == IF n < p THEN n ELSE n - 1
      <3>0. \A n \in DOMAIN r : n # p => Old(n) \in DOMAIN q /\ r[n] = q[Old(n)]
        BY <1>1, <1>2, <1>8, <1>9
      <3>1. PICK a \in DOMAIN q : r[i] = q[a] /\ a = Old(i) BY <2>5, <3>0
      <3>2. PICK b \in DOMAIN q : r[k] = q[b] /\ b = Old(k) BY <2>5, <3>0
      <3>3. a < b BY <1>1, <1>2, <1>8, <1>12, <2>5, <3>1, <3>2
      <3> QED BY <2>1, <3>1, <3>2, <3>3
    <2> QED BY <2>3, <2>4, <2>5
  <1>13. OrderInv'
    <2> DEFINE AfterNow(a, b) == job'[a].priority < job'[b].priority \/
                                 (job'[a].priority = job'[b].priority /\ job'[a].seq > job'[b].seq)
    <2>1. \A a, b \in PoolJobs : RunsAfter(a, b) => AfterNow(a, b) BY <1>5 DEF RunsAfter
    <2>2. ASSUME NEW v \in PoolWorkers, NEW i \in DOMAIN poolQueue'[v], NEW k \in DOMAIN poolQueue'[v], i < k
          PROVE  AfterNow(poolQueue'[v][k], poolQueue'[v][i])
      <3>1. poolQueue'[v][k] \in PoolJobs /\ poolQueue'[v][i] \in PoolJobs BY <1>10, <2>2 DEF ThreadType
      <3>2. RunsAfter(poolQueue'[v][k], poolQueue'[v][i])
        <4>1. CASE v = w BY <1>4, <1>12, <2>2, <4>1
        <4>2. CASE v # w BY <1>4, <2>2, <4>2 DEF ThreadInv, OrderInv
        <4> QED BY <4>1, <4>2
      <3> HIDE DEF AfterNow
      <3> QED BY <2>1, <3>1, <3>2
    <2> QED BY <2>2 DEF OrderInv, RunsAfter
  <1>14. PlaceInv'
    <2>1. /\ ran[j] = 0 /\ \A v \in PoolWorkers : thread[v].job # j
      <3>1. ran[j] \in 0 .. 1 BY DEF ThreadInv, ThreadType
      <3>2. ran[j] # 1 BY DEF ThreadInv, PlaceInv
      <3>3. \A v \in PoolWorkers : thread[v].job # j BY ThreadAssumption DEF ThreadInv, PlaceInv
      <3> QED BY <3>1, <3>2, <3>3
    <2>2. \A k \in PoolJobs : job'[k].at = "queued" <=> k = j \/ job[k].at = "queued" BY <1>5
    <2>3. ASSUME NEW v \in PoolWorkers, NEW i \in DOMAIN poolQueue'[v]
          PROVE  \/ v = w /\ i = p /\ poolQueue'[v][i] = j
                 \/ \E a \in DOMAIN poolQueue[v] : /\ poolQueue'[v][i] = poolQueue[v][a]
                                                   /\ a = IF v = w /\ i > p THEN i - 1 ELSE i
                                                   /\ v = w => i # p
      <3>1. CASE v # w BY <1>4, <2>3, <3>1
      <3>2. CASE v = w /\ i = p BY <1>3, <1>4, <3>2
      <3>3. CASE v = w /\ i # p
        <4>1. poolQueue'[v] = r /\ i \in DOMAIN r BY <1>4, <2>3, <3>3
        <4>2. \/ i < p /\ i \in DOMAIN q /\ r[i] = q[i]
              \/ i > p /\ i - 1 \in DOMAIN q /\ r[i] = q[i - 1]
          BY <1>9, <3>3, <4>1
        <4>3. i \in Nat /\ p \in Nat BY <1>1, <1>2, <1>8, <4>1
        <4> QED BY <3>3, <4>1, <4>2, <4>3
      <3> QED BY <3>1, <3>2, <3>3
    <2>4. ASSUME NEW v \in PoolWorkers, NEW a \in DOMAIN poolQueue[v]
          PROVE  \E i \in DOMAIN poolQueue'[v] : poolQueue'[v][i] = poolQueue[v][a]
      <3>1. CASE v # w BY <1>4, <2>4, <3>1
      <3>2. CASE v = w /\ a < p
        <4>1. a \in DOMAIN r /\ r[a] = q[a] BY <1>1, <1>2, <1>3, <1>8, <2>4, <3>2
        <4> QED BY <1>4, <3>2, <4>1
      <3>3. CASE v = w /\ ~(a < p)
        <4> DEFINE n == a + 1
        <4>0. a \in Nat /\ p \in Nat /\ Len(q) \in Nat /\ p <= a /\ a <= Len(q) BY <1>1, <1>2, <2>4, <3>3
        <4>1. n \in p + 1 .. Len(q) + 1 /\ n - 1 = a /\ n \in DOMAIN r BY <1>8, <4>0
        <4> HIDE DEF n
        <4>2. r[n] = q[n - 1] BY <1>3, <4>1
        <4>3. r[n] = q[a] BY <4>1, <4>2
        <4> QED BY <1>4, <3>3, <4>1, <4>3
      <3> QED BY <3>1, <3>2, <3>3
    <2>5. j \in PoolJobs /\ p \in DOMAIN poolQueue'[w] /\ poolQueue'[w][p] = j BY <1>2, <1>3, <1>4, <1>8
    <2>6. ASSUME NEW v \in PoolWorkers, NEW u \in PoolWorkers,
                 NEW i \in DOMAIN poolQueue'[v], NEW k \in DOMAIN poolQueue'[u],
                 poolQueue'[v][i] = poolQueue'[u][k]
          PROVE  v = u /\ i = k
      <3>1. \A x, y \in PoolWorkers : \A a \in DOMAIN poolQueue[x], b \in DOMAIN poolQueue[y] :
               poolQueue[x][a] = poolQueue[y][b] => x = y /\ a = b
        BY DEF ThreadInv, PlaceInv
      <3>2. CASE poolQueue'[v][i] = j BY <1>7, <2>3, <2>6, <3>2
      <3>3. CASE poolQueue'[v][i] # j
        <4>1. PICK a \in DOMAIN poolQueue[v] : /\ poolQueue'[v][i] = poolQueue[v][a]
                                               /\ a = IF v = w /\ i > p THEN i - 1 ELSE i
                                               /\ v = w => i # p
          BY <2>3, <3>3
        <4>2. PICK b \in DOMAIN poolQueue[u] : /\ poolQueue'[u][k] = poolQueue[u][b]
                                               /\ b = IF u = w /\ k > p THEN k - 1 ELSE k
                                               /\ u = w => k # p
          BY <2>3, <2>6, <3>3
        <4>3. v = u /\ a = b BY <2>6, <3>1, <4>1, <4>2
        <4>4. i \in Nat /\ k \in Nat /\ p \in Nat BY <1>2, <1>1, <1>10, SMTT(30) DEF ThreadType
        <4> QED BY <4>1, <4>2, <4>3, <4>4
      <3> QED BY <3>2, <3>3
    <2>7. ASSUME NEW v \in PoolWorkers, NEW i \in DOMAIN poolQueue'[v]
          PROVE  /\ job'[poolQueue'[v][i]].at = "queued" /\ ran[poolQueue'[v][i]] = 0
                 /\ \A u \in PoolWorkers : thread[u].job # poolQueue'[v][i]
      <3>1. CASE poolQueue'[v][i] = j BY <2>1, <2>2, <3>1
      <3>2. CASE \E a \in DOMAIN poolQueue[v] : poolQueue'[v][i] = poolQueue[v][a]
        BY <1>7, <2>2, <3>2 DEF Untouched
      <3> QED BY <2>3, <3>1, <3>2
    <2>8. \A k \in PoolJobs : job'[k].at = "queued" =>
             \/ ran[k] = 1
             \/ \E v \in PoolWorkers : thread[v].job = k
             \/ \E v \in PoolWorkers : \E i \in DOMAIN poolQueue'[v] : poolQueue'[v][i] = k
      <3> TAKE k \in PoolJobs
      <3>1. CASE k = j BY <2>5, <3>1
      <3>2. CASE k # j /\ job[k].at = "queued" BY <2>4, <3>2 DEF ThreadInv, PlaceInv
      <3> QED BY <2>2, <3>1, <3>2
    <2>9. \A v \in PoolWorkers : thread[v].job # NoJob => job'[thread[v].job].at = "queued"
      <3> TAKE v \in PoolWorkers
      <3>1. thread[v].job \in PoolJobs \union {NoJob} BY DEF ThreadInv, ThreadType, ThreadRecord
      <3>2. thread[v].job # NoJob => job[thread[v].job].at = "queued" BY DEF ThreadInv, PlaceInv
      <3> QED BY <2>2, <3>1, <3>2
    <2> QED BY <2>2, <2>6, <2>7, <2>8, <2>9 DEF ThreadInv, PlaceInv, Untouched
  <1> QED BY <1>10, <1>11, <1>13, <1>14 DEF ThreadInv

\* A task leaves the front (d = 1) or the back (d = 0) of the queue of v for the
\* hands of w.
LEMMA TakeStep ==
  ASSUME ThreadInv, NEW w \in PoolWorkers, NEW v \in PoolWorkers, thread[w].job = NoJob,
         NEW d \in 0 .. 1, NEW rest \in Seq(PoolJobs), poolQueue[v] # <<>>,
         Len(rest) = Len(poolQueue[v]) - 1, \A i \in 1 .. Len(rest) : rest[i] = poolQueue[v][i + d],
         TakesJob(w, poolQueue[v][IF d = 1 THEN 1 ELSE Len(poolQueue[v])]),
         poolQueue' = [poolQueue EXCEPT ![v] = rest],
         UNCHANGED <<job, ran, poolSize, taskSequence>>
  PROVE  ThreadInv'
  <1> DEFINE q == poolQueue[v]
             gone == IF d = 1 THEN 1 ELSE Len(q)
             j == q[gone]
             next == [ThreadTop EXCEPT !.at = "run", !.job = j]
  <1>1. /\ q \in Seq(PoolJobs) /\ Len(q) \in Nat \ {0} /\ DOMAIN q = 1 .. Len(q)
        /\ DOMAIN rest = 1 .. Len(rest) /\ Len(rest) = Len(q) - 1 /\ gone \in DOMAIN q
        /\ poolSize \in Nat /\ Len(q) <= poolSize
    BY DEF ThreadInv, ThreadType
  <1>2. j \in PoolJobs /\ Untouched(j) BY <1>1 DEF ThreadInv, PlaceInv
  <1>3. \A u \in PoolWorkers : poolQueue'[u] = IF u = v THEN rest ELSE poolQueue[u]
    BY DEF ThreadInv, ThreadType
  <1>4. /\ next \in ThreadRecord /\ next.at = "run" /\ next.job = j
        /\ \A u \in PoolWorkers : thread'[u] = IF u = w THEN next ELSE thread[u]
        /\ thread' \in [PoolWorkers -> ThreadRecord]
    <2>1. next \in ThreadRecord /\ next.at = "run" /\ next.job = j
      <3> HIDE DEF j
      <3>1. ThreadTop \in ThreadRecord
        BY ThreadAssumption DEF ThreadTop, ThreadRecord, ThreadStage, PoolWorkers
      <3>2. j \in PoolJobs \union {NoJob} BY <1>2
      <3> QED BY <3>1, <3>2 DEF ThreadRecord, ThreadStage
    <2>2. thread' = [thread EXCEPT ![w] = next] BY DEF TakesJob
    <2> HIDE DEF next
    <2> QED BY <2>1, <2>2 DEF ThreadInv, ThreadType
  <1> HIDE DEF next
  <1>5. ASSUME NEW u \in PoolWorkers, NEW i \in DOMAIN poolQueue'[u]
        PROVE  LET a == IF u = v THEN i + d ELSE i
               IN  /\ a \in DOMAIN poolQueue[u] /\ poolQueue'[u][i] = poolQueue[u][a]
                   /\ u = v => a # gone
    <2>1. CASE u # v BY <1>3, <1>5, <2>1
    <2>2. CASE u = v
      <3>1. i \in 1 .. Len(rest) /\ poolQueue'[u][i] = rest[i] BY <1>1, <1>3, <1>5, <2>2
      <3>2. i + d \in DOMAIN q /\ i + d # gone BY <1>1, <3>1
      <3> QED BY <2>2, <3>1, <3>2
    <2> QED BY <2>1, <2>2
  <1>6. ASSUME NEW u \in PoolWorkers, NEW a \in DOMAIN poolQueue[u], poolQueue[u][a] # j
        PROVE  \E i \in DOMAIN poolQueue'[u] : poolQueue'[u][i] = poolQueue[u][a]
    <2>1. CASE u # v BY <1>3, <1>6, <2>1
    <2>2. CASE u = v
      <3>1. a \in 1 .. Len(q) /\ a # gone BY <1>1, <1>6, <2>2
      <3>2. a - d \in 1 .. Len(rest) /\ (a - d) + d = a BY <1>1, <3>1
      <3>3. rest[a - d] = q[a] BY <3>2
      <3> QED BY <1>1, <1>3, <2>2, <3>2, <3>3
    <2> QED BY <2>1, <2>2
  <1> HIDE DEF j
  <1>7. ThreadType'
    <2>1. poolQueue' \in [PoolWorkers -> Seq(PoolJobs)] BY DEF ThreadInv, ThreadType
    <2>2. \A u \in PoolWorkers : Len(poolQueue'[u]) <= poolSize
      <3>1. Len(rest) <= poolSize BY <1>1
      <3> QED BY <1>3, <3>1 DEF ThreadInv, ThreadType
    <2> QED BY <1>4, <2>1, <2>2 DEF ThreadInv, ThreadType
  <1>8. NumbersInv' BY DEF ThreadInv, NumbersInv, Numbered
  <1>9. OrderInv'
    <2>1. ASSUME NEW u \in PoolWorkers, NEW i \in DOMAIN poolQueue'[u], NEW k \in DOMAIN poolQueue'[u], i < k
          PROVE  RunsAfter(poolQueue'[u][k], poolQueue'[u][i])
      <3> DEFINE At(n) == IF u = v THEN n + d ELSE n
      <3>1. /\ At(i) \in DOMAIN poolQueue[u] /\ poolQueue'[u][i] = poolQueue[u][At(i)]
            /\ At(k) \in DOMAIN poolQueue[u] /\ poolQueue'[u][k] = poolQueue[u][At(k)]
        BY <1>5
      <3>2. i \in Nat /\ k \in Nat BY <1>7 DEF ThreadType
      <3>3. At(i) < At(k) BY <2>1, <3>2
      <3> HIDE DEF At
      <3> QED BY <3>1, <3>3 DEF ThreadInv, OrderInv
    <2> QED BY <2>1 DEF OrderInv, RunsAfter
  <1>10. PlaceInv'
    <2>1. ASSUME NEW u \in PoolWorkers, NEW x \in PoolWorkers,
                 NEW i \in DOMAIN poolQueue'[u], NEW k \in DOMAIN poolQueue'[x],
                 poolQueue'[u][i] = poolQueue'[x][k]
          PROVE  u = x /\ i = k
      <3> DEFINE At(y, n) == IF y = v THEN n + d ELSE n
      <3>1. /\ At(u, i) \in DOMAIN poolQueue[u] /\ poolQueue'[u][i] = poolQueue[u][At(u, i)]
            /\ At(x, k) \in DOMAIN poolQueue[x] /\ poolQueue'[x][k] = poolQueue[x][At(x, k)]
        BY <1>5
      <3>2. u = x /\ At(u, i) = At(x, k)
        <4> HIDE DEF At
        <4> QED BY <2>1, <3>1 DEF ThreadInv, PlaceInv
      <3>3. i \in Nat /\ k \in Nat BY <1>7 DEF ThreadType
      <3> QED BY <3>2, <3>3
    <2>2. ASSUME NEW u \in PoolWorkers, NEW i \in DOMAIN poolQueue'[u]
          PROVE  /\ job[poolQueue'[u][i]].at = "queued" /\ ran[poolQueue'[u][i]] = 0
                 /\ \A x \in PoolWorkers : thread'[x].job # poolQueue'[u][i]
      <3>1. PICK a \in DOMAIN poolQueue[u] : poolQueue'[u][i] = poolQueue[u][a] /\ (u = v => a # gone)
        BY <1>5
      <3>2. Untouched(poolQueue[u][a]) BY DEF ThreadInv, PlaceInv
      <3>3. poolQueue[u][a] # j BY <1>1, <3>1 DEF ThreadInv, PlaceInv, j
      <3> QED BY <1>4, <3>1, <3>2, <3>3 DEF Untouched
    <2>3. \A u \in PoolWorkers : u # w => thread[u].job # j BY <1>2 DEF Untouched
    <2>4. \A u, x \in PoolWorkers : thread'[u].job = thread'[x].job => thread'[u].job = NoJob \/ u = x
      BY <1>4, <2>3 DEF ThreadInv, PlaceInv
    <2>5. j # NoJob BY <1>2, ThreadAssumption
    <2>6. \A u \in PoolWorkers :
             /\ thread'[u].at = "run" <=> thread'[u].job # NoJob
             /\ thread'[u].job # NoJob => job[thread'[u].job].at = "queued" /\ ran[thread'[u].job] = 0
      BY <1>2, <1>4, <2>5 DEF ThreadInv, PlaceInv, Untouched
    <2>7. ASSUME NEW k \in PoolJobs, job[k].at = "queued"
          PROVE  \/ ran[k] = 1
                 \/ \E u \in PoolWorkers : thread'[u].job = k
                 \/ \E u \in PoolWorkers : \E i \in DOMAIN poolQueue'[u] : poolQueue'[u][i] = k
      <3>1. CASE k = j BY <1>4, <3>1
      <3>2. CASE \E u \in PoolWorkers : thread[u].job = k
        <4>1. PICK u \in PoolWorkers : thread[u].job = k BY <3>2
        <4>2. u # w BY <4>1, ThreadAssumption
        <4> QED BY <1>4, <4>1, <4>2
      <3>3. CASE k # j /\ \E u \in PoolWorkers : \E a \in DOMAIN poolQueue[u] : poolQueue[u][a] = k
        BY <1>6, <3>3
      <3> QED BY <2>7, <3>1, <3>2, <3>3 DEF ThreadInv, PlaceInv
    <2> QED BY <2>1, <2>2, <2>4, <2>6, <2>7, SMTT(30) DEF ThreadInv, PlaceInv, Untouched
  <1> QED BY <1>7, <1>8, <1>9, <1>10 DEF ThreadInv

LEMMA RunStep ==
  ASSUME ThreadInv, NEW w \in PoolWorkers, RunJob(w)
  PROVE  ThreadInv'
  <1> DEFINE j == thread[w].job
  <1>1. /\ j \in PoolJobs /\ job[j].at = "queued" /\ ran[j] = 0
        /\ \A v \in PoolWorkers : v # w => thread[v].job # j
    <2>1. thread[w].job \in PoolJobs \union {NoJob} BY DEF ThreadInv, ThreadType, ThreadRecord
    <2>2. thread[w].job # NoJob BY DEF RunJob, ThreadInv, PlaceInv
    <2> QED BY <2>1, <2>2 DEF ThreadInv, PlaceInv
  <1>2. PICK at \in {"top", "dead"} : ThreadTo(w, at) BY DEF RunJob
  <1> DEFINE next == [ThreadTop EXCEPT !.at = at]
  <1>3. next \in ThreadRecord /\ next.at = at /\ next.job = NoJob
    BY ThreadTopTyped DEF ThreadStage, ThreadTop
  <1>4. thread' = [thread EXCEPT ![w] = next] BY <1>2 DEF ThreadTo
  <1> HIDE DEF next
  <1>5. \A v \in PoolWorkers : thread'[v] = IF v = w THEN next ELSE thread[v]
    BY <1>4 DEF ThreadInv, ThreadType
  <1>6. UNCHANGED <<poolQueue, job, poolSize, taskSequence>> BY DEF RunJob
  <1>7. \A k \in PoolJobs : ran'[k] = IF k = j THEN 1 ELSE ran[k]
    BY <1>1 DEF RunJob, ThreadInv, ThreadType
  <1>8. ThreadType'
    <2>1. ran' \in [PoolJobs -> 0 .. 1] BY <1>1 DEF RunJob, ThreadInv, ThreadType
    <2> QED BY <1>3, <1>4, <1>6, <2>1 DEF ThreadInv, ThreadType
  <1>9. NumbersInv' /\ OrderInv' BY <1>6 DEF ThreadInv, NumbersInv, Numbered, OrderInv, RunsAfter
  <1> HIDE DEF j
  <1>10. PlaceInv'
    <2>1. \A v \in PoolWorkers : \A i \in DOMAIN poolQueue[v] :
             /\ poolQueue[v][i] \in PoolJobs /\ poolQueue[v][i] # j /\ Untouched(poolQueue[v][i])
      BY DEF ThreadInv, ThreadType, PlaceInv, Untouched, j
    <2>2. NoJob \notin PoolJobs BY ThreadAssumption
    <2>3. \A v \in PoolWorkers : \A i \in DOMAIN poolQueue[v] : Untouched(poolQueue[v][i])'
      <3>1. ASSUME NEW v \in PoolWorkers, NEW i \in DOMAIN poolQueue[v]
            PROVE  /\ job'[poolQueue'[v][i]].at = "queued" /\ ran'[poolQueue'[v][i]] = 0
                   /\ \A u \in PoolWorkers : thread'[u].job # poolQueue'[v][i]
        BY <1>3, <1>5, <1>6, <1>7, <2>1, <2>2 DEF Untouched
      <3> QED BY <1>6, <3>1 DEF Untouched
    <2>4. \A v \in PoolWorkers : v # w => thread[v].job # j BY <1>1 DEF j
    <2>5. \A u, v \in PoolWorkers : thread'[u].job = thread'[v].job => thread'[u].job = NoJob \/ u = v
      BY <1>3, <1>5 DEF ThreadInv, PlaceInv
    <2>6. \A u \in PoolWorkers :
             /\ thread'[u].at = "run" <=> thread'[u].job # NoJob
             /\ thread'[u].job # NoJob => job'[thread'[u].job].at = "queued" /\ ran'[thread'[u].job] = 0
      <3> TAKE u \in PoolWorkers
      <3>1. CASE u = w BY <1>3, <1>5, <3>1
      <3>2. CASE u # w
        <4>1. thread'[u] = thread[u] /\ thread[u].job \in PoolJobs \union {NoJob} /\ thread[u].job # j
          BY <1>5, <2>4, <3>2 DEF ThreadInv, ThreadType, ThreadRecord
        <4>2. /\ thread[u].at = "run" <=> thread[u].job # NoJob
              /\ thread[u].job # NoJob => job[thread[u].job].at = "queued" /\ ran[thread[u].job] = 0
          BY DEF ThreadInv, PlaceInv
        <4> QED BY <1>6, <1>7, <4>1, <4>2
      <3> QED BY <3>1, <3>2
    <2>7. \A k \in PoolJobs :
             /\ ran'[k] = 1 => job'[k].at = "queued"
             /\ job'[k].at = "queued" =>
                  \/ ran'[k] = 1
                  \/ \E u \in PoolWorkers : thread'[u].job = k
                  \/ \E u \in PoolWorkers : \E i \in DOMAIN poolQueue'[u] : poolQueue'[u][i] = k
      <3> TAKE k \in PoolJobs
      <3>1. CASE k = j BY <1>1, <1>6, <1>7, <3>1 DEF j
      <3>2. CASE k # j
        <4>1. ran'[k] = ran[k] BY <1>7, <3>2
        <4>2. \A u \in PoolWorkers : thread[u].job = k => thread'[u].job = k BY <1>5, <3>2 DEF j
        <4> QED BY <1>6, <4>1, <4>2 DEF ThreadInv, PlaceInv
      <3> QED BY <3>1, <3>2
    <2>8. \A u, v \in PoolWorkers : \A i \in DOMAIN poolQueue[u], k \in DOMAIN poolQueue[v] :
             poolQueue[u][i] = poolQueue[v][k] => u = v /\ i = k
      BY DEF ThreadInv, PlaceInv
    <2> QED BY <1>6, <2>3, <2>5, <2>6, <2>7, <2>8 DEF PlaceInv
  <1> QED BY <1>8, <1>9, <1>10 DEF ThreadInv

LEMMA ThreadStepSafe ==
  ASSUME ThreadInv, NEW w \in PoolWorkers, ThreadStep(w)
  PROVE  ThreadInv'
  <1>1. thread[w] \in ThreadRecord /\ (thread[w].at = "run" <=> thread[w].job # NoJob)
    BY DEF ThreadInv, ThreadType, PlaceInv
  <1>2. ASSUME NEW at \in ThreadStage, at # "run", thread[w].at # "run", ThreadTo(w, at),
               UNCHANGED <<poolQueue, job, ran, poolSize, taskSequence>>
        PROVE  ThreadInv'
    <2> DEFINE next == [ThreadTop EXCEPT !.at = at]
    <2>1. next \in ThreadRecord /\ next.at = at /\ next.job = NoJob BY ThreadTopTyped DEF ThreadTop
    <2>2. thread' = [thread EXCEPT ![w] = next] BY <1>2 DEF ThreadTo
    <2> HIDE DEF next
    <2> QED BY <1>1, <1>2, <2>1, <2>2, ThreadMoves
  <1>3. ThreadStage = {"top", "own", "steal", "run", "wait", "dead", "exit"} BY DEF ThreadStage
  <1>4. CASE ThreadCheck(w) BY <1>2, <1>3, <1>4 DEF ThreadCheck
  <1>5. CASE ThreadWakes(w) BY <1>2, <1>3, <1>5 DEF ThreadWakes
  <1>6. CASE TakeOwn(w)
    <2>1. CASE poolQueue[w] = <<>> BY <1>2, <1>3, <1>6, <2>1 DEF TakeOwn
    <2>2. CASE poolQueue[w] # <<>>
      <3> DEFINE rest == Tail(poolQueue[w])
      <3>1. poolQueue[w] \in Seq(PoolJobs) BY DEF ThreadInv, ThreadType
      <3>2. /\ rest \in Seq(PoolJobs) /\ Len(rest) = Len(poolQueue[w]) - 1
            /\ \A i \in 1 .. Len(rest) : rest[i] = poolQueue[w][i + 1]
            /\ Head(poolQueue[w]) = poolQueue[w][1]
        BY <2>2, <3>1
      <3>3. /\ thread[w].at = "own" /\ TakesJob(w, poolQueue[w][1])
            /\ poolQueue' = [poolQueue EXCEPT ![w] = rest]
            /\ UNCHANGED <<job, ran, poolSize, taskSequence>>
        BY <1>6, <2>2, <3>2 DEF TakeOwn
      <3> HIDE DEF rest
      <3>4. 1 \in 0 .. 1 OBVIOUS
      <3> QED BY <1>1, <2>2, <3>2, <3>3, <3>4, TakeStep
    <2> QED BY <2>1, <2>2
  <1>7. CASE TrySteal(w)
    <2> DEFINE v == thread[w].victim
               nothing == v = w \/ poolQueue[v] = <<>>
    <2>1. v \in PoolWorkers /\ thread[w].at = "steal" /\ UNCHANGED <<job, ran, poolSize, taskSequence>>
      BY <1>1, <1>7 DEF TrySteal, ThreadRecord
    <2>2. CASE nothing /\ v < PoolThreads
      <3> DEFINE next == [thread[w] EXCEPT !.victim = @ + 1]
      <3>1. thread' = [thread EXCEPT ![w] = next] /\ UNCHANGED poolQueue BY <1>7, <2>2 DEF TrySteal
      <3>2. v + 1 \in PoolWorkers BY <2>1, <2>2, ThreadAssumption DEF PoolWorkers
      <3>3. next \in ThreadRecord /\ next.job = NoJob /\ next.at # "run"
        BY <1>1, <2>1, <3>2 DEF ThreadRecord
      <3> HIDE DEF next
      <3> QED BY <1>1, <2>1, <3>1, <3>3, ThreadMoves
    <2>3. CASE nothing /\ ~(v < PoolThreads)
      <3>1. ThreadTo(w, "wait") /\ UNCHANGED poolQueue BY <1>7, <2>3 DEF TrySteal
      <3> QED BY <1>2, <1>3, <2>1, <3>1
    <2>4. CASE ~nothing
      <3> DEFINE rest == Front(poolQueue[v])
                 last == Len(poolQueue[v])
      <3>1. poolQueue[v] \in Seq(PoolJobs) BY <2>1 DEF ThreadInv, ThreadType
      <3>2. /\ rest \in Seq(PoolJobs) /\ Len(rest) = Len(poolQueue[v]) - 1
            /\ \A i \in 1 .. Len(rest) : rest[i] = poolQueue[v][i + 0]
        BY <2>4, <3>1 DEF Front
      <3>3. /\ TakesJob(w, poolQueue[v][Len(poolQueue[v])])
            /\ poolQueue' = [poolQueue EXCEPT ![v] = rest]
        BY <1>7, <2>4 DEF TrySteal, Last
      <3> HIDE DEF rest, v
      <3>4. 0 \in 0 .. 1 /\ (IF 0 = 1 THEN 1 ELSE Len(poolQueue[v])) = Len(poolQueue[v]) OBVIOUS
      <3>5. poolQueue[v] # <<>> BY <2>4
      <3> QED BY <1>1, <2>1, <3>2, <3>3, <3>4, <3>5, TakeStep
    <2> QED BY <2>2, <2>3, <2>4
  <1> QED BY <1>4, <1>5, <1>6, <1>7, RunStep DEF ThreadStep

LEMMA JobStepSafe ==
  ASSUME ThreadInv, NEW j \in PoolJobs,
         JobStep(j) \/ \E priority \in JobPriorities : SubmitJob(j, priority)
  PROVE  ThreadInv'
  <1>1. job[j] \in JobRecord /\ job = [job EXCEPT ![j] = job[j]] /\ taskSequence \in Nat
    BY DEF ThreadInv, ThreadType
  <1>2. ASSUME job[j].at # "queued", JobTo(j, "refused"), UNCHANGED <<poolQueue, thread, ran, poolSize, taskSequence>>
        PROVE  ThreadInv'
    <2> DEFINE next == [job[j] EXCEPT !.at = "refused"]
    <2>1. next \in JobRecord /\ next.at = "refused" BY <1>1 DEF JobRecord, JobStage
    <2>2. job' = [job EXCEPT ![j] = next] BY <1>2 DEF JobTo
    <2> HIDE DEF next
    <2>3. taskSequence' \in Nat /\ taskSequence' >= taskSequence BY <1>1, <1>2
    <2> QED BY <1>2, <2>1, <2>2, <2>3, JobMoves
  <1>3. ASSUME NEW priority \in JobPriorities, SubmitJob(j, priority) PROVE ThreadInv'
    <2>1. CASE poolShutdown BY <1>2, <1>3, <2>1 DEF SubmitJob
    <2>2. CASE ~poolShutdown
      <3> DEFINE next == [job[j] EXCEPT !.at = "look", !.priority = priority, !.seq = taskSequence]
      <3>1. job' = [job EXCEPT ![j] = next] /\ taskSequence' = taskSequence + 1
        BY <1>3, <2>2 DEF SubmitJob
      <3>2. next \in JobRecord /\ next.at = "look" /\ next.seq = taskSequence
        BY <1>1, ThreadAssumption DEF JobRecord, JobStage
      <3> HIDE DEF next
      <3>3. taskSequence' \in Nat /\ taskSequence' >= taskSequence BY <1>1, <3>1
      <3>4. job[j].at # "queued" /\ UNCHANGED <<poolQueue, thread, ran, poolSize>> BY <1>3 DEF SubmitJob
      <3> QED BY <3>1, <3>2, <3>3, <3>4, JobMoves
    <2> QED BY <2>1, <2>2
  <1>4. CASE LookAtQueue(j)
    <2> DEFINE w == job[j].look
               best == IF Len(poolQueue[w]) < job[j].least THEN w ELSE job[j].best
               least == IF Len(poolQueue[w]) < job[j].least THEN Len(poolQueue[w]) ELSE job[j].least
               look == IF w < PoolThreads THEN w + 1 ELSE job[j].look
               at == IF w < PoolThreads THEN job[j].at ELSE "insert"
               next == [job[j] EXCEPT !.best = best, !.least = least, !.look = look, !.at = at]
    <2>1. w \in PoolWorkers /\ job[j].best \in PoolWorkers /\ job[j].least \in Nat /\ job[j].at = "look"
      BY <1>1, <1>4 DEF JobRecord, LookAtQueue
    <2>2. Len(poolQueue[w]) \in Nat BY <2>1 DEF ThreadInv, ThreadType
    <2>3. best \in PoolWorkers /\ least \in Nat /\ at \in {"look", "insert"} BY <2>1, <2>2
    <2>4. look \in PoolWorkers BY <2>1, ThreadAssumption DEF PoolWorkers
    <2>5. job' = [job EXCEPT ![j] = next]
      BY <1>4 DEF LookAtQueue
    <2> HIDE DEF best, least, look, at
    <2>6. next \in JobRecord /\ next.at = at /\ next.seq = job[j].seq
      BY <1>1, <2>3, <2>4 DEF JobRecord, JobStage
    <2> HIDE DEF next
    <2>7. Numbered(j) /\ job[j].at # "queued" BY <2>1 DEF Numbered
    <2>8. UNCHANGED <<poolQueue, thread, ran, poolSize, taskSequence>> BY <1>4 DEF LookAtQueue
    <2>9. taskSequence' \in Nat /\ taskSequence' >= taskSequence BY <1>1, <2>8
    <2>10. next.at # "queued" BY <2>3, <2>6
    <2> QED BY <2>5, <2>6, <2>7, <2>8, <2>9, <2>10, JobMoves
  <1>5. CASE InsertJob(j)
    <2>1. job[j].best \in PoolWorkers /\ job[j].at = "insert" BY <1>1, <1>5 DEF JobRecord, InsertJob
    <2>2. Len(poolQueue[job[j].best]) \in Nat /\ poolSize \in Nat BY <2>1 DEF ThreadInv, ThreadType
    <2>3. CASE Len(poolQueue[job[j].best]) >= poolSize BY <1>2, <1>5, <2>1, <2>3 DEF InsertJob
    <2>4. CASE Len(poolQueue[job[j].best]) < poolSize
      <3>1. ~(Len(poolQueue[job[j].best]) >= poolSize) BY <2>2, <2>4
      <3> QED BY <1>5, <2>1, <2>4, <3>1, InsertStep DEF InsertJob
    <2> QED BY <2>2, <2>3, <2>4
  <1> QED BY <1>3, <1>4, <1>5 DEF JobStep

LEMMA PoolStepSafe == ThreadInv /\ [ThreadNext]_threadVars => ThreadInv'
  <1> SUFFICES ASSUME ThreadInv, [ThreadNext]_threadVars PROVE ThreadInv' OBVIOUS
  <1>1. ASSUME UNCHANGED <<poolQueue, taskSequence, job, thread, ran, poolSize>> PROVE ThreadInv'
    <2>1. ThreadType' BY <1>1 DEF ThreadInv, ThreadType
    <2>2. NumbersInv' /\ OrderInv' BY <1>1 DEF ThreadInv, NumbersInv, Numbered, OrderInv, RunsAfter
    <2>3. PlaceInv' BY <1>1 DEF ThreadInv, PlaceInv, Untouched
    <2> QED BY <2>1, <2>2, <2>3 DEF ThreadInv
  <1>2. CASE SignalShutdown BY <1>1, <1>2 DEF SignalShutdown
  <1>3. CASE UNCHANGED threadVars BY <1>1, <1>3 DEF threadVars
  <1> QED BY <1>2, <1>3, ThreadStepSafe, JobStepSafe DEF ThreadNext

\* Something that is in one place is counted once.
LEMMA PlacesCounted ==
  ASSUME ThreadInv, NEW j \in PoolJobs, job[j].at = "queued"
  PROVE  ran[j] + Cardinality(InHand(j)) + Cardinality(PlacesOf(j)) = 1
  <1>1. \A x : Cardinality({x}) = 1 BY FS_Singleton
  <1>2. Cardinality({}) = 0 BY FS_EmptySet
  <1>3. ran[j] \in 0 .. 1 /\ j # NoJob BY ThreadAssumption DEF ThreadInv, ThreadType
  <1>4. CASE \E w \in PoolWorkers : \E i \in DOMAIN poolQueue[w] : poolQueue[w][i] = j
    <2>0. PICK w \in PoolWorkers : \E i \in DOMAIN poolQueue[w] : poolQueue[w][i] = j BY <1>4
    <2>1. PICK i \in DOMAIN poolQueue[w] : poolQueue[w][i] = j BY <2>0
    <2>2. Untouched(j) BY <2>1 DEF ThreadInv, PlaceInv
    <2>3. InHand(j) = {} BY <2>2 DEF InHand, Untouched
    <2>4. i \in 1 .. poolSize BY DEF ThreadInv, ThreadType
    <2>5. PlacesOf(j) = {<<w, i>>}
      <3>1. <<w, i>> \in PlacesOf(j) BY <2>1, <2>4 DEF PlacesOf
      <3>2. ASSUME NEW p \in PlacesOf(j) PROVE p = <<w, i>>
        <4>1. p \in PoolWorkers \X (1 .. poolSize) /\ p = <<p[1], p[2]>> /\ p[1] \in PoolWorkers
          BY <3>2 DEF PlacesOf
        <4>2. p[2] \in DOMAIN poolQueue[p[1]] /\ poolQueue[p[1]][p[2]] = j BY <3>2 DEF PlacesOf
        <4>3. p[1] = w /\ p[2] = i BY <2>1, <4>1, <4>2 DEF ThreadInv, PlaceInv
        <4> QED BY <4>1, <4>3
      <3> QED BY <3>1, <3>2
    <2>6. Cardinality(PlacesOf(j)) = 1 /\ Cardinality(InHand(j)) = 0 BY <1>1, <1>2, <2>3, <2>5, Zenon
    <2>7. ran[j] = 0 BY <2>2 DEF Untouched
    <2> QED BY <2>6, <2>7
  <1>5. CASE ~\E w \in PoolWorkers : \E i \in DOMAIN poolQueue[w] : poolQueue[w][i] = j
    <2>1. PlacesOf(j) = {} BY <1>5 DEF PlacesOf
    <2>2. CASE \E w \in PoolWorkers : thread[w].job = j
      <3>1. PICK w \in PoolWorkers : thread[w].job = j BY <2>2
      <3>2. ran[j] = 0 BY <1>3, <3>1 DEF ThreadInv, PlaceInv
      <3>3. InHand(j) = {w} BY <1>3, <3>1 DEF InHand, ThreadInv, PlaceInv
      <3> QED BY <1>1, <1>2, <2>1, <3>2, <3>3
    <2>3. CASE ~\E w \in PoolWorkers : thread[w].job = j
      <3>1. ran[j] = 1 BY <1>5, <2>3 DEF ThreadInv, PlaceInv
      <3>2. InHand(j) = {} BY <2>3 DEF InHand
      <3> QED BY <1>2, <2>1, <3>1, <3>2
    <2> QED BY <2>2, <2>3
  <1> QED BY <1>4, <1>5

\* For any number of workers, tasks, priorities and places in a queue: the queues
\* are in the order of priority and arrival, whatever order submitters reach them
\* in, and an accepted task is in one place until it has run, once
\* (submit_with_priority, find_least_loaded_worker, worker_loop, try_steal).
THEOREM TasksCorrect == ThreadSpec => []TasksInOrder
  <1>1. ThreadInv => TasksInOrder BY PlacesCounted DEF ThreadInv, OrderInv, TasksInOrder
  <1> QED BY <1>1, ThreadInitial, PoolStepSafe, PTL DEF ThreadSpec

-----------------------------------------------------------------------------
(* Speculation *)

SpecStage == {"draft", "plan", "verify", "one", "done", "failed"}

\* A prefix, token by token.
Begins(s, t) == Len(s) <= Len(t) /\ \A i \in 1 .. Len(s) : s[i] = t[i]

SpecType ==
    /\ greedy \in Seq(SpecVocabulary) /\ Len(greedy) = SpecLength
    /\ specMax \in 0 .. SpecMaxTokens /\ specAt \in SpecStage
    /\ context \in Seq(SpecVocabulary) /\ kv \in Seq(SpecVocabulary)
    /\ block \in Seq(SpecVocabulary) /\ Len(block) <= SpecMaxDraft

\* What is generated is the greedy text; a run that goes on has not met its end,
\* and one that is about to generate has room.
TextInv ==
    /\ SpecPrompt <= Len(context) /\ Generated <= specMax /\ Begins(context, greedy)
    /\ \A i \in SpecPrompt + 1 .. Len(context) - 1 : context[i] # Eos
    /\ specAt # "done" => \A i \in SpecPrompt + 1 .. Len(context) : context[i] # Eos
    /\ specAt \in {"plan", "verify", "one"} => Generated < specMax
    /\ specAt = "done" /\ specActive => Generated = specMax \/ context[Len(context)] = Eos

\* The session's cache is a beginning of the context, so that seat needs no more
\* than to go back or forward.
SessionInv == kvLen # NoSpecSession => kvLen = Len(kv) /\ Begins(kv, context)

StatsInv ==
    /\ specStats \in [drafted : Nat, accepted : Nat, rejected : Nat]
    /\ specStats.accepted + specStats.rejected = specStats.drafted

SpecInv == SpecType /\ TextInv /\ SessionInv /\ StatsInv

LEMMA PrefixBegins ==
  ASSUME NEW s \in Seq(SpecVocabulary), NEW t \in Seq(SpecVocabulary)
  PROVE  IsPrefix(s, t) <=> Begins(s, t)
  <1>1. Len(s) \in Nat /\ Len(t) \in Nat OBVIOUS
  <1>2. CASE Len(s) <= Len(t)
    <2> DEFINE a == SubSeq(s, 1, Len(s))
               b == SubSeq(t, 1, Len(s))
    <2>1. a \in Seq(SpecVocabulary) /\ Len(a) = Len(s) /\ \A i \in 1 .. Len(s) : a[i] = s[i] BY <1>1
    <2>2. b \in Seq(SpecVocabulary) /\ Len(b) = Len(s) /\ \A i \in 1 .. Len(s) : b[i] = t[i] BY <1>1, <1>2
    <2>3. IsPrefix(s, t) <=> a = b BY <1>2 DEF IsPrefix
    <2> HIDE DEF a, b
    <2>4. a = b <=> \A i \in 1 .. Len(s) : a[i] = b[i] BY <2>1, <2>2
    <2> QED BY <1>2, <2>1, <2>2, <2>3, <2>4 DEF Begins
  <1>3. CASE ~(Len(s) <= Len(t)) BY <1>3 DEF IsPrefix, Begins
  <1> QED BY <1>2, <1>3

\* A text and the first n tokens of another behind it.
LEMMA Extended ==
  ASSUME NEW c \in Seq(SpecVocabulary), NEW b \in Seq(SpecVocabulary), NEW n \in 0 .. Len(b)
  PROVE  LET d == c \o SubSeq(b, 1, n)
         IN  /\ d \in Seq(SpecVocabulary) /\ Len(d) = Len(c) + n
             /\ \A i \in 1 .. Len(c) : d[i] = c[i]
             /\ \A i \in 1 .. n : d[Len(c) + i] = b[i]
  <1> DEFINE e == SubSeq(b, 1, n)
  <1>1. e \in Seq(SpecVocabulary) /\ Len(e) = n /\ \A i \in 1 .. n : e[i] = b[i] OBVIOUS
  <1> HIDE DEF e
  <1>2. Len(c) \in Nat /\ n \in Nat OBVIOUS
  <1>3. c \o e \in Seq(SpecVocabulary) /\ Len(c \o e) = Len(c) + n
    <2>1. e \in Seq(SpecVocabulary) /\ Len(e) = n BY <1>1
    <2>2. c \o e \in Seq(SpecVocabulary) BY ONLY <2>1, c \in Seq(SpecVocabulary)
    <2>3. Len(c \o e) = Len(c) + Len(e) BY ONLY <2>1, c \in Seq(SpecVocabulary)
    <2> QED BY <2>1, <2>2, <2>3
  <1>4. ASSUME NEW i \in 1 .. Len(c) PROVE (c \o e)[i] = c[i]
    <2>1. i \in 1 .. Len(c) + n /\ i <= Len(c) BY <1>2
    <2> QED BY <1>1, <2>1
  <1>5. ASSUME NEW i \in 1 .. n PROVE (c \o e)[Len(c) + i] = e[i]
    <2>1. Len(c) + i \in 1 .. Len(c) + n /\ ~(Len(c) + i <= Len(c)) /\ (Len(c) + i) - Len(c) = i BY <1>2
    <2> QED BY <1>1, <1>2, <2>1
  <1> QED BY <1>1, <1>3, <1>4, <1>5 DEF e

LEMMA PredictNext ==
  ASSUME NEW cache \in Seq(SpecVocabulary), greedy \in Seq(SpecVocabulary), Begins(cache, greedy)
  PROVE  Predict(cache) = greedy[Len(cache) + 1]
  <1>1. IsPrefix(cache, greedy) BY PrefixBegins
  <1> QED BY <1>1 DEF Predict

\* Wherever its session was left, the target is brought to the context.
LEMMA SeatedIsContext == ASSUME SpecInv PROVE Seated = context
  <1> DEFINE p == Len(context)
             cache == IF kvLen = NoSpecSession THEN context ELSE kv
             len == IF kvLen = NoSpecSession THEN p ELSE kvLen
             upTo == IF len > p - 1 THEN SubSeq(cache, 1, p - 1)
                     ELSE cache \o SubSeq(context, len + 1, p - 1)
  <1>1. context \in Seq(SpecVocabulary) /\ p \in Nat /\ p >= 1
    BY SpecAssumption DEF SpecInv, SpecType, TextInv
  <1>2. /\ cache \in Seq(SpecVocabulary) /\ len = Len(cache) /\ len <= p
        /\ \A i \in 1 .. len : cache[i] = context[i]
    <2>1. CASE kvLen = NoSpecSession BY <1>1, <2>1
    <2>2. CASE kvLen # NoSpecSession BY <2>2 DEF SpecInv, SpecType, SessionInv, Begins
    <2> QED BY <2>1, <2>2
  <1>3. Seated = Append(upTo, context[p]) BY DEF Seated
  <1> HIDE DEF cache, len
  <1>4. upTo \in Seq(SpecVocabulary) /\ Len(upTo) = p - 1 /\ \A i \in 1 .. p - 1 : upTo[i] = context[i]
    <2>1. len \in Nat BY <1>2
    <2>2. CASE len > p - 1
      <3>1. upTo = SubSeq(cache, 1, p - 1) BY <2>2
      <3>2. len = p BY <1>1, <1>2, <2>1, <2>2
      <3> HIDE DEF upTo, p
      <3>3. p - 1 \in 0 .. Len(cache) BY <1>1, <1>2, <3>2
      <3>4. upTo \in Seq(SpecVocabulary) /\ Len(upTo) = p - 1 /\ \A i \in 1 .. p - 1 : upTo[i] = cache[i]
        BY <1>2, <3>1, <3>3
      <3>5. \A i \in 1 .. p - 1 : i \in 1 .. len BY <1>1, <3>2
      <3> QED BY <1>2, <3>4, <3>5
    <2>3. CASE ~(len > p - 1)
      <3> DEFINE rest == SubSeq(context, len + 1, p - 1)
      <3>1. /\ rest \in Seq(SpecVocabulary) /\ Len(rest) = p - 1 - len
            /\ \A i \in 1 .. p - 1 - len : rest[i] = context[len + i]
        BY <1>1, <2>1, <2>3
      <3>2. upTo = cache \o rest BY <2>3
      <3> HIDE DEF upTo, rest
      <3>3. upTo \in Seq(SpecVocabulary) /\ Len(upTo) = p - 1 BY <1>1, <1>2, <2>1, <3>1, <3>2
      <3>4. \A i \in 1 .. len : upTo[i] = cache[i] BY <1>2, <2>1, <3>1, <3>2
      <3>5. ASSUME NEW i \in 1 .. p - 1, i > len PROVE upTo[i] = context[i]
        <4>1. i - len \in 1 .. p - 1 - len BY <1>1, <2>1, <3>5
        <4>2. upTo[i] = rest[i - len] BY <1>1, <1>2, <2>1, <3>1, <3>2, <3>5
        <4>3. len + (i - len) = i BY <1>1, <2>1
        <4> QED BY <3>1, <4>1, <4>2, <4>3
      <3> QED BY <1>1, <1>2, <2>1, <3>3, <3>4, <3>5
    <2> QED BY <2>2, <2>3
  <1> HIDE DEF upTo
  <1>5. context[p] \in SpecVocabulary BY <1>1
  <1>6. /\ Append(upTo, context[p]) \in Seq(SpecVocabulary) /\ Len(Append(upTo, context[p])) = p
        /\ \A i \in 1 .. p : Append(upTo, context[p])[i] = context[i]
    BY <1>1, <1>4, <1>5
  <1> QED BY <1>1, <1>3, <1>6

\* There is room in the greedy text for the context and a block.
LEMMA RoomForBlock ==
  ASSUME SpecInv, specAt \in {"plan", "verify", "one"}
  PROVE  Len(context) + Len(block) <= Len(greedy) /\ Len(context) + 1 <= Len(greedy)
  <1>1. /\ Len(context) \in Nat /\ Len(block) \in Nat /\ Len(block) <= SpecMaxDraft /\ specMax \in 0 .. SpecMaxTokens
        /\ Len(greedy) = SpecPrompt + SpecMaxTokens + (IF SpecMaxDraft = 0 THEN 0 ELSE SpecMaxDraft - 1)
        /\ Len(context) - SpecPrompt < specMax
    BY DEF SpecInv, SpecType, TextInv, Generated, SpecLength
  <1> QED BY <1>1, SpecAssumption

\* What the target agrees with is what it would have generated: up to the first
\* token that differs its cache holds the greedy text.
LEMMA AgreedIsGreedy ==
  ASSUME SpecInv, specAt = "verify", NEW k \in Agrees(context)
  PROVE  k \in 0 .. Len(block) /\ \A i \in 1 .. k : block[i] = greedy[Len(context) + i]
  <1>1. k \in 0 .. Len(block) /\ \A i \in 1 .. k : Predict(context \o SubSeq(block, 1, i - 1)) = block[i]
    BY DEF Agrees
  <1>2. /\ context \in Seq(SpecVocabulary) /\ block \in Seq(SpecVocabulary) /\ greedy \in Seq(SpecVocabulary)
        /\ Len(context) \in Nat /\ Len(block) \in Nat /\ Len(greedy) \in Nat
        /\ Begins(context, greedy) /\ Len(context) + Len(block) <= Len(greedy)
    BY RoomForBlock DEF SpecInv, SpecType, TextInv
  <1> DEFINE Differ == {i \in 1 .. k : block[i] # greedy[Len(context) + i]}
  <1>3. CASE Differ # {}
    <2>1. Differ \in SUBSET Nat BY <1>1
    <2>2. PICK m \in Differ : \A i \in Differ : m <= i BY <1>3, <2>1, FirstOfNumbers
    <2>3. m \in 1 .. k /\ m - 1 \in 0 .. Len(block) /\ m - 1 \in Nat /\ \A i \in 1 .. m - 1 : i \in 1 .. k /\ ~(m <= i)
      BY <1>1, <1>2
    <2>4. \A i \in 1 .. m - 1 : block[i] = greedy[Len(context) + i] BY <2>2, <2>3
    <2> DEFINE d == context \o SubSeq(block, 1, m - 1)
    <2>5. /\ d \in Seq(SpecVocabulary) /\ Len(d) = Len(context) + (m - 1)
          /\ \A i \in 1 .. Len(context) : d[i] = context[i]
          /\ \A i \in 1 .. m - 1 : d[Len(context) + i] = block[i]
      BY <1>2, <2>3, Extended
    <2> HIDE DEF d
    <2>6. ASSUME NEW i \in 1 .. Len(d) PROVE d[i] = greedy[i]
      <3>1. CASE i \in 1 .. Len(context) BY <1>2, <2>5, <3>1 DEF Begins
      <3>2. CASE i \notin 1 .. Len(context)
        <4>1. i - Len(context) \in 1 .. m - 1 /\ Len(context) + (i - Len(context)) = i BY <1>2, <2>3, <2>5, <3>2
        <4> QED BY <2>4, <2>5, <4>1
      <3> QED BY <3>1, <3>2
    <2>7. Begins(d, greedy) BY <1>2, <2>3, <2>5, <2>6 DEF Begins
    <2>8. Predict(d) = greedy[Len(d) + 1] BY <1>2, <2>5, <2>7, PredictNext
    <2>9. Predict(d) = block[m] BY <1>1, <2>3 DEF d
    <2>10. Len(d) + 1 = Len(context) + m BY <1>2, <2>3, <2>5
    <2> QED BY <2>2, <2>8, <2>9, <2>10
  <1>4. CASE Differ = {} BY <1>1, <1>4
  <1> QED BY <1>3, <1>4

LEMMA AcceptedAgrees ==
  ASSUME block \in Seq(SpecVocabulary), NEW cache
  PROVE  Accepted(cache) \in Agrees(cache)
  <1> DEFINE A == Agrees(cache)
  <1>1. Len(block) \in Nat /\ A \in SUBSET (0 .. Len(block)) /\ 0 \in A BY DEF Agrees
  <1>2. Accepted(cache) = CHOOSE k \in A : \A j \in A : j <= k BY DEF Accepted
  <1> HIDE DEF A
  <1>3. Accepted(cache) \in A BY <1>1, <1>2, LastOfNumbers
  <1> QED BY <1>3 DEF A

\* Tokens of the greedy text are committed up to its end and to the limit.
LEMMA CommitSafe ==
  ASSUME SpecInv, specAt \in {"verify", "one"}, NEW tokens \in Seq(SpecVocabulary),
         Len(context) + Len(tokens) <= Len(greedy),
         \A i \in 1 .. Len(tokens) : tokens[i] = greedy[Len(context) + i],
         Commit(tokens), UNCHANGED <<greedy, specActive, specMax>>
  PROVE  /\ context' \in Seq(SpecVocabulary) /\ Begins(context, context') /\ TextInv'
         /\ block' = <<>> /\ specAt' \in {"draft", "done"}
  <1> DEFINE room == specMax - Generated
             ends == {i \in DOMAIN tokens : tokens[i] = Eos \/ i = room}
             cut == CHOOSE i \in ends : \A j \in ends : i <= j
             kept == IF ends = {} THEN tokens ELSE SubSeq(tokens, 1, cut)
             n == IF ends = {} THEN Len(tokens) ELSE cut
  <1>1. /\ context \in Seq(SpecVocabulary) /\ Len(context) \in Nat /\ Len(tokens) \in Nat /\ Len(greedy) \in Nat
        /\ SpecPrompt \in Nat /\ specMax \in Nat /\ Len(context) >= SpecPrompt /\ Begins(context, greedy)
        /\ Len(context) - SpecPrompt < specMax /\ DOMAIN tokens = 1 .. Len(tokens)
        /\ \A i \in SpecPrompt + 1 .. Len(context) : context[i] # Eos
    BY SpecAssumption DEF SpecInv, SpecType, TextInv, Generated
  <1>2. room \in Nat /\ room >= 1 /\ room = specMax - (Len(context) - SpecPrompt) BY <1>1 DEF Generated
  <1>3. /\ context' = context \o kept /\ block' = <<>>
        /\ specAt' = IF ends = {} THEN "draft" ELSE "done"
    BY DEF Commit
  <1> HIDE DEF room
  <1>4. ends # {} => cut \in ends /\ \A i \in ends : cut <= i
    <2>1. ends \in SUBSET Nat BY <1>1
    <2> HIDE DEF ends
    <2> QED BY <2>1, FirstOfNumbers
  <1> HIDE DEF cut
  <1>5. /\ n \in 0 .. Len(tokens) /\ n <= room
        /\ \A i \in 1 .. n : i < n \/ ends = {} => tokens[i] # Eos
        /\ ends # {} => n >= 1 /\ (n = room \/ tokens[n] = Eos)
    <2>1. CASE ends = {}
      <3>1. n = Len(tokens) BY <2>1
      <3>2. \A i \in 1 .. Len(tokens) : tokens[i] # Eos /\ i # room BY <1>1, <2>1
      <3>3. Len(tokens) <= room
        <4>1. room \notin 1 .. Len(tokens) BY <3>2
        <4> QED BY <1>1, <1>2, <4>1
      <3> QED BY <1>1, <2>1, <3>1, <3>2, <3>3
    <2>2. CASE ends # {}
      <3>1. cut \in 1 .. Len(tokens) /\ (tokens[cut] = Eos \/ cut = room) /\ \A i \in ends : cut <= i
        BY <1>1, <1>4, <2>2
      <3>2. ASSUME NEW i \in 1 .. cut, i < cut PROVE tokens[i] # Eos
        <4>1. i \in 1 .. Len(tokens) /\ ~(cut <= i) BY <1>1, <3>1, <3>2
        <4> QED BY <1>1, <3>1, <4>1
      <3>3. cut <= room
        <4>1. CASE room \in ends BY <3>1, <4>1
        <4>2. CASE room \notin ends
          <5>1. room \notin 1 .. Len(tokens) BY <1>1, <4>2
          <5> QED BY <1>1, <1>2, <3>1, <5>1
        <4> QED BY <4>1, <4>2
      <3>4. n = cut BY <2>2
      <3> QED BY <2>2, <3>1, <3>2, <3>3, <3>4
    <2> QED BY <2>1, <2>2
  <1>6. /\ context' \in Seq(SpecVocabulary) /\ Len(context') = Len(context) + n
        /\ \A i \in 1 .. Len(context) : context'[i] = context[i]
        /\ \A i \in 1 .. n : context'[Len(context) + i] = tokens[i]
    <2>1. context' = context \o SubSeq(tokens, 1, n)
      <3>1. CASE ends = {}
        <4>1. SubSeq(tokens, 1, Len(tokens)) = tokens BY <1>1
        <4> QED BY <1>3, <3>1, <4>1
      <3>2. CASE ends # {} BY <1>3, <3>2
      <3> QED BY <3>1, <3>2
    <2> HIDE DEF n
    <2> QED BY <1>1, <1>5, <2>1, Extended, SMTT(40)
  <1> DEFINE over == ends = {}
  <1>7. specAt' = (IF over THEN "draft" ELSE "done") BY <1>3
  <1>8. /\ \A i \in 1 .. n : i < n \/ over => tokens[i] # Eos
        /\ ~over => n >= 1 /\ (n = room \/ tokens[n] = Eos)
    BY <1>5
  <1>9. n \in Nat /\ n <= room /\ n <= Len(tokens) BY <1>1, <1>5
  <1> HIDE DEF n, over, ends, kept
  <1>10. ASSUME NEW i \in 1 .. Len(context'), i \notin 1 .. Len(context)
         PROVE  /\ i - Len(context) \in 1 .. n /\ Len(context) + (i - Len(context)) = i
                /\ context'[i] = tokens[i - Len(context)] /\ tokens[i - Len(context)] = greedy[i]
    <2>1. i - Len(context) \in 1 .. n /\ Len(context) + (i - Len(context)) = i /\ i - Len(context) \in 1 .. Len(tokens)
      BY <1>1, <1>6, <1>9, <1>10
    <2> QED BY <1>6, <2>1
  <1>11. Begins(context', greedy)
    <2>1. ASSUME NEW i \in 1 .. Len(context') PROVE context'[i] = greedy[i]
      <3>1. CASE i \in 1 .. Len(context) BY <1>1, <1>6, <3>1 DEF Begins
      <3>2. CASE i \notin 1 .. Len(context) BY <1>10, <3>2
      <3> QED BY <3>1, <3>2
    <2> QED BY <1>1, <1>6, <1>9, <2>1 DEF Begins
  <1>12. ASSUME NEW i \in SpecPrompt + 1 .. Len(context'), i < Len(context') \/ over
         PROVE  context'[i] # Eos
    <2>1. CASE i \in 1 .. Len(context)
      <3>1. i \in SpecPrompt + 1 .. Len(context) BY <1>1, <2>1
      <3>2. context'[i] = context[i] BY <1>6, <2>1
      <3> QED BY <1>1, <3>1, <3>2
    <2>2. CASE i \notin 1 .. Len(context)
      <3>1. i \in 1 .. Len(context') BY <1>1, <1>6, <1>9
      <3>2. i - Len(context) \in 1 .. n /\ context'[i] = tokens[i - Len(context)] BY <1>10, <2>2, <3>1
      <3>3. i - Len(context) < n \/ over BY <1>1, <1>6, <1>9, <1>12
      <3> QED BY <1>8, <3>2, <3>3
    <2> QED BY <2>1, <2>2
  <1>13. ~over => Generated' = specMax \/ context'[Len(context')] = Eos
    <2> SUFFICES ASSUME ~over PROVE Generated' = specMax \/ context'[Len(context')] = Eos OBVIOUS
    <2>1. n >= 1 /\ (n = room \/ tokens[n] = Eos) BY <1>8
    <2>2. context'[Len(context')] = tokens[n] BY <1>6, <1>9, <2>1
    <2>3. n = room => Len(context') - SpecPrompt = specMax BY <1>1, <1>2, <1>6
    <2> QED BY <2>1, <2>2, <2>3 DEF Generated
  <1>14. Generated' <= specMax /\ SpecPrompt <= Len(context') BY <1>1, <1>2, <1>6, <1>9 DEF Generated
  <1>15. specMax' = specMax /\ greedy' = greedy OBVIOUS
  <1>16. Begins(context, context') BY <1>1, <1>6, <1>9 DEF Begins
  <1>17. TextInv'
    <2>1. \A i \in SpecPrompt + 1 .. Len(context') - 1 : context'[i] # Eos
      <3> TAKE i \in SpecPrompt + 1 .. Len(context') - 1
      <3>1. i \in SpecPrompt + 1 .. Len(context') /\ i < Len(context') BY <1>1, <1>6, <1>9
      <3> QED BY <1>12, <3>1
    <2>2. specAt' # "done" => \A i \in SpecPrompt + 1 .. Len(context') : context'[i] # Eos BY <1>7, <1>12
    <2>3. specAt' \notin {"plan", "verify", "one"} BY <1>7
    <2>4. specAt' = "done" => Generated' = specMax' \/ context'[Len(context')] = Eos BY <1>7, <1>13, <1>15
    <2> QED BY <1>11, <1>14, <1>15, <2>1, <2>2, <2>3, <2>4 DEF TextInv
  <1> QED BY <1>3, <1>6, <1>7, <1>16, <1>17

LEMMA DraftSafe == ASSUME SpecInv, Draft PROVE SpecInv'
  <1>1. /\ specAt = "draft" /\ context \in Seq(SpecVocabulary) /\ Len(context) \in Nat
        /\ UNCHANGED <<greedy, specActive, specMax, context, kv, kvLen, specStats>>
    BY DEF Draft, SpecInv, SpecType
  <1>2. SpecMaxDraft \in Nat /\ SpecNgram \in Nat BY SpecAssumption
  <1>3. CASE specAt' = "done" /\ block' = block
    <2>1. ~specActive \/ Generated >= specMax BY <1>1, <1>3 DEF Draft
    <2>2. Generated <= specMax /\ Generated \in Int /\ specMax \in Int
      BY <1>1, SpecAssumption DEF SpecInv, SpecType, TextInv, Generated
    <2>3. specActive => Generated = specMax BY <2>1, <2>2
    <2>4. TextInv' BY <1>1, <1>3, <2>3 DEF SpecInv, TextInv, Generated
    <2> QED BY <1>1, <1>3, <2>4 DEF SpecInv, SpecType, SpecStage, SessionInv, StatsInv
  <1>4. CASE ~(~specActive \/ Generated >= specMax)
    <2>1. block' \in (IF specLookup THEN {Lookup(context)} ELSE Drafts) /\ specAt' \in {"one", "plan"}
      BY <1>4 DEF Draft
    <2>2. ASSUME NEW d \in Drafts PROVE d \in Seq(SpecVocabulary) /\ Len(d) <= SpecMaxDraft
      <3>1. PICK n \in 0 .. SpecMaxDraft : d \in [1 .. n -> SpecTokens] BY DEF Drafts
      <3>2. n \in Nat /\ n <= SpecMaxDraft BY <1>2
      <3>3. d \in Seq(SpecTokens) /\ Len(d) = n BY <3>1, <3>2
      <3> QED BY <3>2, <3>3 DEF SpecVocabulary
    <2>3. Lookup(context) \in Seq(SpecVocabulary) /\ Len(Lookup(context)) <= SpecMaxDraft
      <3> DEFINE n == SpecNgram
                 found == {s \in 0 .. Len(context) - n - 1 :
                             SubSeq(context, s + 1, s + n) = SubSeq(context, Len(context) - n + 1, Len(context))}
                 s == CHOOSE x \in found : \A y \in found : y <= x
                 end == IF s + n + SpecMaxDraft < Len(context) THEN s + n + SpecMaxDraft ELSE Len(context)
      <3>1. Lookup(context) = IF n = 0 \/ Len(context) <= n \/ found = {} THEN <<>>
                              ELSE SubSeq(context, s + n + 1, end)
        BY DEF Lookup
      <3>2. CASE n = 0 \/ Len(context) <= n \/ found = {}
        <4>1. Lookup(context) = <<>> BY <3>1, <3>2
        <4> QED BY <1>2, <4>1
      <3>3. CASE ~(n = 0 \/ Len(context) <= n \/ found = {})
        <4>1. found \subseteq 0 .. Len(context) - n - 1 /\ found # {} BY <3>3
        <4> HIDE DEF found
        <4> DEFINE L == Len(context) - n - 1
        <4>0. L \in Nat BY <1>1, <1>2, <3>3
        <4>7. found \in SUBSET (0 .. L) /\ found # {} BY <4>1
        <4> HIDE DEF L
        <4>2. s \in found BY <4>0, <4>7, LastOfNumbers
        <4>8. s \in 0 .. L BY <4>2, <4>7
        <4> HIDE DEF s
        <4>3. s \in Nat /\ s + n + 1 <= Len(context) BY <1>1, <1>2, <4>0, <4>8 DEF L
        <4>4. Lookup(context) = SubSeq(context, s + n + 1, end) BY <3>1, <3>3
        <4>5. end \in Nat /\ end <= Len(context) /\ end - (s + n) <= SpecMaxDraft /\ end >= s + n
          BY <1>1, <1>2, <4>3
        <4> HIDE DEF end
        <4>6. SubSeq(context, s + n + 1, end) \in Seq(SpecVocabulary) /\ Len(SubSeq(context, s + n + 1, end)) = end - (s + n)
          BY <1>1, <1>2, <4>3, <4>5
        <4> QED BY <4>4, <4>5, <4>6
      <3> QED BY <3>2, <3>3
    <2>4. block' \in Seq(SpecVocabulary) /\ Len(block') <= SpecMaxDraft BY <2>1, <2>2, <2>3
    <2>5. Generated < specMax BY <1>1, <1>4, SpecAssumption DEF SpecInv, SpecType, Generated
    <2>6. TextInv' BY <1>1, <2>1, <2>5 DEF SpecInv, TextInv, Generated
    <2> QED BY <1>1, <2>1, <2>4, <2>6 DEF SpecInv, SpecType, SpecStage, SessionInv, StatsInv
  <1> QED BY <1>3, <1>4 DEF Draft

LEMMA PlanSafe == ASSUME SpecInv, Plan PROVE SpecInv'
  <1>1. /\ specAt = "plan" /\ specAt' \in {"one", "verify"}
        /\ UNCHANGED <<greedy, specActive, specMax, context, block, kv, kvLen, specStats>>
    BY DEF Plan
  <1>2. TextInv' BY <1>1 DEF SpecInv, TextInv, Generated
  <1> QED BY <1>1, <1>2 DEF SpecInv, SpecType, SpecStage, SessionInv, StatsInv

LEMMA FailSafe ==
  ASSUME SpecInv, SpecError, UNCHANGED <<greedy, specActive, specMax>>, specAt \in {"verify", "one"}
  PROVE  SpecInv'
  <1>1. specAt' = "failed" /\ UNCHANGED <<context, block, kv, kvLen, specStats>> BY DEF SpecError
  <1>2. TextInv' BY <1>1 DEF SpecInv, TextInv, Generated
  <1> QED BY <1>1, <1>2 DEF SpecInv, SpecType, SpecStage, SessionInv, StatsInv

\* What both ways of going on leave: the session holds the context as it was.
LEMMA CommittedSafe ==
  ASSUME SpecInv, specAt \in {"verify", "one"}, NEW tokens \in Seq(SpecVocabulary),
         Len(context) + Len(tokens) <= Len(greedy),
         \A i \in 1 .. Len(tokens) : tokens[i] = greedy[Len(context) + i],
         Commit(tokens), kv' = context, kvLen' = Len(context), StatsInv', UNCHANGED <<greedy, specActive, specMax>>
  PROVE  SpecInv'
  <1>1. /\ context' \in Seq(SpecVocabulary) /\ Begins(context, context') /\ TextInv'
        /\ block' = <<>> /\ specAt' \in {"draft", "done"}
    BY CommitSafe
  <1>2. SpecType' BY <1>1, SpecAssumption DEF SpecInv, SpecType, SpecStage
  <1>3. SessionInv' BY <1>1 DEF SessionInv, Begins
  <1> QED BY <1>1, <1>2, <1>3 DEF SpecInv

LEMMA OneSafe == ASSUME SpecInv, GenerateOne PROVE SpecInv'
  <1>1. specAt = "one" /\ UNCHANGED <<greedy, specActive, specMax>> BY DEF GenerateOne
  <1>2. CASE SpecError BY <1>1, <1>2, FailSafe
  <1>3. CASE ~SpecError
    <2>1. /\ kv' = context /\ kvLen' = Len(context) /\ Commit(<<Predict(context)>>) /\ UNCHANGED specStats
      BY <1>3, SeatedIsContext DEF GenerateOne
    <2>2. /\ context \in Seq(SpecVocabulary) /\ greedy \in Seq(SpecVocabulary) /\ Begins(context, greedy)
          /\ Len(context) \in Nat /\ Len(context) + 1 <= Len(greedy)
      BY <1>1, RoomForBlock DEF SpecInv, SpecType, TextInv
    <2> DEFINE tokens == <<Predict(context)>>
    <2>3. Predict(context) = greedy[Len(context) + 1] BY <2>2, PredictNext
    <2>4. greedy[Len(context) + 1] \in SpecVocabulary BY <2>2
    <2>5. tokens \in Seq(SpecVocabulary) /\ Len(tokens) = 1 /\ tokens[1] = greedy[Len(context) + 1] BY <2>3, <2>4
    <2>6. Commit(tokens) BY <2>1
    <2> HIDE DEF tokens
    <2>7. \A i \in 1 .. Len(tokens) : tokens[i] = greedy[Len(context) + i] BY <2>5
    <2>8. StatsInv' BY <2>1 DEF SpecInv, StatsInv
    <2> QED BY <1>1, <2>1, <2>2, <2>5, <2>6, <2>7, <2>8, CommittedSafe
  <1> QED BY <1>2, <1>3

LEMMA VerifySafe == ASSUME SpecInv, Verify PROVE SpecInv'
  <1>1. specAt = "verify" /\ UNCHANGED <<greedy, specActive, specMax>> BY DEF Verify
  <1>2. CASE SpecError BY <1>1, <1>2, FailSafe
  <1>3. CASE ~SpecError
    <2> DEFINE a == Accepted(context)
               correction == IF a = Len(block) THEN <<>> ELSE <<Predict(context \o SubSeq(block, 1, a))>>
               tokens == SubSeq(block, 1, a) \o correction
    <2>1. /\ kv' = RolledBack(context) /\ kvLen' = Len(context) /\ Record(a) /\ Commit(tokens)
      BY <1>3, SeatedIsContext DEF Verify
    <2>2. /\ context \in Seq(SpecVocabulary) /\ block \in Seq(SpecVocabulary) /\ greedy \in Seq(SpecVocabulary)
          /\ Len(context) \in Nat /\ Len(block) \in Nat /\ Len(greedy) \in Nat
          /\ Begins(context, greedy) /\ Len(context) + Len(block) <= Len(greedy)
      BY <1>1, RoomForBlock DEF SpecInv, SpecType, TextInv
    <2>3. a \in Agrees(context) BY <2>2, AcceptedAgrees
    <2>4. a \in 0 .. Len(block) /\ \A i \in 1 .. a : block[i] = greedy[Len(context) + i]
      BY <1>1, <2>3, AgreedIsGreedy
    <2> HIDE DEF a
    <2>5. kv' = context
      <3>1. context \o block = context \o SubSeq(block, 1, Len(block)) BY <2>2
      <3> DEFINE d == context \o block
      <3>2. /\ d \in Seq(SpecVocabulary) /\ Len(d) = Len(context) + Len(block)
            /\ \A i \in 1 .. Len(context) : d[i] = context[i]
        BY <2>2
      <3>3. kv' = SubSeq(d, 1, Len(context)) BY <2>1 DEF RolledBack
      <3> HIDE DEF d
      <3>4. /\ kv' \in Seq(SpecVocabulary) /\ Len(kv') = Len(context)
            /\ \A i \in 1 .. Len(context) : kv'[i] = context[i]
        BY <2>2, <3>2, <3>3
      <3> QED BY <2>2, <3>4
    <2>6. StatsInv'
      <3>1. specStats' = [drafted |-> specStats.drafted + Len(block), accepted |-> specStats.accepted + a,
                          rejected |-> specStats.rejected + (Len(block) - a)]
        BY <2>1 DEF Record
      <3>2. /\ specStats.drafted \in Nat /\ specStats.accepted \in Nat /\ specStats.rejected \in Nat
            /\ specStats.accepted + specStats.rejected = specStats.drafted
        BY DEF SpecInv, StatsInv
      <3>3. a \in Nat /\ Len(block) - a \in Nat BY <2>2, <2>4
      <3>4. /\ specStats'.drafted = specStats.drafted + Len(block) /\ specStats'.accepted = specStats.accepted + a
            /\ specStats'.rejected = specStats.rejected + (Len(block) - a)
        BY <3>1
      <3>7. /\ specStats.drafted + Len(block) \in Nat /\ specStats.accepted + a \in Nat
            /\ specStats.rejected + (Len(block) - a) \in Nat
        BY <2>2, <3>2, <3>3, SMTT(40)
      <3>5. specStats' \in [drafted : Nat, accepted : Nat, rejected : Nat] BY <3>1, <3>7, Zenon
      <3>6. specStats'.accepted + specStats'.rejected = specStats'.drafted BY <2>2, <3>2, <3>3, <3>4
      <3> QED BY <3>5, <3>6 DEF StatsInv
    <2>7. /\ tokens \in Seq(SpecVocabulary) /\ Len(tokens) <= Len(block)
          /\ \A i \in 1 .. Len(tokens) : tokens[i] = greedy[Len(context) + i]
      <3> DEFINE e == SubSeq(block, 1, a)
      <3>1. e \in Seq(SpecVocabulary) /\ Len(e) = a /\ \A i \in 1 .. a : e[i] = block[i] BY <2>2, <2>4
      <3>2. CASE a = Len(block)
        <4>1. tokens = e \o <<>> BY <3>2
        <4> HIDE DEF e, tokens
        <4>2. tokens = e BY <3>1, <4>1
        <4> QED BY <2>2, <2>4, <3>1, <3>2, <4>2
      <3>3. CASE a # Len(block)
        <4>1. tokens = e \o <<Predict(context \o e)>> BY <3>3
        <4> DEFINE d == context \o e
        <4>2. /\ d \in Seq(SpecVocabulary) /\ Len(d) = Len(context) + a
              /\ \A i \in 1 .. Len(context) : d[i] = context[i]
              /\ \A i \in 1 .. a : d[Len(context) + i] = block[i]
          BY <2>2, <2>4, Extended
        <4> HIDE DEF d
        <4>3. ASSUME NEW i \in 1 .. Len(d) PROVE d[i] = greedy[i]
          <5>1. CASE i \in 1 .. Len(context) BY <2>2, <4>2, <5>1 DEF Begins
          <5>2. CASE i \notin 1 .. Len(context)
            <6>1. i - Len(context) \in 1 .. a /\ Len(context) + (i - Len(context)) = i BY <2>2, <2>4, <4>2, <5>2
            <6> QED BY <2>4, <4>2, <6>1
          <5> QED BY <5>1, <5>2
        <4>4. a \in Nat /\ a + 1 <= Len(block) /\ Len(d) + 1 \in 1 .. Len(greedy) BY <2>2, <2>4, <3>3, <4>2
        <4>5. Begins(d, greedy) BY <2>2, <4>2, <4>3, <4>4 DEF Begins
        <4>6. Predict(d) = greedy[Len(d) + 1] BY <2>2, <4>2, <4>5, PredictNext
        <4>7. Predict(d) \in SpecVocabulary BY <2>2, <4>4, <4>6
        <4>8. tokens = e \o <<Predict(d)>> BY <4>1 DEF d
        <4> HIDE DEF e, tokens
        <4>9. /\ tokens \in Seq(SpecVocabulary) /\ Len(tokens) = a + 1
              /\ \A i \in 1 .. a : tokens[i] = e[i]
              /\ tokens[a + 1] = Predict(d)
          BY <3>1, <4>4, <4>7, <4>8
        <4>10. Len(d) + 1 = Len(context) + (a + 1) BY <2>2, <4>2, <4>4
        <4>11. ASSUME NEW i \in 1 .. Len(tokens) PROVE tokens[i] = greedy[Len(context) + i]
          <5>1. CASE i \in 1 .. a BY <2>4, <3>1, <4>9, <5>1
          <5>2. CASE i = a + 1 BY <4>6, <4>9, <4>10, <5>2
          <5> QED BY <4>4, <4>9, <5>1, <5>2
        <4> QED BY <4>4, <4>9, <4>11
      <3> QED BY <3>2, <3>3
    <2>8. Commit(tokens) BY <2>1
    <2> HIDE DEF tokens
    <2>9. Len(context) + Len(tokens) <= Len(greedy) BY <2>2, <2>7
    <2> QED BY <1>1, <2>1, <2>5, <2>6, <2>7, <2>8, <2>9, CommittedSafe
  <1> QED BY <1>2, <1>3

\* For every vocabulary, limit and length of drafts, whatever is drafted, planned,
\* accepted and rejected: the text of a speculative run is the one the target
\* generates alone, it ends at the end of the text or at the limit, and the
\* session's cache is a beginning of it (AdaptiveSpeculativeExecutor::run and step,
\* GgufSpeculativeSession::seat and verify).
THEOREM SpeculationCorrect == SpecSpec => []SpeculationIsGreedy
  <1>1. SpecInit => SpecInv
    <2> SUFFICES ASSUME SpecInit PROVE SpecInv OBVIOUS
    <2>1. SpecLength \in Nat /\ SpecPrompt \in Nat /\ SpecPrompt >= 1 /\ SpecPrompt <= SpecLength
      BY SpecAssumption DEF SpecLength
    <2>2. greedy \in [1 .. SpecLength -> SpecVocabulary] /\ specMax \in 0 .. SpecMaxTokens BY DEF SpecInit
    <2>3. greedy \in Seq(SpecVocabulary) /\ Len(greedy) = SpecLength BY <2>1, <2>2
    <2>4. /\ context \in Seq(SpecVocabulary) /\ Len(context) = SpecPrompt
          /\ \A i \in 1 .. SpecPrompt : context[i] = greedy[i]
      BY <2>1, <2>3 DEF SpecInit
    <2>5. specAt = "draft" /\ block = <<>> /\ kv = <<>> /\ kvLen = NoSpecSession BY DEF SpecInit
    <2>6. SpecType BY <2>2, <2>3, <2>4, <2>5, SpecAssumption DEF SpecType, SpecStage
    <2>7. Begins(context, greedy) BY <2>1, <2>3, <2>4 DEF Begins
    <2>8. Generated = 0 BY <2>1, <2>4 DEF Generated
    <2>9. TextInv BY <2>1, <2>2, <2>4, <2>5, <2>7, <2>8, SpecAssumption DEF TextInv
    <2>10. StatsInv BY DEF SpecInit, StatsInv
    <2> QED BY <2>5, <2>6, <2>9, <2>10 DEF SpecInv, SessionInv
  <1>2. SpecInv /\ [SpecNext]_specVars => SpecInv'
    <2> SUFFICES ASSUME SpecInv, [SpecNext]_specVars PROVE SpecInv' OBVIOUS
    <2>1. CASE UNCHANGED specVars
      BY <2>1 DEF specVars, SpecInv, SpecType, TextInv, SessionInv, StatsInv, Generated
    <2> QED BY <2>1, DraftSafe, PlanSafe, VerifySafe, OneSafe DEF SpecNext
  <1>3. SpecInv => SpeculationIsGreedy
    <2> SUFFICES ASSUME SpecInv PROVE SpeculationIsGreedy OBVIOUS
    <2>1. context \in Seq(SpecVocabulary) /\ kv \in Seq(SpecVocabulary) /\ greedy \in Seq(SpecVocabulary)
      BY DEF SpecInv, SpecType
    <2>2. IsPrefix(context, greedy) BY <2>1, PrefixBegins DEF SpecInv, TextInv
    <2>3. kvLen # NoSpecSession => kvLen = Len(kv) /\ IsPrefix(kv, context)
      BY <2>1, PrefixBegins DEF SpecInv, SessionInv
    <2> QED BY <2>2, <2>3 DEF SpecInv, TextInv, StatsInv, SpeculationIsGreedy, Last
  <1> QED BY <1>1, <1>2, <1>3, PTL DEF SpecSpec

-----------------------------------------------------------------------------
(* GPU devices and their memory *)

DriverInv ==
    /\ driver.open \in SUBSET (0 .. GpuDriverDevices) /\ driver.count \in Nat
    /\ driver.backend = "Metal" => driver.open = 0 .. driver.count - 1

\* A backend lists what detection finds, and selects from it.
DevicesInv ==
    /\ backendDevices = <<>> \/ backendDevices = CudaDevices \/ backendDevices = MetalDevices
    /\ driver.backend = "Cuda" => backendDevices = <<>> \/ backendDevices = CudaDevices
    /\ driver.backend = "Metal" => backendDevices = <<>> \/ backendDevices = MetalDevices
    /\ \A i \in backendActive : \E d \in ToSet(backendDevices) : d.index = i
    /\ gpuActive # NoDevice => gpuActive \in ToSet(gpuFound)

\* Ids are not given out again, and the total is that of the allocations alive.
AllocationsInv ==
    /\ gpuNextId \in Nat \ {0} /\ gpuPoolTotal \in Nat /\ gpuPoolTotal <= GpuPoolMax
    /\ DOMAIN gpuLive \in SUBSET (1 .. gpuNextId - 1) /\ gpuLive \in [DOMAIN gpuLive -> GpuSizes]
    /\ gpuMemory = gpuLive
    /\ gpuTotal = Total(gpuLive, DOMAIN gpuLive) /\ gpuTotal <= GpuCapacity

GpuInv == DriverInv /\ DevicesInv /\ AllocationsInv

LEMMA EmptyList == ToSet(<<>>) = {} /\ Len(<<>>) = 0
  BY DEF ToSet

LEMMA OpenAreNumbers ==
  ASSUME DriverInv
  PROVE  driver.open \in SUBSET Nat /\ IsFiniteSet(driver.open)
  <1>1. GpuDriverDevices \in Nat BY GpuAssumption
  <1>2. driver.open \in SUBSET Nat /\ \A i \in driver.open : i <= GpuDriverDevices BY <1>1 DEF DriverInv
  <1> QED BY <1>1, <1>2, FS_BoundedSetOfNaturals

LEMMA CudaListed ==
  ASSUME DriverInv, driver.backend = "Cuda", NEW i \in driver.open
  PROVE  \E d \in ToSet(CudaDevices) : d.index = i
  <1> DEFINE o == Ascending(driver.open)
             n == Cardinality(driver.open)
  <1>1. n \in Nat /\ DOMAIN o = 1 .. n /\ \E k \in 1 .. n : o[k] = i BY OpenAreNumbers, AscendingIs
  <1> HIDE DEF o, n
  <1>2. PICK k \in 1 .. n : o[k] = i BY <1>1
  <1>3. CudaDevices = [j \in DOMAIN o |-> CudaInfo(o[j])] BY DEF CudaDevices, o
  <1>4. CudaDevices[k] = CudaInfo(i) /\ k \in DOMAIN CudaDevices BY <1>1, <1>2, <1>3
  <1>5. CudaInfo(i) \in ToSet(CudaDevices) BY <1>4 DEF ToSet
  <1>6. CudaInfo(i).index = i BY DEF CudaInfo
  <1> QED BY <1>5, <1>6

LEMMA MetalListed ==
  ASSUME DriverInv, driver.backend = "Metal", NEW i \in Nat, i < Len(MetalDevices)
  PROVE  \E d \in ToSet(MetalDevices) : d.index = i
  <1> DEFINE c == driver.count
  <1>1. c \in Nat BY DEF DriverInv
  <1>2. MetalDevices = [k \in 1 .. c |-> MetalInfo(k - 1)] BY DEF MetalDevices
  <1> HIDE DEF c
  <1>3. Len(MetalDevices) = c BY <1>1, <1>2
  <1>4. i + 1 \in 1 .. c /\ (i + 1) - 1 = i BY <1>1, <1>3
  <1>5. MetalDevices[i + 1] = MetalInfo(i) /\ i + 1 \in DOMAIN MetalDevices BY <1>2, <1>4
  <1>6. MetalInfo(i) \in ToSet(MetalDevices) BY <1>5 DEF ToSet
  <1>7. MetalInfo(i).index = i BY DEF MetalInfo
  <1> QED BY <1>6, <1>7

LEMMA FirstOfJoined ==
  ASSUME NEW U, NEW a \in Seq(U), NEW b \in Seq(U), NEW x \in U
  PROVE  (<<x>> \o a \o b)[1] = x /\ 1 \in DOMAIN (<<x>> \o a \o b)
  <1> DEFINE s == <<x>>
             t == s \o a
  <1>1. s \in Seq(U) OBVIOUS
  <1>2. Len(s) = 1 /\ s[1] = x OBVIOUS
  <1> HIDE DEF s
  <1>3. t \in Seq(U) BY <1>1
  <1>4. Len(t) = Len(s) + Len(a) BY <1>1
  <1>5. Len(a) \in Nat OBVIOUS
  <1>6. t[1] = x BY <1>1, <1>2, <1>4, <1>5
  <1> HIDE DEF t
  <1>7. Len(t \o b) = Len(t) + Len(b) /\ Len(b) \in Nat /\ t \o b \in Seq(U) BY <1>3
  <1>8. 1 \in DOMAIN (t \o b) BY <1>2, <1>4, <1>5, <1>7
  <1>9. (t \o b)[1] = x BY <1>2, <1>3, <1>4, <1>5, <1>6, <1>7
  <1> QED BY <1>8, <1>9 DEF t, s

LEMMA CpuDetected == ASSUME DriverInv PROVE GpuCpu \in ToSet(DetectedDevices)
  <1>1. CudaDevices \in Seq(ToSet(CudaDevices))
    <2>1. CASE driver.backend # "Cuda"
      <3>1. CudaDevices = <<>> BY <2>1 DEF CudaDevices
      <3> QED BY <3>1
    <2>2. CASE driver.backend = "Cuda"
      <3> DEFINE o == Ascending(driver.open)
                 n == Cardinality(driver.open)
      <3>1. n \in Nat /\ DOMAIN o = 1 .. n BY OpenAreNumbers, AscendingIs
      <3> HIDE DEF o, n
      <3>2. CudaDevices = [j \in 1 .. n |-> CudaInfo(o[j])] BY <2>2, <3>1 DEF CudaDevices, o
      <3>3. \A j \in 1 .. n : CudaDevices[j] \in ToSet(CudaDevices) BY <3>2 DEF ToSet
      <3>4. CudaDevices \in [1 .. n -> ToSet(CudaDevices)] BY <3>2, <3>3
      <3> QED BY <3>1, <3>4
    <2> QED BY <2>1, <2>2
  <1>2. MetalDevices \in Seq(ToSet(MetalDevices))
    <2>1. CASE driver.backend # "Metal"
      <3>1. MetalDevices = <<>> BY <2>1 DEF MetalDevices
      <3> QED BY <3>1
    <2>2. CASE driver.backend = "Metal"
      <3> DEFINE c == driver.count
      <3>1. c \in Nat BY DEF DriverInv
      <3>2. MetalDevices = [k \in 1 .. c |-> MetalInfo(k - 1)] BY <2>2 DEF MetalDevices
      <3> HIDE DEF c
      <3>3. \A j \in 1 .. c : MetalDevices[j] \in ToSet(MetalDevices) BY <3>2 DEF ToSet
      <3>4. MetalDevices \in [1 .. c -> ToSet(MetalDevices)] BY <3>2, <3>3
      <3> QED BY <3>1, <3>4
    <2> QED BY <2>1, <2>2
  <1> DEFINE U == ToSet(CudaDevices) \union ToSet(MetalDevices) \union {GpuCpu}
  <1>3. CudaDevices \in Seq(U) /\ MetalDevices \in Seq(U) /\ GpuCpu \in U BY <1>1, <1>2
  <1>4. (<<GpuCpu>> \o CudaDevices \o MetalDevices)[1] = GpuCpu /\ 1 \in DOMAIN (<<GpuCpu>> \o CudaDevices \o MetalDevices)
    BY <1>3, FirstOfJoined
  <1> QED BY <1>4 DEF DetectedDevices, ToSet

LEMMA GpuInitial == GpuDevicesInit => GpuInv
  <1> SUFFICES ASSUME GpuDevicesInit PROVE GpuInv OBVIOUS
  <1>1. DriverInv
    <2>1. driver.open \in SUBSET (0 .. GpuDriverDevices - 1) /\ driver.count \in 0 .. GpuDriverDevices
      BY DEF GpuDevicesInit
    <2>2. driver.backend = "Metal" => driver.open = 0 .. driver.count - 1 BY DEF GpuDevicesInit
    <2>3. GpuDriverDevices \in Nat BY GpuAssumption
    <2> QED BY <2>1, <2>2, <2>3 DEF DriverInv
  <1>2. DevicesInv BY DEF GpuDevicesInit, DevicesInv
  <1>3. AllocationsInv
    <2>1. /\ gpuLive = [i \in {} |-> 0] /\ gpuTotal = 0 /\ gpuNextId = 1
          /\ gpuMemory = [i \in {} |-> 0] /\ gpuPoolTotal = 0
      BY DEF GpuDevicesInit, GpuAllocatorInit
    <2>2. DOMAIN gpuLive = {} BY <2>1
    <2>3. Units(gpuLive, DOMAIN gpuLive) = {} BY <2>2 DEF Units
    <2>4. Total(gpuLive, DOMAIN gpuLive) = 0 BY <2>3, FS_EmptySet DEF Total
    <2>5. gpuLive \in [DOMAIN gpuLive -> GpuSizes] BY <2>1
    <2> QED BY <2>1, <2>2, <2>4, <2>5, GpuAssumption DEF AllocationsInv
  <1> QED BY <1>1, <1>2, <1>3 DEF GpuInv

LEMMA LiveFinite ==
  ASSUME AllocationsInv
  PROVE  /\ IsFiniteSet(DOMAIN gpuLive) /\ gpuTotal \in Nat /\ GpuCapacity \in Nat
         /\ \A i \in DOMAIN gpuLive : gpuLive[i] \in Nat /\ gpuLive[i] <= GpuCapacity + 1
  <1>1. GpuCapacity \in Nat /\ gpuNextId \in Nat \ {0} BY GpuAssumption DEF AllocationsInv
  <1>2. DOMAIN gpuLive \in SUBSET Nat /\ \A i \in DOMAIN gpuLive : i <= gpuNextId BY <1>1 DEF AllocationsInv
  <1>3. IsFiniteSet(DOMAIN gpuLive) BY <1>1, <1>2, FS_BoundedSetOfNaturals
  <1>4. \A i \in DOMAIN gpuLive : gpuLive[i] \in Nat /\ gpuLive[i] <= GpuCapacity + 1
    <2>1. \A x \in GpuSizes : x \in Nat /\ x <= GpuCapacity + 1 BY <1>1 DEF GpuSizes
    <2> QED BY <2>1 DEF AllocationsInv
  <1>5. GpuCapacity + 1 \in Nat BY <1>1
  <1>6. gpuTotal \in Nat BY <1>3, <1>4, <1>5, TotalFinite DEF AllocationsInv
  <1> QED BY <1>1, <1>3, <1>4, <1>6

LEMMA AllocateStep ==
  ASSUME AllocationsInv, NEW size \in GpuSizes, GpuAllocate(size),
         gpuPoolTotal' \in Nat, gpuPoolTotal' <= GpuPoolMax
  PROVE  AllocationsInv'
  <1> DEFINE n == gpuNextId
             D == DOMAIN gpuLive
             B == GpuCapacity + 1
  <1>1. /\ gpuLive' = [i \in D \union {n} |-> IF i = n THEN size ELSE gpuLive[i]]
        /\ gpuTotal' = gpuTotal + size /\ gpuNextId' = n + 1 /\ gpuTotal + size <= GpuCapacity
    BY DEF GpuAllocate, AllocatorFits
  <1>2. gpuMemory' = gpuLive' BY DEF GpuAllocate, AllocationsInv
  <1>3. n \in Nat \ {0} /\ D \in SUBSET (1 .. n - 1) BY DEF AllocationsInv
  <1>4. n \notin D BY <1>3
  <1>5. /\ IsFiniteSet(D) /\ gpuTotal \in Nat /\ B \in Nat
        /\ \A i \in D : gpuLive[i] \in Nat /\ gpuLive[i] <= B
    BY LiveFinite
  <1>6. size \in Nat /\ size <= B BY LiveFinite DEF GpuSizes
  <1> HIDE DEF n, D, B
  <1>7. DOMAIN gpuLive' = D \union {n} /\ gpuLive'[n] = size /\ \A i \in D : gpuLive'[i] = gpuLive[i] BY <1>1, <1>4
  <1>8. gpuLive' \in [DOMAIN gpuLive' -> GpuSizes] BY <1>1, <1>7 DEF AllocationsInv, D
  <1>9. \A i \in D \union {n} : gpuLive'[i] \in Nat /\ gpuLive'[i] <= B BY <1>5, <1>6, <1>7
  <1>10. Total(gpuLive', D \union {n}) = Total(gpuLive', D) + gpuLive'[n]
    <2> DEFINE f == gpuLive'
    <2>1. \A i \in D \union {n} : f[i] \in Nat /\ f[i] <= B BY <1>9
    <2> HIDE DEF f
    <2>2. Total(f, D \union {n}) = Total(f, D) + f[n] BY <1>4, <1>5, <2>1, TotalJoins
    <2> QED BY <2>2 DEF f
  <1>11. Total(gpuLive', D) = Total(gpuLive, D) BY <1>7, TotalSame
  <1>12. Total(gpuLive', DOMAIN gpuLive') = gpuTotal' BY <1>1, <1>7, <1>10, <1>11 DEF AllocationsInv, D
  <1>13. DOMAIN gpuLive' \in SUBSET (1 .. gpuNextId' - 1) /\ gpuNextId' \in Nat \ {0} BY <1>1, <1>3, <1>7
  <1> QED BY <1>1, <1>2, <1>8, <1>12, <1>13 DEF AllocationsInv

LEMMA DropStep ==
  ASSUME AllocationsInv, NEW id, DropGpuMemory(id) PROVE AllocationsInv'
  <1> DEFINE D == DOMAIN gpuLive
             B == GpuCapacity + 1
             E == D \ {id}
  <1>1. /\ id \in D /\ gpuLive' = [i \in E |-> gpuLive[i]] /\ gpuTotal' = gpuTotal - gpuLive[id]
        /\ gpuMemory' = gpuLive' /\ UNCHANGED <<gpuNextId, gpuPoolTotal>>
    BY DEF DropGpuMemory, Deallocate, AllocationsInv
  <1>2. /\ IsFiniteSet(D) /\ gpuTotal \in Nat /\ B \in Nat /\ GpuCapacity \in Nat
        /\ \A i \in D : gpuLive[i] \in Nat /\ gpuLive[i] <= B
    BY LiveFinite
  <1>3. gpuTotal = Total(gpuLive, D) /\ gpuTotal <= GpuCapacity BY DEF AllocationsInv
  <1>4. D \in SUBSET (1 .. gpuNextId - 1) /\ gpuLive \in [D -> GpuSizes] BY DEF AllocationsInv
  <1> HIDE DEF D, B
  <1>5. Total(gpuLive, E) = Total(gpuLive, D) - gpuLive[id] BY <1>1, <1>2, TotalLeaves
  <1>6. DOMAIN gpuLive' = E /\ \A i \in E : gpuLive'[i] = gpuLive[i] BY <1>1
  <1>7. Total(gpuLive', E) = Total(gpuLive, E) BY <1>6, TotalSame
  <1>8. gpuTotal' = Total(gpuLive', DOMAIN gpuLive') BY <1>1, <1>3, <1>5, <1>6, <1>7
  <1>9. gpuTotal' <= GpuCapacity BY <1>1, <1>2, <1>3
  <1>10. gpuLive' \in [DOMAIN gpuLive' -> GpuSizes] /\ DOMAIN gpuLive' \in SUBSET (1 .. gpuNextId' - 1) BY <1>1, <1>4, <1>6
  <1> QED BY <1>1, <1>8, <1>9, <1>10 DEF AllocationsInv

\* The driver stays as it is, and so does what detection finds.
LEMMA DriverStays ==
  ASSUME GpuInv, UNCHANGED driver
  PROVE  DriverInv' /\ CudaDevices' = CudaDevices /\ MetalDevices' = MetalDevices /\ DetectedDevices' = DetectedDevices
  <1>1. DriverInv' BY DEF GpuInv, DriverInv
  <1>2. CudaDevices' = CudaDevices /\ MetalDevices' = MetalDevices BY DEF CudaDevices, MetalDevices, CudaInfo, MetalInfo
  <1> QED BY <1>1, <1>2 DEF DetectedDevices

LEMMA MemoryStep == ASSUME GpuInv, GpuMemoryNext PROVE GpuInv'
  <1>1. CASE NewManager
    <2>1. /\ gpuFound' = DetectedDevices
          /\ gpuActive' = IF NoDevicesAvailable THEN NoDevice
                          ELSE IF Matching # {} THEN CHOOSE d \in Matching : TRUE
                          ELSE IF gpuConfig.backend # "Cpu" THEN GpuCpu ELSE NoDevice
          /\ UNCHANGED <<driver, gpuConfig, backendDevices, backendActive, gpuMemoryVars>>
      BY <1>1 DEF NewManager
    <2>2. Matching # {} => (CHOOSE d \in Matching : TRUE) \in ToSet(DetectedDevices) BY DEF Matching
    <2>3. gpuActive' # NoDevice => gpuActive' \in ToSet(gpuFound') BY <2>1, <2>2, CpuDetected DEF GpuInv
    <2>4. AllocationsInv' BY <2>1 DEF GpuInv, AllocationsInv, gpuMemoryVars
    <2>5. DevicesInv' BY <2>1, <2>3, DriverStays DEF GpuInv, DevicesInv
    <2> QED BY <2>1, <2>4, <2>5, DriverStays DEF GpuInv
  <1>2. ASSUME UNCHANGED gpuDeviceVars, AllocationsInv' PROVE GpuInv'
    <2>1. UNCHANGED <<driver, gpuFound, gpuActive, backendDevices, backendActive>> BY <1>2 DEF gpuDeviceVars
    <2>2. DevicesInv' BY <2>1, DriverStays DEF GpuInv, DevicesInv
    <2> QED BY <1>2, <2>1, <2>2, DriverStays DEF GpuInv
  <1>3. ASSUME NEW size \in GpuSizes, AllocateMemory(size) PROVE GpuInv'
    <2>1. GpuAllocate(size) /\ UNCHANGED <<gpuDeviceVars, gpuPoolTotal>> BY <1>3 DEF AllocateMemory
    <2>2. AllocationsInv' BY <2>1, AllocateStep DEF GpuInv, AllocationsInv
    <2> QED BY <1>2, <2>1, <2>2
  <1>4. ASSUME NEW size \in GpuSizes, PoolAllocate(size) PROVE GpuInv'
    <2>1. /\ gpuPoolTotal + size <= GpuPoolMax /\ gpuPoolTotal' = gpuPoolTotal + size
          /\ GpuAllocate(size) /\ UNCHANGED gpuDeviceVars
      BY <1>4 DEF PoolAllocate
    <2>2. size \in Nat /\ gpuPoolTotal \in Nat /\ AllocationsInv BY GpuAssumption DEF GpuSizes, GpuInv, AllocationsInv
    <2>3. gpuPoolTotal' \in Nat /\ gpuPoolTotal' <= GpuPoolMax BY <2>1, <2>2
    <2>4. AllocationsInv' BY <2>1, <2>2, <2>3, AllocateStep
    <2> QED BY <1>2, <2>1, <2>4
  <1>5. ASSUME NEW id \in GpuAllocationIds, DropGpuMemory(id) PROVE GpuInv'
    <2>1. AllocationsInv' BY <1>5, DropStep DEF GpuInv
    <2> QED BY <1>2, <1>5, <2>1 DEF DropGpuMemory
  <1> QED BY <1>1, <1>3, <1>4, <1>5 DEF GpuMemoryNext

LEMMA DeviceStep == ASSUME GpuInv, GpuDeviceNext PROVE GpuInv'
  <1>1. /\ UNCHANGED <<driver, gpuFound, gpuActive>>
        /\ UNCHANGED <<gpuLive, gpuTotal, gpuNextId, gpuMemory, gpuPoolTotal>>
    BY DEF GpuDeviceNext, NewCudaBackend, NewMetalBackend, SelectCudaDevice, SelectMetalDevice, AllocBuffer,
           CopyFromHost, CopyFromDevice, gpuDeviceVars, gpuMemoryVars
  <1>2. AllocationsInv' BY <1>1 DEF GpuInv, AllocationsInv
  <1>3. ASSUME NewCudaBackend \/ NewMetalBackend PROVE DevicesInv'
    <2>1. backendDevices = <<>> /\ UNCHANGED backendActive BY <1>3 DEF NewCudaBackend, NewMetalBackend
    <2>2. backendActive = {} BY <2>1, EmptyList DEF GpuInv, DevicesInv
    <2>3. (driver.backend = "Cuda" /\ backendDevices' = CudaDevices) \/ (driver.backend = "Metal" /\ backendDevices' = MetalDevices)
      BY <1>3 DEF NewCudaBackend, NewMetalBackend
    <2> QED BY <1>1, <2>1, <2>2, <2>3, DriverStays DEF GpuInv, DevicesInv
  <1>4. ASSUME NEW i \in 0 .. GpuDriverDevices, SelectCudaDevice(i) PROVE DevicesInv'
    <2>1. driver.backend = "Cuda" /\ i < Len(backendDevices) /\ i \in driver.open /\ backendActive' = {i} /\ UNCHANGED backendDevices
      BY <1>4 DEF SelectCudaDevice
    <2>2. i \in Nat BY GpuAssumption
    <2>3. backendDevices # <<>> BY <2>1, <2>2, EmptyList
    <2>4. backendDevices = CudaDevices BY <2>1, <2>3 DEF GpuInv, DevicesInv
    <2>5. \E d \in ToSet(CudaDevices) : d.index = i BY <2>1, CudaListed DEF GpuInv
    <2> QED BY <1>1, <2>1, <2>4, <2>5, DriverStays DEF GpuInv, DevicesInv
  <1>5. ASSUME NEW i \in 0 .. GpuDriverDevices, SelectMetalDevice(i) PROVE DevicesInv'
    <2>1. driver.backend = "Metal" /\ i < Len(backendDevices) /\ backendActive' = {i} /\ UNCHANGED backendDevices
      BY <1>5 DEF SelectMetalDevice
    <2>2. i \in Nat BY GpuAssumption
    <2>3. backendDevices # <<>> BY <2>1, <2>2, EmptyList
    <2>4. backendDevices = MetalDevices BY <2>1, <2>3 DEF GpuInv, DevicesInv
    <2>5. \E d \in ToSet(MetalDevices) : d.index = i BY <2>1, <2>2, <2>4, MetalListed DEF GpuInv
    <2> QED BY <1>1, <2>1, <2>4, <2>5, DriverStays DEF GpuInv, DevicesInv
  <1>6. ASSUME UNCHANGED <<backendDevices, backendActive>> PROVE DevicesInv'
    BY <1>1, <1>6, DriverStays DEF GpuInv, DevicesInv
  <1>7. ASSUME NEW b \in GpuBufferIds, NEW src \in GpuBufferIds, NEW size,
               AllocBuffer(b, size) \/ CopyFromHost(b, size) \/ CopyFromDevice(b, src)
        PROVE  UNCHANGED <<backendDevices, backendActive>>
    BY <1>7 DEF AllocBuffer, CopyFromHost, CopyFromDevice, gpuDeviceVars
  <1>8. DevicesInv' BY <1>3, <1>4, <1>5, <1>6, <1>7 DEF GpuDeviceNext
  <1> QED BY <1>1, <1>2, <1>8, DriverStays DEF GpuInv

LEMMA GpuStep == GpuInv /\ [GpuDevicesNext]_gpuVars => GpuInv'
  <1> SUFFICES ASSUME GpuInv, [GpuDevicesNext]_gpuVars PROVE GpuInv' OBVIOUS
  <1>1. CASE UNCHANGED gpuVars
    <2>1. UNCHANGED <<driver, gpuConfig, gpuFound, gpuActive, backendDevices, backendActive,
                      gpuLive, gpuTotal, gpuNextId, gpuMemory, gpuPoolTotal>>
      BY <1>1 DEF gpuVars
    <2>2. AllocationsInv' BY <2>1 DEF GpuInv, AllocationsInv
    <2>3. DevicesInv' BY <2>1, DriverStays DEF GpuInv, DevicesInv
    <2> QED BY <2>1, <2>2, <2>3, DriverStays DEF GpuInv
  <1> QED BY <1>1, MemoryStep, DeviceStep DEF GpuDevicesNext

LEMMA GpuSafe == GpuInv => GpuAccounted
  BY DEF GpuInv, DevicesInv, AllocationsInv, GpuAccounted

-----------------------------------------------------------------------------
(* Work divided over devices and experts *)

LEMMA Quotient ==
  ASSUME NEW n \in Nat, NEW g \in Nat \ {0}
  PROVE  n \div g \in Nat /\ n % g \in 0 .. g - 1 /\ n = g * (n \div g) + (n % g)
  <1>1. n % g \in 0 .. g - 1 OBVIOUS
  <1>2. n = g * (n \div g) + (n % g) OBVIOUS
  <1>3. n \div g \in Nat OBVIOUS
  <1> QED BY <1>1, <1>2, <1>3

\* Share j when the first r take one more than q, and what the first i add up to.
ShareOf(q, r, j) == q + (IF j <= r THEN 1 ELSE 0)
SharesTo(q, r, i) == i * q + (IF i <= r THEN i ELSE r)

LEMMA SharesStep ==
  ASSUME NEW q \in Nat, NEW r \in Nat, NEW k \in Nat
  PROVE  /\ SharesTo(q, r, k) \in Nat /\ ShareOf(q, r, k + 1) \in {q, q + 1}
         /\ SharesTo(q, r, k + 1) = SharesTo(q, r, k) + ShareOf(q, r, k + 1)
         /\ SharesTo(q, r, 0) = 0
  <1>1. (k + 1) * q = k * q + q /\ k * q \in Nat /\ 0 * q = 0 OBVIOUS
  <1> QED BY <1>1 DEF ShareOf, SharesTo

LEMMA SharesAddUp ==
  ASSUME NEW g \in Nat, NEW q \in Nat, NEW r \in Nat, NEW f, \A j \in 1 .. g : f[j] = ShareOf(q, r, j)
  PROVE  \A i \in 0 .. g : Total(f, 1 .. i) = SharesTo(q, r, i)
  <1> DEFINE Bad == {i \in 0 .. g : Total(f, 1 .. i) # SharesTo(q, r, i)}
  <1>1. Bad \in SUBSET Nat OBVIOUS
  <1> SUFFICES ASSUME Bad # {} PROVE FALSE OBVIOUS
  <1>2. PICK i \in Bad : \A k \in Bad : i <= k BY <1>1, FirstOfNumbers
  <1>3. i \in 0 .. g /\ Total(f, 1 .. i) # SharesTo(q, r, i) BY <1>2
  <1>4. CASE i = 0
    <2>1. 1 .. i = {} BY <1>4
    <2>2. Units(f, 1 .. i) = {} BY <2>1 DEF Units
    <2>3. Total(f, 1 .. i) = 0 BY <2>2, FS_EmptySet DEF Total
    <2> QED BY <1>3, <1>4, <2>3, SharesStep
  <1>5. CASE i # 0
    <2> DEFINE k == i - 1
    <2>1. k \in 0 .. g /\ k \in Nat /\ i = k + 1 /\ i \in 1 .. g /\ k < i BY <1>3, <1>5
    <2> HIDE DEF k
    <2>2. Total(f, 1 .. k) = SharesTo(q, r, k) BY <1>2, <2>1
    <2>3. \A y \in 1 .. k + 1 : f[y] \in Nat /\ f[y] <= q + 1
      <3> SUFFICES ASSUME NEW y \in 1 .. k + 1 PROVE f[y] \in Nat /\ f[y] <= q + 1 OBVIOUS
      <3> DEFINE l == y - 1
      <3>1. y \in 1 .. g /\ l \in Nat /\ y = l + 1 BY <2>1
      <3> HIDE DEF l
      <3>2. f[y] = ShareOf(q, r, l + 1) BY <3>1
      <3>3. ShareOf(q, r, l + 1) \in {q, q + 1} BY <3>1, SharesStep
      <3> QED BY <3>2, <3>3
    <2> DEFINE B == q + 1
    <2>4. B \in Nat /\ \A y \in 1 .. k + 1 : f[y] \in Nat /\ f[y] <= B BY <2>3
    <2> HIDE DEF B
    <2>5. Total(f, 1 .. k + 1) = Total(f, 1 .. k) + f[k + 1] BY <2>1, <2>4, TotalNext
    <2>6. f[k + 1] = ShareOf(q, r, k + 1) BY <2>1
    <2> QED BY <1>3, <2>1, <2>2, <2>5, <2>6, SharesStep
  <1> QED BY <1>3, <1>4, <1>5

\* partition_by_layers: the parts follow on each other, cover the layers and
\* differ by one layer at most.
LEMMA LayersDivided ==
  ASSUME NEW n \in Nat, gpus \in Nat, gpus > 0
  PROVE  LET p == PartitionByLayers(n) IN
         /\ p[1][1] = 0 /\ p[gpus][2] = n
         /\ \A i \in 1 .. gpus - 1 : p[i][2] = p[i + 1][1]
         /\ \A i, j \in 1 .. gpus : p[i][2] - p[i][1] <= p[j][2] - p[j][1] + 1
  <1> DEFINE q == n \div gpus
             r == n % gpus
             f == [j \in 1 .. gpus |-> ShareOf(q, r, j)]
             T(i) == SharesTo(q, r, i)
             p == PartitionByLayers(n)
  <1>1. q \in Nat /\ r \in 0 .. gpus - 1 /\ r \in Nat /\ n = gpus * q + r BY Quotient
  <1>2. p = [i \in 1 .. gpus |-> <<Total(f, 1 .. i - 1), Total(f, 1 .. i - 1) + ShareOf(q, r, i)>>]
    BY DEF PartitionByLayers, ShareOf
  <1> HIDE DEF q, r, p
  <1>3. \A j \in 1 .. gpus : f[j] = ShareOf(q, r, j) OBVIOUS
  <1> HIDE DEF f
  <1>4. \A i \in 0 .. gpus : Total(f, 1 .. i) = T(i) BY <1>1, <1>3, SharesAddUp
  <1>5. \A i \in 1 .. gpus : T(i) = T(i - 1) + ShareOf(q, r, i) /\ T(i - 1) \in Nat /\ ShareOf(q, r, i) \in {q, q + 1}
    <2> SUFFICES ASSUME NEW i \in 1 .. gpus
                 PROVE  T(i) = T(i - 1) + ShareOf(q, r, i) /\ T(i - 1) \in Nat /\ ShareOf(q, r, i) \in {q, q + 1}
      OBVIOUS
    <2> DEFINE k == i - 1
    <2>1. k \in Nat /\ i = k + 1 OBVIOUS
    <2> HIDE DEF k
    <2>2. T(k + 1) = T(k) + ShareOf(q, r, k + 1) /\ T(k) \in Nat /\ ShareOf(q, r, k + 1) \in {q, q + 1}
      BY <1>1, <2>1, SharesStep
    <2> QED BY <2>1, <2>2 DEF k
  <1>6. T(0) = 0 /\ T(gpus) = n
    <2>1. T(gpus) = gpus * q + r BY <1>1 DEF SharesTo
    <2> QED BY <1>1, <2>1, SharesStep
  <1> HIDE DEF T
  <1>7. \A i \in 1 .. gpus : p[i][1] = T(i - 1) /\ p[i][2] = T(i)
    <2> SUFFICES ASSUME NEW i \in 1 .. gpus PROVE p[i][1] = T(i - 1) /\ p[i][2] = T(i) OBVIOUS
    <2>1. i - 1 \in 0 .. gpus OBVIOUS
    <2> QED BY <1>2, <1>4, <1>5, <2>1
  <1>8. p[1][1] = 0 BY <1>6, <1>7
  <1>9. p[gpus][2] = n BY <1>6, <1>7
  <1>10. \A i \in 1 .. gpus - 1 : p[i][2] = p[i + 1][1] BY <1>7
  <1>11. \A i, j \in 1 .. gpus : p[i][2] - p[i][1] <= p[j][2] - p[j][1] + 1
    <2>1. ASSUME NEW i \in 1 .. gpus PROVE p[i][2] - p[i][1] \in {q, q + 1}
      <3>1. p[i][2] = T(i - 1) + ShareOf(q, r, i) /\ p[i][1] = T(i - 1) /\ T(i - 1) \in Nat BY <1>5, <1>7
      <3> QED BY <1>1, <1>5, <3>1
    <2>2. ASSUME NEW i \in 1 .. gpus, NEW j \in 1 .. gpus
          PROVE  p[i][2] - p[i][1] <= p[j][2] - p[j][1] + 1
      BY <1>1, <2>1
    <2> QED BY <2>2
  <1> QED BY <1>8, <1>9, <1>10, <1>11 DEF p

\* The micro-batches follow on each other and the last ends with the input.
LEMMA BatchBounds ==
  ASSUME NEW n \in Nat, NEW c \in 1 .. n, NEW i \in 1 .. c
  PROVE  LET size == n \div c
             lo(j) == (j - 1) * size
             hi(j) == IF j = c THEN n ELSE j * size
         IN  /\ lo(i) \in Nat /\ hi(i) \in Nat /\ lo(i) <= hi(i) /\ hi(i) <= n
             /\ i = 1 => lo(i) = 0
             /\ i # 1 => hi(i - 1) = lo(i)
  <1> DEFINE size == n \div c
             d == c - i
             e == i - 1
  <1>1. size \in Nat /\ n >= c * size
    <2>1. c \in Nat \ {0} OBVIOUS
    <2>2. size \in Nat /\ n % c \in 0 .. c - 1 /\ n = c * size + (n % c) BY <2>1, Quotient
    <2>3. c * size \in Nat BY <2>1, <2>2
    <2> HIDE DEF size
    <2> QED BY <2>1, <2>2, <2>3
  <1>2. d \in Nat /\ e \in Nat /\ c = i + d /\ i = e + 1 /\ i \in Nat OBVIOUS
  <1> HIDE DEF size, d
  <1>3. c * size = i * size + d * size /\ i * size \in Nat /\ d * size \in Nat BY <1>1, <1>2
  <1>4. i * size = e * size + size /\ e * size \in Nat BY <1>1, <1>2
  <1>5. i * size <= n /\ e * size <= i * size BY <1>1, <1>3, <1>4
  <1>6. i = 1 => e * size = 0 BY <1>1
  <1>7. i # 1 => (IF i - 1 = c THEN n ELSE (i - 1) * size) = (i - 1) * size OBVIOUS
  <1> DEFINE lo(j) == (j - 1) * size
             hi(j) == IF j = c THEN n ELSE j * size
  <1>8. lo(i) \in Nat /\ hi(i) \in Nat /\ lo(i) <= hi(i) /\ hi(i) <= n BY <1>3, <1>4, <1>5
  <1>9. i = 1 => lo(i) = 0 BY <1>6
  <1>10. i # 1 => hi(i - 1) = lo(i) BY <1>7
  <1> QED BY <1>8, <1>9, <1>10 DEF size

LEMMA MicroBatchIs ==
  ASSUME NEW n \in Nat, NEW lo \in Nat, NEW hi \in Nat, lo <= hi, hi <= n
  PROVE  LET mb == SubSeq(Inputs(n), lo + 1, hi) IN
         DOMAIN mb = 1 .. hi - lo /\ \A k \in 1 .. hi - lo : mb[k] = <<lo + k>>
  <1> DEFINE W == {<<k>> : k \in 1 .. n}
             s == Inputs(n)
             mb == SubSeq(s, lo + 1, hi)
  <1>1. s \in Seq(W) /\ Len(s) = n BY DEF Inputs
  <1>2. \A k \in 1 .. n : s[k] = <<k>> BY DEF Inputs
  <1> HIDE DEF W, s
  <1>3. DOMAIN mb = 1 .. hi - lo BY <1>1
  <1>4. ASSUME NEW k \in 1 .. hi - lo PROVE mb[k] = <<lo + k>>
    <2>1. mb[k] = s[lo + k] BY <1>1
    <2>2. lo + k \in 1 .. n OBVIOUS
    <2> QED BY <1>2, <2>1, <2>2
  <1> QED BY <1>3, <1>4 DEF s

\* What leaves the pipeline: every element in its place, after every stage.
PipelineDone(n, c, stages) ==
  [i \in 1 .. c |-> LET mb == MicroBatch(n, c, i) IN [k \in DOMAIN mb |-> Through(mb[k], stages)]]

LEMMA PipelineJoins ==
  ASSUME NEW n \in Nat, NEW c \in 1 .. n, NEW stages
  PROVE  FlattenSeq(PipelineDone(n, c, stages)) = [k \in 1 .. n |-> <<k>> \o stages]
  <1> DEFINE X == [k \in 1 .. n |-> <<k>> \o stages]
             done == PipelineDone(n, c, stages)
             size == n \div c
             lo(i) == (i - 1) * size
             hi(i) == IF i = c THEN n ELSE i * size
             F == [i \in 1 .. c |-> [k \in 1 .. hi(i) |-> X[k]]]
  <1>1. ASSUME NEW i \in 1 .. c
        PROVE  /\ lo(i) \in Nat /\ hi(i) \in Nat /\ lo(i) <= hi(i) /\ hi(i) <= n
               /\ i = 1 => lo(i) = 0
               /\ i # 1 => hi(i - 1) = lo(i)
    BY BatchBounds
  <1>2. c \in Nat \ {0} /\ Len(done) = c BY DEF PipelineDone
  <1>3. \A i \in 1 .. c : done[i] = LET mb == SubSeq(Inputs(n), lo(i) + 1, hi(i)) IN
                                    [k \in DOMAIN mb |-> mb[k] \o stages]
    BY DEF PipelineDone, MicroBatch, Through
  <1>4. \A k \in 1 .. n : X[k] = <<k>> \o stages OBVIOUS
  <1>5. hi(c) = n OBVIOUS
  <1> HIDE DEF lo, hi, done
  <1>6. \A i \in 1 .. c : done[i] = [k \in 1 .. hi(i) - lo(i) |-> X[lo(i) + k]]
    <2> SUFFICES ASSUME NEW i \in 1 .. c PROVE done[i] = [k \in 1 .. hi(i) - lo(i) |-> X[lo(i) + k]] OBVIOUS
    <2> DEFINE l == lo(i)
               h == hi(i)
               mb == SubSeq(Inputs(n), l + 1, h)
    <2>1. l \in Nat /\ h \in Nat /\ l <= h /\ h <= n BY <1>1
    <2>2. done[i] = [k \in DOMAIN mb |-> mb[k] \o stages] BY <1>3
    <2> HIDE DEF l, h
    <2>3. DOMAIN mb = 1 .. h - l /\ \A k \in 1 .. h - l : mb[k] = <<l + k>> BY <2>1, MicroBatchIs
    <2> HIDE DEF mb
    <2>4. \A k \in 1 .. h - l : l + k \in 1 .. n BY <2>1
    <2> HIDE DEF X
    <2>5. \A k \in 1 .. h - l : mb[k] \o stages = X[l + k] BY <1>4, <2>3, <2>4
    <2>6. done[i] = [k \in 1 .. h - l |-> X[l + k]] BY <2>2, <2>3, <2>5
    <2> QED BY <2>6 DEF l, h
  <1>7. X = [k \in 1 .. n |-> X[k]] OBVIOUS
  <1> HIDE DEF X
  <1>8. \A i \in 1 .. c : F[i] = IF i = 1 THEN done[i] ELSE F[i - 1] \o done[i]
    <2> SUFFICES ASSUME NEW i \in 1 .. c PROVE F[i] = IF i = 1 THEN done[i] ELSE F[i - 1] \o done[i] OBVIOUS
    <2> DEFINE a == lo(i)
               b == hi(i) - lo(i)
    <2>1. a \in Nat /\ b \in Nat /\ a + b = hi(i) BY <1>1
    <2>2. F[i] = [k \in 1 .. hi(i) |-> X[k]] OBVIOUS
    <2>3. done[i] = [k \in 1 .. b |-> X[a + k]] BY <1>6
    <2>4. CASE i = 1
      <3>1. a = 0 BY <1>1, <2>4
      <3>2. b = hi(i) /\ \A k \in 1 .. b : a + k = k BY <2>1, <3>1
      <3> HIDE DEF a, b
      <3>3. done[i] = [k \in 1 .. hi(i) |-> X[k]] BY <2>3, <3>2
      <3> QED BY <2>2, <2>4, <3>3
    <2>5. CASE i # 1
      <3>1. i - 1 \in 1 .. c /\ hi(i - 1) = a BY <1>1, <2>5
      <3>2. F[i - 1] = [k \in 1 .. a |-> X[k]] BY <3>1
      <3> HIDE DEF a, b, F
      <3>3. F[i - 1] \o done[i] = [k \in 1 .. a + b |-> X[k]] BY <2>1, <2>3, <3>2, PiecesJoin
      <3> QED BY <2>1, <2>2, <2>5, <3>3
    <2> QED BY <2>4, <2>5
  <1>9. F = [i \in 1 .. c |-> F[i]] /\ F[c] = [k \in 1 .. n |-> X[k]] BY <1>2, <1>5
  <1> HIDE DEF F
  <1>10. F = [i \in 1 .. c |-> IF i = 1 THEN done[i] ELSE F[i - 1] \o done[i]] BY <1>8, <1>9
  <1>11. Flattens(F, done, c) BY <1>10 DEF Flattens
  <1>12. FlattenSeq(done) = F[c] BY <1>2, <1>11, FlattenIs
  <1> QED BY <1>7, <1>9, <1>12 DEF done, X

PartitionInv ==
  /\ gpus \in Nat /\ (gpus = 0 => strategy = "Auto")
  /\ strategy \in {"Layer", "Pipeline"} => layers \in Nat /\ partition = PartitionByLayers(layers)
RowsInv ==
  strategy \in {"Layer", "Pipeline"} => output.out = [k \in 1 .. output.in |-> <<k>> \o output.stages]
TokensInv ==
  /\ \E n \in Nat : DOMAIN routing = 1 .. n
  /\ \A t \in DOMAIN combined : \A k \in 1 .. MoeTopK : combined[t][k] = <<routing[t][k], t>>
WorkInv == PartitionInv /\ RowsInv /\ TokensInv

LEMMA NothingOut == NoOutput.out = [k \in 1 .. NoOutput.in |-> <<k>> \o NoOutput.stages]
  <1>1. NoOutput.out = <<>> /\ NoOutput.in = 0 BY DEF NoOutput
  <1>2. 1 .. 0 = {} OBVIOUS
  <1>3. [k \in 1 .. 0 |-> <<k>> \o NoOutput.stages] = <<>> BY <1>2
  <1> QED BY <1>1, <1>3

LEMMA WorkInitial == ParallelInit => WorkInv
  <1> SUFFICES ASSUME ParallelInit PROVE WorkInv OBVIOUS
  <1>1. PartitionInv BY DEF ParallelInit, PartitionInv
  <1>2. RowsInv BY DEF ParallelInit, RowsInv
  <1>3. TokensInv
    <2>1. DOMAIN <<>> = {} /\ 1 .. 0 = {} OBVIOUS
    <2> QED BY <2>1 DEF ParallelInit, TokensInv
  <1> QED BY <1>1, <1>2, <1>3 DEF WorkInv

LEMMA PartitionStays ==
  ASSUME PartitionInv, UNCHANGED <<gpus, partition, strategy, layers>> PROVE PartitionInv'
  BY DEF PartitionInv, PartitionByLayers
LEMMA RowsStay == ASSUME RowsInv, UNCHANGED <<strategy, output>> PROVE RowsInv'
  BY DEF RowsInv
LEMMA TokensStay == ASSUME TokensInv, UNCHANGED <<routing, combined>> PROVE TokensInv'
  BY DEF TokensInv

LEMMA NewMultiGpuStep ==
  ASSUME WorkInv, NEW devices \in 0 .. MaxGpus, NEW asked \in 0 .. MaxGpus, NewMultiGpu(devices, asked)
  PROVE  WorkInv'
  <1>1. PartitionInv'
    <2>1. gpus = 0 /\ devices >= 2 /\ gpus' = (IF asked = 0 \/ asked > devices THEN devices ELSE asked)
          /\ UNCHANGED <<partition, strategy, layers>>
      BY DEF NewMultiGpu
    <2>2. gpus' \in Nat /\ gpus' # 0 BY <2>1, ParallelAssumption
    <2>3. strategy = "Auto" BY <2>1 DEF WorkInv, PartitionInv
    <2> QED BY <2>1, <2>2, <2>3 DEF PartitionInv
  <1>2. RowsInv' /\ TokensInv' BY RowsStay, TokensStay DEF NewMultiGpu, WorkInv
  <1> QED BY <1>1, <1>2 DEF WorkInv

LEMMA PartitionStep ==
  ASSUME WorkInv, NEW n \in 0 .. MaxLayers, NEW s, NEW homogeneous, NEW p2p, PartitionModel(n, s, homogeneous, p2p)
  PROVE  WorkInv'
  <1> DEFINE active == IF s # "Auto" THEN s ELSE DetermineStrategy(n, homogeneous, p2p)
  <1>1. /\ gpus > 0 /\ strategy' = active /\ layers' = n /\ gpus' = gpus
        /\ partition' = (IF active \in {"Tensor", "Expert"} THEN PartitionByTensors ELSE PartitionByLayers(n))
        /\ output' = NoOutput /\ UNCHANGED <<routing, combined>>
    BY DEF PartitionModel
  <1> HIDE DEF active
  <1>2. n \in Nat BY ParallelAssumption
  <1>3. PartitionInv'
    <2>1. PartitionByLayers(layers)' = PartitionByLayers(n) BY <1>1 DEF PartitionByLayers
    <2>2. strategy' \in {"Layer", "Pipeline"} => partition' = PartitionByLayers(n) BY <1>1
    <2>3. gpus' \in Nat /\ gpus' # 0 BY <1>1 DEF WorkInv, PartitionInv
    <2> QED BY <1>1, <1>2, <2>1, <2>2, <2>3 DEF PartitionInv
  <1>4. RowsInv' BY <1>1, NothingOut DEF RowsInv
  <1>5. TokensInv' BY <1>1, TokensStay DEF WorkInv
  <1> QED BY <1>3, <1>4, <1>5 DEF WorkInv

LEMMA ExecuteStep ==
  ASSUME WorkInv, NEW n \in 0 .. MaxElements, ExecuteLayers(n) \/ ExecutePipeline(n) \/ ExecuteTensor(n)
  PROVE  WorkInv'
  <1>1. UNCHANGED <<gpus, partition, strategy, layers, routing, combined>>
    BY DEF ExecuteLayers, ExecutePipeline, ExecuteTensor
  <1>2. PartitionInv' /\ TokensInv' BY <1>1, PartitionStays, TokensStay DEF WorkInv
  <1>3. RowsInv'
    <2>1. CASE ExecuteLayers(n)
      <3> DEFINE stages == SelectSeq([i \in 1 .. gpus |-> i], LAMBDA i : partition[i][2] > partition[i][1])
      <3>1. output' = [in |-> n, stages |-> stages, out |-> [k \in 1 .. n |-> <<k>> \o stages]]
        BY <2>1 DEF ExecuteLayers, Through
      <3> HIDE DEF stages
      <3> QED BY <3>1 DEF RowsInv
    <2>2. CASE ExecutePipeline(n)
      <3> DEFINE c == IF MicroBatches < n THEN MicroBatches ELSE n
                 stages == [i \in 1 .. gpus |-> i]
                 done == PipelineDone(n, c, stages)
      <3>1. output' = [in |-> n, stages |-> stages, out |-> FlattenSeq(done)]
        BY <2>2 DEF ExecutePipeline, PipelineDone
      <3> HIDE DEF stages
      <3>2. n \in Nat /\ MicroBatches \in Nat \ {0} BY ParallelAssumption
      <3>3. FlattenSeq(done) = [k \in 1 .. n |-> <<k>> \o stages]
        <4>1. CASE n = 0
          <5>1. c = 0 /\ 1 .. 0 = {} BY <3>2, <4>1
          <5> HIDE DEF c
          <5>2. done = <<>> BY <5>1 DEF PipelineDone
          <5>3. FlattenSeq(done) = <<>>
            <6> HIDE DEF done
            <6>1. Len(done) = 0 BY <5>2
            <6> QED BY <5>2, <6>1 DEF FlattenSeq
          <5>4. [k \in 1 .. n |-> <<k>> \o stages] = <<>> BY <4>1, <5>1
          <5> QED BY <5>3, <5>4
        <4>2. CASE n # 0
          <5>1. c \in 1 .. n BY <3>2, <4>2
          <5> HIDE DEF c
          <5>2. n \in Nat BY <3>2
          <5> QED BY <5>1, <5>2, PipelineJoins, ZenonT(60)
        <4> QED BY <4>1, <4>2
      <3> HIDE DEF done
      <3> QED BY <3>1, <3>3 DEF RowsInv
    <2>3. CASE ExecuteTensor(n)
      <3>1. strategy' = "Tensor" BY <1>1, <2>3 DEF ExecuteTensor
      <3> QED BY <3>1 DEF RowsInv
    <2> QED BY <2>1, <2>2, <2>3
  <1> QED BY <1>2, <1>3 DEF WorkInv

\* combine finds the row of a token in the group of each of its experts.
LEMMA TokenFound ==
  ASSUME TokensInv, NEW t \in DOMAIN routing, NEW k \in 1 .. MoeTopK
  PROVE  TokenOutput(routing[t][k], t) = <<routing[t][k], t>>
  <1> DEFINE e == routing[t][k]
             S == {u \in DOMAIN routing : \E l \in 1 .. MoeTopK : routing[u][l] = e}
             group == Ascending(S)
  <1>1. PICK n \in Nat : DOMAIN routing = 1 .. n BY DEF TokensInv
  <1>2. t \in S OBVIOUS
  <1>3. S \in SUBSET Nat /\ IsFiniteSet(S)
    <2>1. IsFiniteSet(1 .. n) BY FirstNumbers
    <2>2. S \subseteq 1 .. n BY <1>1
    <2> HIDE DEF S
    <2>3. S \in SUBSET Nat BY <2>2
    <2>4. IsFiniteSet(S) BY <2>1, <2>2, FS_Subset, Zenon
    <2> QED BY <2>3, <2>4
  <1>4. TokenOutput(e, t) = <<e, group[CHOOSE i \in DOMAIN group : group[i] = t]>>
    BY DEF TokenOutput, GroupByExpert
  <1> HIDE DEF S, e
  <1>5. DOMAIN group = 1 .. Cardinality(S) /\ \E i \in 1 .. Cardinality(S) : group[i] = t
    BY <1>2, <1>3, AscendingIs
  <1> HIDE DEF group
  <1>6. group[CHOOSE i \in DOMAIN group : group[i] = t] = t BY <1>5, Zenon
  <1> QED BY <1>4, <1>6 DEF e

LEMMA MoeStep == ASSUME WorkInv, MoeNext PROVE WorkInv'
  <1>1. UNCHANGED <<gpus, partition, strategy, layers, output>> BY DEF MoeNext, MoeRoute, MoeExecute
  <1>2. PartitionInv' /\ RowsInv' BY <1>1, PartitionStays, RowsStay DEF WorkInv
  <1>3. CASE \E n \in 1 .. MoeBatch : \E choice \in [1 .. n -> TopKChoices] : MoeRoute(choice)
    <2>1. PICK n \in 1 .. MoeBatch : \E choice \in [1 .. n -> TopKChoices] : MoeRoute(choice) BY <1>3
    <2>2. DOMAIN routing' = 1 .. n /\ combined' = <<>> /\ n \in Nat BY <2>1 DEF MoeRoute
    <2>3. DOMAIN <<>> = {} OBVIOUS
    <2>4. TokensInv' BY <2>2, <2>3 DEF TokensInv
    <2> QED BY <1>2, <2>4 DEF WorkInv
  <1>4. CASE MoeExecute
    <2>1. TokensInv BY DEF WorkInv
    <2>2. routing' = routing
          /\ combined' = [t \in DOMAIN routing |-> [k \in 1 .. MoeTopK |-> TokenOutput(routing[t][k], t)]]
      BY <1>4 DEF MoeExecute
    <2>3. ASSUME NEW t \in DOMAIN routing, NEW k \in 1 .. MoeTopK
          PROVE  combined'[t][k] = <<routing'[t][k], t>>
      <3>1. combined'[t][k] = TokenOutput(routing[t][k], t) BY <2>2
      <3>2. TokenOutput(routing[t][k], t) = <<routing[t][k], t>> BY <2>1, TokenFound
      <3> QED BY <2>2, <3>1, <3>2
    <2>4. DOMAIN combined' = DOMAIN routing BY <2>2
    <2>5. \E n \in Nat : DOMAIN routing' = 1 .. n BY <2>1, <2>2 DEF TokensInv
    <2>6. TokensInv' BY <2>3, <2>4, <2>5 DEF TokensInv
    <2> QED BY <1>2, <2>6 DEF WorkInv
  <1> QED BY <1>3, <1>4 DEF MoeNext

LEMMA WorkStep == ASSUME WorkInv, ParallelNext \/ MoeNext PROVE WorkInv'
  <1>1. CASE \E devices \in 0 .. MaxGpus, asked \in 0 .. MaxGpus : NewMultiGpu(devices, asked)
    BY <1>1, NewMultiGpuStep
  <1>2. CASE \E n \in 0 .. MaxLayers, s \in Strategies, homogeneous, p2p \in BOOLEAN :
               PartitionModel(n, s, homogeneous, p2p)
    BY <1>2, PartitionStep
  <1>3. CASE \E n \in 0 .. MaxElements : ExecuteLayers(n) \/ ExecutePipeline(n) \/ ExecuteTensor(n)
    BY <1>3, ExecuteStep
  <1>4. CASE MoeNext BY <1>4, MoeStep
  <1> QED BY <1>1, <1>2, <1>3, <1>4 DEF ParallelNext

LEMMA WorkSafe == WorkInv => WorkIsComplete
  <1> SUFFICES ASSUME WorkInv PROVE WorkIsComplete OBVIOUS
  <1>1. ASSUME strategy \in {"Layer", "Pipeline"}
        PROVE  /\ partition[1][1] = 0 /\ partition[gpus][2] = layers
               /\ \A i \in 1 .. gpus - 1 : partition[i][2] = partition[i + 1][1]
               /\ \A i, j \in 1 .. gpus :
                     partition[i][2] - partition[i][1] <= partition[j][2] - partition[j][1] + 1
    <2>1. gpus \in Nat /\ gpus > 0 BY <1>1 DEF WorkInv, PartitionInv
    <2>2. layers \in Nat /\ partition = PartitionByLayers(layers) BY <1>1 DEF WorkInv, PartitionInv
    <2> QED BY <2>1, <2>2, LayersDivided
  <1>2. RowsInv /\ TokensInv BY DEF WorkInv
  <1> QED BY <1>1, <1>2 DEF WorkIsComplete, RowsInv, TokensInv

\* GPU memory is given back as it was taken and selected devices can be used;
\* layers cut over devices follow on each other and cover the model, elements
\* leave the pipeline in place and tokens get what their experts computed
\* (GpuAllocator, GpuManager, MultiGpuManager, MoeExecutor), for every number
\* of devices, layers, elements, tokens and experts.
THEOREM GpuWorkCorrect == GpuWorkSpec => []GpuWorkIsComplete
  <1> DEFINE Inv == GpuInv /\ WorkInv
             Step == (GpuDevicesNext /\ UNCHANGED parallelVars)
                     \/ ((ParallelNext \/ MoeNext) /\ UNCHANGED gpuVars)
  <1>1. GpuDevicesInit /\ ParallelInit => Inv BY GpuInitial, WorkInitial
  <1>2. Inv /\ [Step]_<<gpuVars, parallelVars>> => Inv'
    <2> SUFFICES ASSUME GpuInv, WorkInv, [Step]_<<gpuVars, parallelVars>> PROVE GpuInv' /\ WorkInv' OBVIOUS
    <2>1. ASSUME UNCHANGED parallelVars PROVE WorkInv'
      <3>1. UNCHANGED <<gpus, partition, strategy, layers, output, routing, combined>> BY <2>1 DEF parallelVars
      <3> QED BY <3>1, PartitionStays, RowsStay, TokensStay DEF WorkInv
    <2>2. [GpuDevicesNext]_gpuVars => GpuInv' BY GpuStep
    <2>3. ParallelNext \/ MoeNext => WorkInv' BY WorkStep
    <2> QED BY <2>1, <2>2, <2>3
  <1>3. Inv => GpuWorkIsComplete BY GpuSafe, WorkSafe DEF GpuWorkIsComplete
  <1> HIDE DEF Inv
  <1> QED BY <1>1, <1>2, <1>3, PTL DEF GpuWorkSpec
=============================================================================
