------------------------- MODULE IpcConnectionProofs -------------------------
(***************************************************************************)
(* Proofs about IpcConnection, for any number of requests, tokens and      *)
(* cancel frames and any reuse of ids: nothing but an error follows an     *)
(* acknowledged cancellation, and every request is ended by one frame.     *)
(***************************************************************************)
EXTENDS IpcConnection, TLAPS

USE ConnectionAssumption

\* The writer mutex is held exactly by the task that is writing.
WriterInv == \A t \in Tasks : stage[t] = "writing" <=> writer = t

\* A cancellation is acknowledged after the token was set.
AckInv ==
    /\ reader = "write" /\ reply.kind = "ack" => reply.task \in Tasks /\ token[reply.task]
    /\ \A t \in Tasks : Frames(t, {"ack"}) # {} => token[t]

\* A stream that is writing data has no acknowledgement on the wire: it looked at
\* its token with the mutex in hand, and the acknowledgement needs the mutex too.
FenceInv ==
    \A t \in StreamTasks :
        stage[t] = "writing" /\ Frames(t, {"ack"}) # {} => out[t] = "error"

\* Which stages streams and unary requests pass through, and what they send.
RoleInv == \A t \in Tasks :
    /\ stage[t] \in {"relay", "failing", "remove"} => t \in StreamTasks
    /\ stage[t] \in {"select", "release"} => t \in UnaryTasks
    /\ stage[t] \in {"release", "sending", "writing"} /\ t \in UnaryTasks
         => out[t] \in {"success", "error", "cancelled"}
    /\ stage[t] \in {"sending", "writing"} /\ t \in StreamTasks
         => out[t] \in {"data", "complete", "error"}

\* A request has a final frame exactly when its task is past sending, or the
\* client is gone.
EndInv == \A t \in Tasks :
    /\ Frames(t, Final) # {} => stage[t] \in {"remove", "done"}
    /\ stage[t] \in {"remove", "done"} /\ peer => Frames(t, Final) # {}

ConnectionInv ==
    /\ TypeOK /\ WriterInv /\ AckInv /\ FenceInv /\ RoleInv /\ EndInv
    /\ NoDataAfterAck /\ OneFinalFrame

-----------------------------------------------------------------------------
LEMMA InitEstablishes == Init => ConnectionInv
<1> SUFFICES ASSUME Init PROVE ConnectionInv
  OBVIOUS
<1>1. TypeOK
  BY DEF Init, TypeOK, NoReply, ReplyKind, TaskStage, FrameKind
<1>2. \A t, K : Frames(t, K) = {}
  BY DEF Init, Frames, FramesIn
<1> QED
  BY <1>1, <1>2 DEF Init, ConnectionInv, WriterInv, AckInv, FenceInv, RoleInv, EndInv,
                    NoDataAfterAck, OneFinalFrame

\* Type correctness, one lemma per part of the connection.
LEMMA Names ==
    /\ {"refused", "start", "relay", "select", "failing", "release", "sending",
        "writing", "remove", "done"} \subseteq TaskStage
    /\ {"data", "complete", "error", "success", "cancelled"} \subseteq FrameKind
    /\ {"ack", "nack", "fault", "reply"} \subseteq ReplyKind
BY DEF TaskStage, FrameKind, ReplyKind

LEMMA GoType ==
    ASSUME TypeOK, NEW t \in Tasks, NEW s \in TaskStage, Go(t, s)
    PROVE  stage' \in [Tasks -> TaskStage]
<1>1. stage \in [Tasks -> TaskStage]
  BY DEF TypeOK
<1> QED
  BY <1>1 DEF Go

LEMMA SendType ==
    ASSUME TypeOK, NEW t \in Tasks, NEW k \in FrameKind, Send(t, k) \/ Respond(t, k)
    PROVE  stage' \in [Tasks -> TaskStage] /\ out' \in [Tasks -> FrameKind]
<1>1. out \in [Tasks -> FrameKind]
  BY DEF TypeOK
<1>2. Go(t, "sending") \/ Go(t, "release")
  BY DEF Send, Respond
<1>3. out' = [out EXCEPT ![t] = k]
  BY DEF Send, Respond
<1> QED
  BY <1>1, <1>2, <1>3, GoType, Names

LEMMA OweType ==
    ASSUME NEW k \in ReplyKind, NEW t \in Tasks \cup {NoTask}, NEW n \in {"read", "closing"},
           Owe(k, t, n)
    PROVE  /\ reader' \in {"read", "write", "closing", "closed"}
           /\ reply' \in [kind : ReplyKind, task : Tasks \cup {NoTask}, then : {"read", "closing"}]
BY DEF Owe

LEMMA ReceiveType ==
    ASSUME TypeOK, Receive
    PROVE  TypeOK'
<1> DEFINE ReaderOK == /\ reader \in {"read", "write", "closing", "closed"}
                       /\ reply \in [kind : ReplyKind, task : Tasks \cup {NoTask},
                                     then : {"read", "closing"}]
<1>0. ReaderOK
  BY DEF TypeOK
<1>a. ASSUME NEW n \in {"read", "closing"}, Owe("fault", NoTask, n)
      PROVE  ReaderOK'
  BY <1>a, OweType, Names
<1>1. CASE Handshake \/ Malformed
  <2>1. ReaderOK' /\ session' \in {"none", "valid", "expired"}
    BY <1>1, <1>a, OweType, Names DEF Handshake, Malformed, TypeOK
  <2> QED
    BY <1>1, <2>1 DEF Handshake, Malformed, TypeOK, taskVars, workVars
<1>2. ASSUME NEW t \in Tasks, ReceiveStream(t) \/ ReceiveUnary(t)
      PROVE  TypeOK'
  <2>1. UNCHANGED <<peer, budget, session, token, out, late, writer, wire, workVars>>
    BY <1>2 DEF ReceiveStream, ReceiveUnary
  <2>2. \/ Register(t)
        \/ /\ Go(t, "refused") /\ UNCHANGED active
           /\ Owe("fault", NoTask, "read") \/ Owe("fault", NoTask, "closing")
    BY <1>2 DEF ReceiveStream, ReceiveUnary, Go
  <2>3. \/ /\ Go(t, "refused") /\ UNCHANGED active
           /\ Owe("fault", NoTask, "read") \/ Owe("fault", NoTask, "closing")
        \/ Go(t, "start") /\ active' = active \cup {t} /\ UNCHANGED <<reader, reply>>
    BY <2>2 DEF Register, Go
  <2>4. stage' \in [Tasks -> TaskStage]
    BY <2>3, GoType, Names
  <2>5. active' \subseteq Tasks
    BY <2>3 DEF TypeOK
  <2>6. ReaderOK'
    BY <2>3, <1>0, <1>a
  <2> QED
    BY <2>1, <2>4, <2>5, <2>6 DEF TypeOK, workVars
<1>3. ASSUME NEW id, ReceiveCancel(id)
      PROVE  TypeOK'
  <2>1. UNCHANGED <<peer, session, active, taskVars, writer, wire, workVars>>
    BY <1>3 DEF ReceiveCancel
  <2>2. budget' \in 0..MaxCancels
    BY <1>3 DEF ReceiveCancel, TypeOK
  <2>3. \/ Owe("fault", NoTask, "read") /\ UNCHANGED token
        \/ Owe("nack", NoTask, "read") /\ UNCHANGED token
        \/ \E t \in active : token' = [token EXCEPT ![t] = TRUE] /\ Owe("ack", t, "read")
    BY <1>3 DEF ReceiveCancel
  <2>4. token' \in [Tasks -> BOOLEAN]
    BY <2>3 DEF TypeOK
  <2>5. ReaderOK'
    BY <2>3, <1>a, OweType, Names DEF TypeOK
  <2> QED
    BY <2>1, <2>2, <2>4, <2>5 DEF TypeOK, workVars, taskVars
<1> QED
  BY <1>1, <1>2, <1>3 DEF Receive

LEMMA ReaderType ==
    ASSUME TypeOK, AckInv, ReaderStep
    PROVE  TypeOK'
<1> USE DEF TypeOK, taskVars, workVars
<1>1. CASE WriteReply
  <2>1. wire' \in Seq(Frame)
    <3>1. CASE peer /\ reply.kind = "ack"
      <4>1. [kind |-> "ack", task |-> reply.task] \in Frame
        BY <1>1, <3>1 DEF WriteReply, AckInv, Frame
      <4> QED
        BY <1>1, <3>1, <4>1 DEF WriteReply
    <3>2. CASE ~(peer /\ reply.kind = "ack")
      BY <1>1, <3>2 DEF WriteReply
    <3> QED
      BY <3>1, <3>2
  <2> QED
    BY <1>1, <2>1 DEF WriteReply, NoReply, ReplyKind
<1>2. CASE ReadEof
  BY <1>2 DEF ReadEof
<1>3. CASE CancelAll
  BY <1>3 DEF CancelAll
<1> QED
  BY <1>1, <1>2, <1>3 DEF ReaderStep

\* What a stream's relay passes on.
LEMMA RelaySends ==
    ASSUME TypeOK, NEW t \in Tasks, RelayStop(t) \/ RelayItem(t)
    PROVE  \E k \in {"data", "complete", "error"} : Send(t, k)
<1>0. channel[t] # <<>> => Head(channel[t]) \in Item
  BY DEF TypeOK
<1>1. CASE RelayStop(t)
  BY <1>1 DEF RelayStop
<1>2. CASE RelayItem(t) /\ channel[t] # <<>> /\ Head(channel[t]) = "tok"
  BY <1>2 DEF RelayItem
<1>3. CASE RelayItem(t) /\ channel[t] # <<>> /\ Head(channel[t]) = "ok"
  BY <1>3 DEF RelayItem
<1>4. CASE RelayItem(t) /\ channel[t] # <<>> /\ Head(channel[t]) = "err"
  BY <1>4 DEF RelayItem
<1>5. CASE RelayItem(t) /\ channel[t] = <<>>
  BY <1>5 DEF RelayItem
<1> QED
  BY <1>0, <1>1, <1>2, <1>3, <1>4, <1>5 DEF Item

LEMMA TaskType ==
    ASSUME TypeOK, NEW t \in Tasks, TaskStep(t)
    PROVE  TypeOK'
<1>1. CASE StartStream(t) \/ StartUnary(t)
  <2>1. UNCHANGED <<readerVars, active, token, late, writer, wire, channel, produced>>
    BY <1>1 DEF StartStream, StartUnary
  <2>2. \/ Go(t, "failing") /\ UNCHANGED <<out, worker>>
        \/ (Send(t, "error") \/ Respond(t, "error")) /\ UNCHANGED worker
        \/ (Go(t, "relay") \/ Go(t, "select")) /\ UNCHANGED out
           /\ worker' = [worker EXCEPT ![t] = "busy"]
    BY <1>1 DEF StartStream, StartUnary
  <2>3. stage' \in [Tasks -> TaskStage]
    BY <2>2, GoType, SendType, Names
  <2>4. out' \in [Tasks -> FrameKind]
    BY <2>2, SendType, Names DEF TypeOK
  <2>5. worker' \in [Tasks -> {"none", "busy", "ended"}]
    BY <2>2 DEF TypeOK
  <2> QED
    BY <2>1, <2>3, <2>4, <2>5 DEF TypeOK, readerVars
<1>2. CASE RelayStop(t) \/ RelayItem(t)
  <2>1. UNCHANGED <<readerVars, active, late, writer, wire, produced, worker>>
    BY <1>2 DEF RelayStop, RelayItem, workVars
  <2>2. channel[t] # <<>> => Head(channel[t]) \in Item /\ Tail(channel[t]) \in Seq(Item)
    BY DEF TypeOK
  <2>3. \E k \in {"data", "complete", "error"} : Send(t, k)
    BY <1>2, RelaySends
  <2>4. stage' \in [Tasks -> TaskStage] /\ out' \in [Tasks -> FrameKind]
    BY <2>3, SendType, Names
  <2>5. channel' \in [Tasks -> Seq(Item)]
    <3>1. \/ channel' = channel
          \/ channel[t] # <<>> /\ channel' = [channel EXCEPT ![t] = Tail(channel[t])]
      BY <1>2 DEF RelayStop, RelayItem, workVars
    <3>2. channel \in [Tasks -> Seq(Item)]
      BY DEF TypeOK
    <3> QED
      BY <2>2, <3>1, <3>2
  <2>6. token' \in [Tasks -> BOOLEAN]
    BY <1>2 DEF RelayStop, RelayItem, TypeOK
  <2> QED
    BY <2>1, <2>4, <2>5, <2>6 DEF TypeOK, readerVars
<1>3. CASE SendRefused(t) \/ AcquireWriter(t)
  <2>1. UNCHANGED <<readerVars, active, token, out, late, wire, workVars>>
    BY <1>3 DEF SendRefused, AcquireWriter
  <2>2. writer' \in Tasks \cup {NoTask}
    BY <1>3 DEF SendRefused, AcquireWriter, TypeOK
  <2>3. stage' \in [Tasks -> TaskStage]
    BY <1>3, GoType, Names DEF SendRefused, AcquireWriter
  <2> QED
    BY <2>1, <2>2, <2>3 DEF TypeOK, readerVars, workVars
<1>4. CASE FinishWrite(t)
  <2>1. [kind |-> out[t], task |-> t] \in Frame
    BY DEF Frame, TypeOK
  <2>2. wire' \in Seq(Frame)
    BY <1>4, <2>1 DEF FinishWrite, TypeOK
  <2>3. stage' \in [Tasks -> TaskStage]
    <3>1. \E s \in {"done", "remove", "failing", "relay"} : Go(t, s)
      BY <1>4 DEF FinishWrite
    <3> QED
      BY <3>1, GoType, Names
  <2> QED
    BY <1>4, <2>2, <2>3 DEF FinishWrite, TypeOK, readerVars, workVars
<1>5. CASE FailStream(t) \/ SelectOutcome(t)
  <2>1. UNCHANGED <<readerVars, active, token, late, writer, wire, workVars>>
    BY <1>5 DEF FailStream, SelectOutcome
  <2>2. \/ Send(t, "error") \/ Respond(t, "error") \/ Respond(t, "success")
        \/ Respond(t, "cancelled")
    BY <1>5 DEF FailStream, SelectOutcome
  <2>3. stage' \in [Tasks -> TaskStage] /\ out' \in [Tasks -> FrameKind]
    BY <2>2, SendType, Names
  <2> QED
    BY <2>1, <2>3 DEF TypeOK, readerVars, workVars
<1>6. CASE RemoveStream(t) \/ ReleaseUnary(t)
  <2>1. UNCHANGED <<readerVars, token, out, late, writer, wire, workVars>>
    BY <1>6 DEF RemoveStream, ReleaseUnary
  <2>2. active' \subseteq Tasks
    BY <1>6 DEF RemoveStream, ReleaseUnary, TypeOK
  <2>3. stage' \in [Tasks -> TaskStage]
    BY <1>6, GoType, Names DEF RemoveStream, ReleaseUnary
  <2> QED
    BY <2>1, <2>2, <2>3 DEF TypeOK, readerVars, workVars
<1> QED
  BY <1>1, <1>2, <1>3, <1>4, <1>5, <1>6 DEF TaskStep

\* The worker's side, the clock and the client.
Outside(t) == Produce(t) \/ EndWork(t) \/ DropSender(t) \/ Expire(t)

LEMMA OutsideType ==
    ASSUME TypeOK, ExpireSession \/ Disconnect \/ \E t \in Tasks : Outside(t)
    PROVE  TypeOK'
<1> USE DEF TypeOK, readerVars, taskVars, workVars
<1>1. CASE ExpireSession \/ Disconnect
  BY <1>1 DEF ExpireSession, Disconnect
<1>2. ASSUME NEW t \in Tasks, Produce(t)
      PROVE  TypeOK'
  <2>1. Append(channel[t], "tok") \in Seq(Item)
    BY DEF Item
  <2>2. produced[t] + 1 \in 0..MaxTokens
    BY <1>2 DEF Produce
  <2> QED
    BY <1>2, <2>1, <2>2 DEF Produce
<1>3. ASSUME NEW t \in Tasks, EndWork(t)
      PROVE  TypeOK'
  <2>1. Append(channel[t], "ok") \in Seq(Item) /\ Append(channel[t], "err") \in Seq(Item)
    BY DEF Item
  <2> QED
    BY <1>3, <2>1 DEF EndWork
<1>4. ASSUME NEW t \in Tasks, DropSender(t) \/ Expire(t)
      PROVE  TypeOK'
  BY <1>4 DEF DropSender, Expire
<1> QED
  BY <1>1, <1>2, <1>3, <1>4 DEF Outside

-----------------------------------------------------------------------------
(* What is on the wire *)

LEMMA FramesBound ==
    ASSUME NEW w \in Seq(Frame), NEW t, NEW K
    PROVE  FramesIn(w, t, K) \subseteq 1..Len(w)
BY DEF FramesIn

\* A frame that is appended joins the frames of its request, after all others.
LEMMA FramesAppend ==
    ASSUME NEW w \in Seq(Frame), NEW f \in Frame, NEW t, NEW K
    PROVE  FramesIn(Append(w, f), t, K)
             = FramesIn(w, t, K) \cup (IF f.task = t /\ f.kind \in K THEN {Len(w) + 1} ELSE {})
<1>1. Append(w, f) \in Seq(Frame) /\ Len(Append(w, f)) = Len(w) + 1 /\ Len(w) \in Nat
  OBVIOUS
<1>2. \A i \in 1..Len(w) : Append(w, f)[i] = w[i]
  OBVIOUS
<1>3. Append(w, f)[Len(w) + 1] = f
  OBVIOUS
<1>4. DOMAIN Append(w, f) = 1..(Len(w) + 1) /\ DOMAIN w = 1..Len(w)
  BY <1>1
<1>5. 1..(Len(w) + 1) = 1..Len(w) \cup {Len(w) + 1} /\ Len(w) + 1 \notin 1..Len(w)
  BY <1>1
<1> QED
  BY <1>2, <1>3, <1>4, <1>5 DEF FramesIn

-----------------------------------------------------------------------------
(* Steps that write nothing *)

\* The parts of the invariant that speak of the wire alone.
LEMMA WireSame ==
    ASSUME NoDataAfterAck, OneFinalFrame, wire' = wire
    PROVE  NoDataAfterAck' /\ OneFinalFrame'
BY DEF NoDataAfterAck, OneFinalFrame, Frames

\* The step a task takes on its own: to stage s with the frame k to send.
Moves(t, s, k) ==
    /\ stage' = [stage EXCEPT ![t] = s] /\ out' = [out EXCEPT ![t] = k]
    /\ UNCHANGED <<peer, writer, wire>>
    /\ UNCHANGED <<reader, reply>> \/ (reader' = "write" /\ reply'.kind # "ack")
    /\ \A u \in Tasks : token[u] => token'[u]

\* The stages and frames of a stream and of a unary request.
Fits(t, s, k) ==
    /\ s \in {"relay", "failing", "remove"} => t \in StreamTasks
    /\ s \in {"select", "release"} => t \in UnaryTasks
    /\ s \in {"release", "sending", "writing"} /\ t \in UnaryTasks
         => k \in {"success", "error", "cancelled"}
    /\ s \in {"sending", "writing"} /\ t \in StreamTasks => k \in {"data", "complete", "error"}

LEMMA MovePreserves ==
    ASSUME ConnectionInv, TypeOK', NEW t \in Tasks, NEW s, NEW k, Moves(t, s, k), Fits(t, s, k),
           stage[t] # "writing", s # "writing",
           stage[t] \in {"remove", "done"} <=> s \in {"remove", "done"}
    PROVE  ConnectionInv'
<1> USE DEF ConnectionInv
<1>1. WriterInv'
  BY DEF WriterInv, Moves, TypeOK
<1>2. AckInv'
  BY DEF AckInv, Moves, TypeOK, Frames
<1>3. FenceInv'
  BY DEF FenceInv, Moves, TypeOK, Frames
<1>4. RoleInv'
  <2> SUFFICES ASSUME NEW u \in Tasks
               PROVE  Fits(u, stage'[u], out'[u])
    BY DEF RoleInv, Fits
  <2>1. CASE u = t
    BY <2>1 DEF Moves, TypeOK
  <2>2. CASE u # t
    <3>1. stage'[u] = stage[u] /\ out'[u] = out[u]
      BY <2>2 DEF Moves, TypeOK
    <3>2. Fits(u, stage[u], out[u])
      BY DEF RoleInv, Fits
    <3> QED
      BY <3>1, <3>2
  <2> QED
    BY <2>1, <2>2
<1>5. EndInv'
  BY DEF EndInv, Moves, TypeOK, Frames
<1>6. NoDataAfterAck' /\ OneFinalFrame'
  BY WireSame DEF Moves
<1> QED
  BY <1>1, <1>2, <1>3, <1>4, <1>5, <1>6

LEMMA Same ==
    ASSUME ConnectionInv, TypeOK', UNCHANGED <<stage, out, writer, wire>>,
           \A u \in Tasks : token[u] => token'[u],
           reader' = "write" /\ reply'.kind = "ack"
             => reply'.task \in Tasks /\ token'[reply'.task],
           peer' => peer
    PROVE  ConnectionInv'
<1> USE DEF ConnectionInv
<1>1. WriterInv' /\ RoleInv' /\ FenceInv'
  BY DEF WriterInv, RoleInv, FenceInv, Frames
<1>2. AckInv'
  BY DEF AckInv, Frames
<1>3. EndInv'
  BY DEF EndInv, Frames
<1> QED
  BY <1>1, <1>2, <1>3, WireSame

LEMMA ReceivePreserves ==
    ASSUME ConnectionInv, Receive
    PROVE  ConnectionInv'
<1>0. TypeOK'
  BY ReceiveType DEF ConnectionInv
<1>1. CASE Handshake \/ Malformed
  <2>1. UNCHANGED <<stage, out, writer, wire, token, peer>> /\ reply'.kind # "ack"
    BY <1>1 DEF Handshake, Malformed, Owe, taskVars
  <2> QED
    BY <1>0, <2>1, Same
<1>2. ASSUME NEW t \in Tasks, ReceiveStream(t) \/ ReceiveUnary(t)
      PROVE  ConnectionInv'
  <2>1. stage[t] = "unsent" /\ UNCHANGED <<peer, token, out, writer, wire>>
    BY <1>2 DEF ReceiveStream, ReceiveUnary
  <2>2. \/ stage' = [stage EXCEPT ![t] = "refused"] /\ reader' = "write" /\ reply'.kind # "ack"
        \/ stage' = [stage EXCEPT ![t] = "start"] /\ UNCHANGED <<reader, reply>>
    BY <1>2 DEF ReceiveStream, ReceiveUnary, Register, Owe
  <2>3. out' = [out EXCEPT ![t] = out[t]]
    BY <2>1 DEF ConnectionInv, TypeOK
  <2>4. Moves(t, "refused", out[t]) \/ Moves(t, "start", out[t])
    BY <2>1, <2>2, <2>3 DEF Moves
  <2>5. Fits(t, "refused", out[t]) /\ Fits(t, "start", out[t])
    BY DEF Fits
  <2> QED
    BY <1>0, <2>1, <2>4, <2>5, MovePreserves
<1>3. ASSUME NEW id, ReceiveCancel(id)
      PROVE  ConnectionInv'
  <2>1. UNCHANGED <<stage, out, writer, wire, peer>>
    BY <1>3 DEF ReceiveCancel, taskVars
  <2>2. \/ reply'.kind # "ack" /\ UNCHANGED token
        \/ \E t \in active : token' = [token EXCEPT ![t] = TRUE] /\ reply'.task = t
    BY <1>3 DEF ReceiveCancel, Owe
  <2>3. active \subseteq Tasks /\ token \in [Tasks -> BOOLEAN]
    BY DEF ConnectionInv, TypeOK
  <2>4. /\ \A u \in Tasks : token[u] => token'[u]
        /\ reply'.kind = "ack" => reply'.task \in Tasks /\ token'[reply'.task]
    BY <2>2, <2>3
  <2> QED
    BY <1>0, <2>1, <2>4, Same
<1> QED
  BY <1>1, <1>2, <1>3 DEF Receive

LEMMA OutsidePreserves ==
    ASSUME ConnectionInv, ExpireSession \/ Disconnect \/ \E t \in Tasks : Outside(t)
    PROVE  ConnectionInv'
<1>0. TypeOK'
  BY OutsideType DEF ConnectionInv
<1>1. UNCHANGED <<stage, out, writer, wire, token, reader, reply>> /\ (peer' => peer)
  BY DEF ExpireSession, Disconnect, Outside, Produce, EndWork, DropSender, Expire,
         taskVars, readerVars
<1>2. reader' = "write" /\ reply'.kind = "ack" => reply'.task \in Tasks /\ token'[reply'.task]
  BY <1>1 DEF ConnectionInv, AckInv
<1> QED
  BY <1>0, <1>1, <1>2, Same

\* The task's steps away from the writer.
LEMMA TaskMovePreserves ==
    ASSUME ConnectionInv, NEW t \in Tasks,
           \/ StartStream(t) \/ RelayStop(t) \/ RelayItem(t) \/ SendRefused(t) \/ FailStream(t)
           \/ RemoveStream(t) \/ StartUnary(t) \/ SelectOutcome(t) \/ ReleaseUnary(t)
    PROVE  ConnectionInv'
<1>0. TypeOK' /\ TypeOK /\ RoleInv
  BY TaskType DEF ConnectionInv, TaskStep
<1>a. UNCHANGED <<peer, writer, wire, reader, reply>>
  BY DEF StartStream, RelayStop, RelayItem, SendRefused, FailStream, RemoveStream, StartUnary,
         SelectOutcome, ReleaseUnary, readerVars
<1>b. token \in [Tasks -> BOOLEAN] /\ out = [out EXCEPT ![t] = out[t]]
  BY <1>0 DEF TypeOK
<1>c. \A u \in Tasks : token[u] => token'[u]
  BY <1>b DEF StartStream, RelayStop, RelayItem, SendRefused, FailStream, RemoveStream, StartUnary,
         SelectOutcome, ReleaseUnary
<1>d. ASSUME NEW s, NEW k, Go(t, s), out' = [out EXCEPT ![t] = k]
      PROVE  Moves(t, s, k)
  BY <1>a, <1>c, <1>d DEF Moves, Go
<1>1. CASE StartStream(t)
  <2>1. t \in StreamTasks /\ stage[t] = "start"
    BY <1>1 DEF StartStream
  <2>2. \/ Moves(t, "failing", out[t]) \/ Moves(t, "sending", "error") \/ Moves(t, "relay", out[t])
    BY <1>1, <1>b, <1>d DEF StartStream, Send
  <2>3. Fits(t, "failing", out[t]) /\ Fits(t, "sending", "error") /\ Fits(t, "relay", out[t])
    BY <2>1 DEF Fits, UnaryTasks
  <2> QED
    BY <1>0, <2>1, <2>2, <2>3, MovePreserves
<1>2. CASE RelayStop(t) \/ RelayItem(t)
  <2>1. t \in StreamTasks /\ stage[t] = "relay"
    BY <1>2 DEF RelayStop, RelayItem
  <2>2. PICK k \in {"data", "complete", "error"} : Send(t, k)
    BY <1>0, <1>2, RelaySends
  <2>3. Moves(t, "sending", k) /\ Fits(t, "sending", k)
    BY <1>d, <2>1, <2>2 DEF Send, Fits, UnaryTasks
  <2> QED
    BY <1>0, <2>1, <2>3, MovePreserves
<1>3. CASE SendRefused(t)
  <2>1. t \in StreamTasks /\ stage[t] = "sending"
    BY <1>3 DEF SendRefused, Fenced
  <2>2. Moves(t, "failing", out[t])
    BY <1>3, <1>b, <1>d DEF SendRefused
  <2>3. Fits(t, "failing", out[t])
    BY <2>1 DEF Fits, UnaryTasks
  <2> QED
    BY <1>0, <2>1, <2>2, <2>3, MovePreserves
<1>4. CASE FailStream(t)
  <2>1. t \in StreamTasks /\ stage[t] = "failing"
    BY <1>4, <1>0 DEF FailStream, RoleInv
  <2>2. Moves(t, "sending", "error")
    BY <1>4, <1>d DEF FailStream, Send
  <2>3. Fits(t, "sending", "error")
    BY <2>1 DEF Fits, UnaryTasks
  <2> QED
    BY <1>0, <2>1, <2>2, <2>3, MovePreserves
<1>5. CASE RemoveStream(t)
  <2>1. stage[t] = "remove"
    BY <1>5 DEF RemoveStream
  <2>2. Moves(t, "done", out[t])
    BY <1>5, <1>b, <1>d DEF RemoveStream
  <2>3. Fits(t, "done", out[t])
    BY DEF Fits
  <2> QED
    BY <1>0, <2>1, <2>2, <2>3, MovePreserves
<1>6. CASE StartUnary(t)
  <2>1. t \in UnaryTasks /\ stage[t] = "start"
    BY <1>6 DEF StartUnary
  <2>2. Moves(t, "release", "error") \/ Moves(t, "select", out[t])
    BY <1>6, <1>b, <1>d DEF StartUnary, Respond
  <2>3. Fits(t, "release", "error") /\ Fits(t, "select", out[t])
    BY <2>1 DEF Fits, UnaryTasks
  <2> QED
    BY <1>0, <2>1, <2>2, <2>3, MovePreserves
<1>7. CASE SelectOutcome(t)
  <2>1. t \in UnaryTasks /\ stage[t] = "select"
    BY <1>7, <1>0 DEF SelectOutcome, RoleInv
  <2>2. PICK k \in {"success", "error", "cancelled"} : Respond(t, k)
    BY <1>7 DEF SelectOutcome
  <2>3. Moves(t, "release", k) /\ Fits(t, "release", k)
    BY <1>d, <2>1, <2>2 DEF Respond, Fits, UnaryTasks
  <2> QED
    BY <1>0, <2>1, <2>3, MovePreserves
<1>8. CASE ReleaseUnary(t)
  <2>1. t \in UnaryTasks /\ stage[t] = "release" /\ out[t] \in {"success", "error", "cancelled"}
    BY <1>8, <1>0 DEF ReleaseUnary, RoleInv
  <2>2. Moves(t, "sending", out[t])
    BY <1>8, <1>b, <1>d DEF ReleaseUnary
  <2>3. Fits(t, "sending", out[t])
    BY <2>1 DEF Fits, UnaryTasks
  <2> QED
    BY <1>0, <2>1, <2>2, <2>3, MovePreserves
<1> QED
  BY <1>1, <1>2, <1>3, <1>4, <1>5, <1>6, <1>7, <1>8

-----------------------------------------------------------------------------
(* Steps at the writer *)

\* The task looks at its token with the mutex in hand: a data frame is only begun
\* for a stream whose token is not set, so no acknowledgement is on the wire.
LEMMA AcquirePreserves ==
    ASSUME ConnectionInv, NEW t \in Tasks, AcquireWriter(t)
    PROVE  ConnectionInv'
<1> USE DEF ConnectionInv
<1>0. TypeOK'
  BY TaskType DEF TaskStep
<1>1. /\ stage[t] = "sending" /\ writer = NoTask /\ writer' = t
      /\ stage' = [stage EXCEPT ![t] = "writing"]
      /\ UNCHANGED <<peer, reader, reply, token, out, wire>>
  BY DEF AcquireWriter, Go, readerVars
<1>2. WriterInv'
  BY <1>1 DEF WriterInv, TypeOK
<1>3. AckInv'
  BY <1>1 DEF AckInv, Frames
<1>4. FenceInv'
  <2>1. t \in StreamTasks /\ Frames(t, {"ack"}) # {} => out[t] = "error"
    BY DEF AcquireWriter, Fenced, AckInv
  <2> QED
    BY <1>1, <2>1 DEF FenceInv, TypeOK, Frames
<1>5. RoleInv'
  BY <1>1 DEF RoleInv, TypeOK
<1>6. EndInv'
  BY <1>1 DEF EndInv, TypeOK, Frames
<1> QED
  BY <1>0, <1>1, <1>2, <1>3, <1>4, <1>5, <1>6, WireSame

\* What a frame does to the frames of each request.
LEMMA WireGrows ==
    ASSUME TypeOK, NEW f \in Frame, wire' = Append(wire, f), NEW t, NEW K
    PROVE  /\ FramesIn(wire', t, K)
                = FramesIn(wire, t, K)
                    \cup (IF f.task = t /\ f.kind \in K THEN {Len(wire) + 1} ELSE {})
           /\ FramesIn(wire, t, K) \subseteq 1..Len(wire)
           /\ Len(wire) \in Nat
<1>1. wire \in Seq(Frame)
  BY DEF TypeOK
<1> QED
  BY <1>1, FramesAppend, FramesBound

LEMMA WireKeeps ==
    ASSUME TypeOK, NEW f \in Frame, wire' = Append(wire, f), NEW t, NEW K,
           f.task # t \/ f.kind \notin K
    PROVE  FramesIn(wire', t, K) = FramesIn(wire, t, K)
<1>1. FramesIn(wire', t, K)
        = FramesIn(wire, t, K) \cup (IF f.task = t /\ f.kind \in K THEN {Len(wire) + 1} ELSE {})
  BY WireGrows
<1>2. (IF f.task = t /\ f.kind \in K THEN {Len(wire) + 1} ELSE {}) = {}
  OBVIOUS
<1> QED
  BY <1>1, <1>2

LEMMA FinishPreserves ==
    ASSUME ConnectionInv, NEW t \in Tasks, FinishWrite(t)
    PROVE  ConnectionInv'
<1> USE DEF ConnectionInv
<1> DEFINE f == [kind |-> out[t], task |-> t]
           s == IF t \in UnaryTasks THEN "done"
                ELSE IF out[t] = "error" THEN "remove"
                ELSE IF ~peer THEN "failing"
                ELSE IF out[t] = "data" THEN "relay" ELSE "remove"
<1>0. TypeOK'
  BY TaskType DEF TaskStep
<1>1. /\ stage[t] = "writing" /\ writer' = NoTask /\ stage' = [stage EXCEPT ![t] = s]
      /\ UNCHANGED <<peer, reader, reply, token, out>>
      /\ wire' = IF peer THEN Append(wire, f) ELSE wire
  BY DEF FinishWrite, Go, readerVars
<1>2. f \in Frame /\ f.kind = out[t] /\ f.task = t
  BY DEF TypeOK, Frame
<1> HIDE DEF f
<1>3. \A u \in Tasks : stage[u] = "writing" => u = t
  BY <1>1 DEF WriterInv
<1>4. WriterInv'
  BY <1>1, <1>3 DEF WriterInv, TypeOK
<1>5. /\ t \in UnaryTasks => out[t] \in {"success", "error", "cancelled"}
      /\ t \notin UnaryTasks => t \in StreamTasks /\ out[t] \in {"data", "complete", "error"}
  BY <1>1 DEF RoleInv, UnaryTasks
<1>6. RoleInv'
  <2> SUFFICES ASSUME NEW u \in Tasks
               PROVE  Fits(u, stage'[u], out'[u])
    BY DEF RoleInv, Fits
  <2>1. CASE u = t
    <3>1. stage'[u] = s
      BY <1>1, <2>1 DEF TypeOK
    <3>2. Fits(t, s, out'[t])
      BY <1>5 DEF Fits
    <3> QED
      BY <2>1, <3>1, <3>2
  <2>2. CASE u # t
    <3>1. stage'[u] = stage[u] /\ out'[u] = out[u]
      BY <1>1, <2>2 DEF TypeOK
    <3>2. Fits(u, stage[u], out[u])
      BY DEF RoleInv, Fits
    <3> QED
      BY <3>1, <3>2
  <2> QED
    BY <2>1, <2>2
<1>7. FenceInv'
  BY <1>1, <1>3 DEF FenceInv, TypeOK
<1>8. CASE ~peer
  <2>1. wire' = wire
    BY <1>1, <1>8
  <2>2. AckInv'
    BY <1>1, <2>1 DEF AckInv, Frames
  <2>3. EndInv'
    BY <1>1, <1>8, <2>1 DEF EndInv, TypeOK, Frames
  <2> QED
    BY <1>0, <1>4, <1>6, <1>7, <2>1, <2>2, <2>3, WireSame
<1>9. CASE peer
  <2>1. wire' = Append(wire, f)
    BY <1>1, <1>9
  <2>2. out[t] # "ack" /\ out[t] \in Payload
    BY <1>5 DEF Payload
  <2>3. \A u : FramesIn(wire', u, {"ack"}) = FramesIn(wire, u, {"ack"})
    <3> SUFFICES ASSUME NEW u
                 PROVE  FramesIn(wire', u, {"ack"}) = FramesIn(wire, u, {"ack"})
      OBVIOUS
    <3>1. f.kind \notin {"ack"}
      BY <1>2, <2>2
    <3> QED
      BY <1>2, <2>1, <3>1, WireKeeps
  <2>4. AckInv'
    BY <1>1, <2>3 DEF AckInv, Frames
  <2>5. EndInv'
    <3> SUFFICES ASSUME NEW u \in Tasks
                 PROVE  /\ FramesIn(wire', u, Final) # {} => stage'[u] \in {"remove", "done"}
                        /\ stage'[u] \in {"remove", "done"} => FramesIn(wire', u, Final) # {}
      BY DEF EndInv, Frames
    <3>1. CASE u # t
      <4>1. FramesIn(wire', u, Final) = FramesIn(wire, u, Final)
        BY <1>2, <2>1, <3>1, WireKeeps
      <4>2. stage'[u] = stage[u]
        BY <1>1, <3>1 DEF TypeOK
      <4> QED
        BY <1>9, <4>1, <4>2 DEF EndInv, Frames
    <3>2. CASE u = t
      <4>1. FramesIn(wire, t, Final) = {}
        BY <1>1 DEF EndInv, Frames
      <4>2. FramesIn(wire', t, Final) # {} <=> out[t] \in Final
        BY <1>2, <2>1, <4>1, WireGrows
      <4>3. stage'[t] = s
        BY <1>1 DEF TypeOK
      <4>4. out[t] \in Final <=> s \in {"remove", "done"}
        BY <1>5, <1>9, <2>2 DEF Final, Payload
      <4> QED
        BY <3>2, <4>2, <4>3, <4>4
    <3> QED
      BY <3>1, <3>2
  <2>6. NoDataAfterAck'
    <3> SUFFICES ASSUME NEW u \in StreamTasks, NEW i \in FramesIn(wire', u, {"ack"}),
                        NEW j \in FramesIn(wire', u, {"data", "complete"})
                 PROVE  j < i
      BY DEF NoDataAfterAck, Frames
    <3>1. i \in FramesIn(wire, u, {"ack"})
      BY <2>3
    <3>2. u = t => out[t] = "error"
      BY <1>1, <3>1 DEF FenceInv, Frames
    <3>3. j \in FramesIn(wire, u, {"data", "complete"})
      BY <1>2, <2>1, <3>2, WireGrows
    <3> QED
      BY <3>1, <3>3 DEF NoDataAfterAck, Frames
  <2>7. OneFinalFrame'
    <3> SUFFICES ASSUME NEW u \in Tasks, NEW i \in FramesIn(wire', u, Final),
                        NEW j \in FramesIn(wire', u, Payload)
                 PROVE  j <= i
      BY DEF OneFinalFrame, Frames
    <3>1. CASE u # t
      <4>1. /\ FramesIn(wire', u, Final) = FramesIn(wire, u, Final)
            /\ FramesIn(wire', u, Payload) = FramesIn(wire, u, Payload)
        BY <1>2, <2>1, <3>1, WireKeeps
      <4> QED
        BY <4>1 DEF OneFinalFrame, Frames
    <3>2. CASE u = t
      <4>1. FramesIn(wire, t, Final) = {}
        BY <1>1 DEF EndInv, Frames
      <4>2. i = Len(wire) + 1
        BY <1>2, <2>1, <3>2, <4>1, WireGrows
      <4>3. Len(wire) \in Nat /\ j \in 1..Len(wire) \cup {Len(wire) + 1}
        BY <1>2, <2>1, <3>2, WireGrows
      <4> QED
        BY <4>2, <4>3
    <3> QED
      BY <3>1, <3>2
  <2> QED
    BY <1>0, <1>4, <1>6, <1>7, <2>4, <2>5, <2>6, <2>7
<1> QED
  BY <1>8, <1>9

LEMMA ReaderPreserves ==
    ASSUME ConnectionInv, ReaderStep
    PROVE  ConnectionInv'
<1> USE DEF ConnectionInv
<1>0. TypeOK'
  BY ReaderType
<1>1. CASE ReadEof \/ CancelAll
  <2>1. UNCHANGED <<stage, out, writer, wire, peer>> /\ reader' # "write"
    BY <1>1 DEF ReadEof, CancelAll, taskVars
  <2>2. \A u \in Tasks : token[u] => token'[u]
    BY <1>1 DEF ReadEof, CancelAll
  <2> QED
    BY <1>0, <2>1, <2>2, Same
<1>2. CASE WriteReply /\ ~(peer /\ reply.kind = "ack")
  <2>1. UNCHANGED <<stage, out, writer, wire, peer, token>> /\ reader' # "write"
    BY <1>2 DEF WriteReply, taskVars, TypeOK
  <2> QED
    BY <1>0, <2>1, Same
<1>3. CASE WriteReply /\ peer /\ reply.kind = "ack"
  <2> DEFINE a == reply.task
             f == [kind |-> "ack", task |-> a]
  <2>1. /\ wire' = Append(wire, f) /\ writer = NoTask /\ reader' # "write"
        /\ UNCHANGED <<peer, token, stage, out, writer>>
    BY <1>3 DEF WriteReply, taskVars, TypeOK
  <2>2. a \in Tasks /\ token[a]
    BY <1>3 DEF WriteReply, AckInv
  <2>3. f \in Frame /\ f.kind = "ack" /\ f.task = a
    BY <2>2 DEF Frame
  <2> HIDE DEF f, a
  <2>4. \A u \in Tasks : stage[u] # "writing"
    BY <2>1 DEF WriterInv
  <2>5. WriterInv' /\ RoleInv' /\ FenceInv'
    BY <2>1, <2>4 DEF WriterInv, RoleInv, FenceInv
  <2>6. ASSUME NEW u, NEW K, "ack" \notin K
        PROVE  FramesIn(wire', u, K) = FramesIn(wire, u, K)
    BY <2>1, <2>3, <2>6, WireKeeps
  <2>7. AckInv'
    <3>1. ASSUME NEW u \in Tasks, u # a
          PROVE  FramesIn(wire', u, {"ack"}) = FramesIn(wire, u, {"ack"})
      BY <2>1, <2>3, <3>1, WireKeeps
    <3> QED
      BY <2>1, <2>2, <3>1 DEF AckInv, Frames
  <2>8. EndInv'
    <3>1. "ack" \notin Final
      BY DEF Final, Payload
    <3> QED
      BY <2>1, <2>6, <3>1 DEF EndInv, Frames
  <2>9. OneFinalFrame'
    <3>1. "ack" \notin Final /\ "ack" \notin Payload
      BY DEF Final, Payload
    <3> QED
      BY <2>6, <3>1 DEF OneFinalFrame, Frames
  <2>10. NoDataAfterAck'
    <3> SUFFICES ASSUME NEW u \in StreamTasks, NEW i \in FramesIn(wire', u, {"ack"}),
                        NEW j \in FramesIn(wire', u, {"data", "complete"})
                 PROVE  j < i
      BY DEF NoDataAfterAck, Frames
    <3>1. j \in FramesIn(wire, u, {"data", "complete"})
      BY <2>6
    <3>2. Len(wire) \in Nat /\ j \in 1..Len(wire)
      BY <2>1, <2>3, <3>1, WireGrows
    <3>3. i \in FramesIn(wire, u, {"ack"}) \/ i = Len(wire) + 1
      BY <2>1, <2>3, WireGrows
    <3> QED
      BY <3>1, <3>2, <3>3 DEF NoDataAfterAck, Frames
  <2> QED
    BY <1>0, <2>5, <2>7, <2>8, <2>9, <2>10
<1> QED
  BY <1>1, <1>2, <1>3 DEF ReaderStep

-----------------------------------------------------------------------------
LEMMA NextPreserves ==
    ASSUME ConnectionInv, [Next]_vars
    PROVE  ConnectionInv'
<1>1. CASE UNCHANGED vars
  BY <1>1 DEF vars, readerVars, taskVars, workVars, ConnectionInv, TypeOK, WriterInv, AckInv,
              FenceInv, RoleInv, EndInv, NoDataAfterAck, OneFinalFrame, Frames
<1>2. CASE Receive
  BY <1>2, ReceivePreserves
<1>3. CASE ReaderStep
  BY <1>3, ReaderPreserves
<1>4. CASE ExpireSession \/ Disconnect \/ \E t \in Tasks : Outside(t)
  BY <1>4, OutsidePreserves
<1>5. ASSUME NEW t \in Tasks, TaskStep(t)
      PROVE  ConnectionInv'
  BY <1>5, TaskMovePreserves, AcquirePreserves, FinishPreserves DEF TaskStep
<1> QED
  BY <1>1, <1>2, <1>3, <1>4, <1>5 DEF Next, Outside

LEMMA Inductive == Spec => []ConnectionInv
BY InitEstablishes, NextPreserves, PTL DEF Spec

\* The variables keep their types whatever the client and the worker do.
THEOREM ConnectionTypeCorrect == Spec => []TypeOK
<1>1. ConnectionInv => TypeOK
  BY DEF ConnectionInv
<1> QED
  BY Inductive, <1>1, PTL

\* ipc/stream_bridge.rs write_frame: the token is set before the acknowledgement is
\* written and read again under the writer mutex, so on the wire no data or
\* completion frame of a stream follows the acknowledgement of its cancellation.
THEOREM AckFenceCorrect == Spec => []NoDataAfterAck
<1>1. ConnectionInv => NoDataAfterAck
  BY DEF ConnectionInv
<1> QED
  BY Inductive, <1>1, PTL

\* ipc/server.rs, ipc/handler.rs: whichever of completion, error, cancellation,
\* deadline and a vanished worker comes first, a connected client is sent exactly
\* one frame that ends its request, and it is the last one.
THEOREM ToldOnceCorrect == Spec => []ToldOnce
<1>1. ConnectionInv => ToldOnce
  BY DEF ConnectionInv, ToldOnce, DoneMeansTold, EndInv
<1> QED
  BY Inductive, <1>1, PTL
=============================================================================
