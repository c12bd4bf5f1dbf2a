---------------------------- MODULE IpcConnection ----------------------------
(***************************************************************************)
(* One IPC connection (ipc/server.rs handle_connection): the reader loop,  *)
(* one task per inference request - a stream relayed by ipc/handler.rs     *)
(* through ipc/stream_bridge.rs, or a unary request run by                 *)
(* ipc/handler_inference.rs - and the writer mutex they share.             *)
(*                                                                         *)
(* Frames are [kind, task] records on the wire.  The worker is its effect  *)
(* on a request's channel: tokens, then one terminal, or a dropped sender. *)
(***************************************************************************)
EXTENDS Naturals, Sequences, FiniteSets

CONSTANTS
    Tasks,          \* the inference requests the client sends
    StreamTasks,    \* the ones with parameters.stream
    IdOf,           \* [Tasks -> request id], ids may be used again
    MaxTokens,      \* bound: tokens the worker generates for one stream
    ChannelSize,    \* buffer of the token channel
    MaxCancels,     \* bound: cancel frames the client sends
    NoTask

ASSUME ConnectionAssumption ==
    /\ StreamTasks \subseteq Tasks
    /\ IdOf \in [Tasks -> Nat]
    /\ MaxTokens \in Nat /\ MaxCancels \in Nat
    /\ ChannelSize \in Nat \ {0}
    /\ NoTask \notin Tasks

VARIABLES
    peer,      \* the client is still connected
    budget,    \* cancel frames the client may still send
    session,   \* the connection's session: "none", "valid", "expired"
    reader,    \* "read", "write" (a reply is due), "closing", "closed"
    reply,     \* the reply the reader owes, and what it does after it
    active,    \* active_requests, the tasks registered under their ids
    token,     \* [Tasks -> BOOLEAN], cancellation tokens
    late,      \* [Tasks -> BOOLEAN], the request's own deadline has passed
    stage,     \* [Tasks -> stage of the request's task]
    out,       \* [Tasks -> kind of the frame the task is sending]
    writer,    \* the holder of the writer mutex
    wire,      \* the frames of requests and the acknowledgements, in order
    channel,   \* [Tasks -> items between worker and task]
    produced,  \* [Tasks -> tokens generated]
    worker     \* [Tasks -> "none", "busy", "ended"]

readerVars == <<peer, budget, session, reader, reply>>
taskVars == <<stage, out, late>>
workVars == <<channel, produced, worker>>
vars == <<readerVars, active, token, taskVars, writer, wire, workVars>>

UnaryTasks == Tasks \ StreamTasks
Item == {"tok", "ok", "err"}
FrameKind == {"none", "data", "complete", "error", "success", "cancelled"}
ReplyKind == {"none", "ack", "nack", "fault", "reply"}
Frame == [kind : FrameKind \cup {"ack"}, task : Tasks]
TaskStage == {"unsent", "refused", "start", "relay", "select", "failing",
              "release", "sending", "writing", "remove", "done"}
NoReply == [kind |-> "none", task |-> NoTask, then |-> "read"]

Init ==
    /\ peer = TRUE /\ budget = MaxCancels /\ session = "none"
    /\ reader = "read" /\ reply = NoReply
    /\ active = {} /\ writer = NoTask /\ wire = <<>>
    /\ token = [t \in Tasks |-> FALSE] /\ late = [t \in Tasks |-> FALSE]
    /\ stage = [t \in Tasks |-> "unsent"] /\ out = [t \in Tasks |-> "none"]
    /\ channel = [t \in Tasks |-> <<>>] /\ produced = [t \in Tasks |-> 0]
    /\ worker = [t \in Tasks |-> "none"]

TypeOK ==
    /\ peer \in BOOLEAN /\ budget \in 0..MaxCancels
    /\ session \in {"none", "valid", "expired"}
    /\ reader \in {"read", "write", "closing", "closed"}
    /\ reply \in [kind : ReplyKind, task : Tasks \cup {NoTask}, then : {"read", "closing"}]
    /\ active \subseteq Tasks
    /\ token \in [Tasks -> BOOLEAN] /\ late \in [Tasks -> BOOLEAN]
    /\ stage \in [Tasks -> TaskStage] /\ out \in [Tasks -> FrameKind]
    /\ writer \in Tasks \cup {NoTask}
    /\ wire \in Seq(Frame)
    /\ channel \in [Tasks -> Seq(Item)]
    /\ produced \in [Tasks -> 0..MaxTokens]
    /\ worker \in [Tasks -> {"none", "busy", "ended"}]

-----------------------------------------------------------------------------
(* The reader loop *)

\* The reader owes a reply of this kind and then goes on with next.
Owe(kind, t, next) ==
    /\ reader' = "write"
    /\ reply' = [kind |-> kind, task |-> t, then |-> next]

\* Any message other than inference and cancel goes through handler.process; here
\* the handshake, which may fail and then ends the connection.
Handshake ==
    /\ reader = "read" /\ peer /\ session # "valid"
    /\ \/ session' = "valid" /\ Owe("reply", NoTask, "read")
       \/ session' = session /\ Owe("fault", NoTask, "closing")
    /\ UNCHANGED <<peer, budget, active, token, taskVars, writer, wire, workVars>>

\* A frame that does not decode is answered with code 400.
Malformed ==
    /\ reader = "read" /\ peer
    /\ Owe("fault", NoTask, "read")
    /\ UNCHANGED <<peer, budget, session, active, token, taskVars, writer, wire, workVars>>

\* The id is registered and the task spawned, or a duplicate is answered with 409.
Register(t) ==
    IF \E u \in active : IdOf[u] = IdOf[t]
    THEN /\ stage' = [stage EXCEPT ![t] = "refused"]
         /\ Owe("fault", NoTask, "read")
         /\ UNCHANGED active
    ELSE /\ stage' = [stage EXCEPT ![t] = "start"]
         /\ active' = active \cup {t}
         /\ UNCHANGED <<reader, reply>>

\* The session of a stream is validated later, in its own task.
ReceiveStream(t) ==
    /\ t \in StreamTasks /\ reader = "read" /\ peer /\ stage[t] = "unsent"
    /\ IF session = "none"
       THEN /\ stage' = [stage EXCEPT ![t] = "refused"]
            /\ Owe("fault", NoTask, "read")
            /\ UNCHANGED active
       ELSE Register(t)
    /\ UNCHANGED <<peer, budget, session, token, out, late, writer, wire, workVars>>

\* A unary request without a valid session ends the connection.
ReceiveUnary(t) ==
    /\ t \in UnaryTasks /\ reader = "read" /\ peer /\ stage[t] = "unsent"
    /\ IF session # "valid"
       THEN /\ stage' = [stage EXCEPT ![t] = "refused"]
            /\ Owe("fault", NoTask, "closing")
            /\ UNCHANGED active
       ELSE Register(t)
    /\ UNCHANGED <<peer, budget, session, token, out, late, writer, wire, workVars>>

\* cancel_request: the token is set under the map's lock, the acknowledgement is
\* written afterwards under the writer's.
ReceiveCancel(id) ==
    /\ reader = "read" /\ peer /\ budget > 0
    /\ budget' = budget - 1
    /\ IF session # "valid"
       THEN Owe("fault", NoTask, "read") /\ UNCHANGED token
       ELSE IF \E t \in active : IdOf[t] = id
            THEN \E t \in active :
                    /\ IdOf[t] = id
                    /\ token' = [token EXCEPT ![t] = TRUE]
                    /\ Owe("ack", t, "read")
            ELSE Owe("nack", NoTask, "read") /\ UNCHANGED token
    /\ UNCHANGED <<peer, session, active, taskVars, writer, wire, workVars>>

\* write_frame_locked; a frame for a client that has gone is lost.  Of the replies
\* the wire keeps the acknowledgements.
WriteReply ==
    /\ reader = "write" /\ writer = NoTask
    /\ wire' = IF peer /\ reply.kind = "ack"
               THEN Append(wire, [kind |-> "ack", task |-> reply.task]) ELSE wire
    /\ reader' = reply.then /\ reply' = NoReply
    /\ UNCHANGED <<peer, budget, session, active, token, taskVars, writer, workVars>>

\* End of file: the loop is left.
ReadEof ==
    /\ reader = "read" /\ ~peer
    /\ reader' = "closing"
    /\ UNCHANGED <<peer, budget, session, reply, active, token, taskVars, writer, wire, workVars>>

\* Mutant of CancelAll: the loop just ends.
CancelNone ==
    /\ reader = "closing" /\ reader' = "closed"
    /\ UNCHANGED <<peer, budget, session, reply, active, token, taskVars, writer, wire, workVars>>

\* After the loop every request still registered is cancelled.
CancelAll ==
    /\ reader = "closing"
    /\ token' = [t \in Tasks |-> token[t] \/ t \in active]
    /\ reader' = "closed"
    /\ UNCHANGED <<peer, budget, session, reply, active, taskVars, writer, wire, workVars>>

-----------------------------------------------------------------------------
(* Request tasks *)

Go(t, s) == stage' = [stage EXCEPT ![t] = s]

Send(t, kind) == Go(t, "sending") /\ out' = [out EXCEPT ![t] = kind]

Respond(t, kind) == Go(t, "release") /\ out' = [out EXCEPT ![t] = kind]

\* process_streaming: session, shutdown, validation, then the queue.
StartStream(t) ==
    /\ t \in StreamTasks /\ stage[t] = "start"
    /\ \/ Go(t, "failing") /\ UNCHANGED <<out, worker>>    \* Err: no session, shutdown, queue full
       \/ Send(t, "error") /\ UNCHANGED worker             \* the request does not validate
       \/ /\ session = "valid"
          /\ Go(t, "relay") /\ UNCHANGED out
          /\ worker' = [worker EXCEPT ![t] = "busy"]
    /\ UNCHANGED <<readerVars, active, token, late, writer, wire, channel, produced>>

\* Mutant of RelayStop: the deadline is not one of the select's branches.
RelayStopOnTokenOnly(t) ==
    /\ t \in StreamTasks /\ stage[t] = "relay" /\ token[t]
    /\ Send(t, "error")
    /\ UNCHANGED <<readerVars, active, token, late, writer, wire, workVars>>

\* relay_stream, biased: the token, then the deadline, then the channel.
RelayStop(t) ==
    /\ t \in StreamTasks /\ stage[t] = "relay" /\ (token[t] \/ late[t])
    /\ token' = [token EXCEPT ![t] = TRUE]
    /\ Send(t, "error")
    /\ UNCHANGED <<readerVars, active, late, writer, wire, workVars>>

RelayItem(t) ==
    /\ t \in StreamTasks /\ stage[t] = "relay" /\ ~token[t] /\ ~late[t]
    /\ \/ /\ channel[t] # <<>>
          /\ Send(t, CASE Head(channel[t]) = "tok" -> "data"
                       [] Head(channel[t]) = "ok"  -> "complete"
                       [] Head(channel[t]) = "err" -> "error")
          /\ channel' = [channel EXCEPT ![t] = Tail(@)]
       \/ /\ channel[t] = <<>> /\ worker[t] = "ended"
          /\ Send(t, "error") /\ UNCHANGED channel
    /\ UNCHANGED <<readerVars, active, token, late, writer, wire, produced, worker>>

\* Mutant of Fenced: no check of the token.
FencedNever(t) == FALSE

\* The bridge sends nothing but an error terminal once the token is set: checked
\* before and again under the writer mutex.
Fenced(t) == t \in StreamTasks /\ token[t] /\ out[t] # "error"

\* Mutant of SendRefused: the stream ends without a terminal.
SendRefusedInSilence(t) ==
    /\ stage[t] = "sending" /\ Fenced(t)
    /\ Go(t, "remove")
    /\ UNCHANGED <<readerVars, active, token, out, late, writer, wire, workVars>>

SendRefused(t) ==
    /\ stage[t] = "sending" /\ Fenced(t)
    /\ Go(t, "failing")
    /\ UNCHANGED <<readerVars, active, token, out, late, writer, wire, workVars>>

AcquireWriter(t) ==
    /\ stage[t] = "sending" /\ ~Fenced(t) /\ writer = NoTask
    /\ writer' = t
    /\ Go(t, "writing")
    /\ UNCHANGED <<readerVars, active, token, out, late, wire, workVars>>

\* Mutant of FinishWrite: relay_stream goes on after the completion frame.
FinishWriteWithoutBreak(t) ==
    /\ stage[t] = "writing"
    /\ writer' = NoTask
    /\ wire' = IF peer THEN Append(wire, [kind |-> out[t], task |-> t]) ELSE wire
    /\ Go(t, IF t \in UnaryTasks THEN "done"
             ELSE IF out[t] = "error" THEN "remove"
             ELSE IF ~peer THEN "failing" ELSE "relay")
    /\ UNCHANGED <<readerVars, active, token, out, late, workVars>>

\* The frame is on the wire, or lost because the client has gone; a failed data
\* or completion frame makes the task try an error terminal.
FinishWrite(t) ==
    /\ stage[t] = "writing"
    /\ writer' = NoTask
    /\ wire' = IF peer THEN Append(wire, [kind |-> out[t], task |-> t]) ELSE wire
    /\ Go(t, IF t \in UnaryTasks THEN "done"
             ELSE IF out[t] = "error" THEN "remove"
             ELSE IF ~peer THEN "failing"
             ELSE IF out[t] = "data" THEN "relay" ELSE "remove")
    /\ UNCHANGED <<readerVars, active, token, out, late, workVars>>

\* process_streaming returned Err: the spawned task sends the terminal itself.
FailStream(t) ==
    /\ stage[t] = "failing"
    /\ Send(t, "error")
    /\ UNCHANGED <<readerVars, active, token, late, writer, wire, workVars>>

\* A stream's id is released after its last frame.
RemoveStream(t) ==
    /\ stage[t] = "remove"
    /\ active' = active \ {t}
    /\ Go(t, "done")
    /\ UNCHANGED <<readerVars, token, out, late, writer, wire, workVars>>

\* handle_inference_controlled up to the queue.
StartUnary(t) ==
    /\ t \in UnaryTasks /\ stage[t] = "start"
    /\ \/ Respond(t, "error") /\ UNCHANGED worker
       \/ Go(t, "select") /\ UNCHANGED out /\ worker' = [worker EXCEPT ![t] = "busy"]
    /\ UNCHANGED <<readerVars, active, token, late, writer, wire, channel, produced>>

\* Its select, biased: an outcome that is there, then the token, then the deadline.
SelectOutcome(t) ==
    /\ stage[t] = "select"
    /\ \/ channel[t] # <<>> /\ Respond(t, IF Head(channel[t]) = "ok" THEN "success" ELSE "error")
       \/ channel[t] = <<>> /\ worker[t] = "ended" /\ Respond(t, "error")
       \/ channel[t] = <<>> /\ worker[t] # "ended" /\ token[t] /\ Respond(t, "cancelled")
       \/ channel[t] = <<>> /\ worker[t] # "ended" /\ ~token[t] /\ late[t] /\ Respond(t, "error")
    /\ UNCHANGED <<readerVars, active, token, late, writer, wire, workVars>>

\* spawn_inference releases the id before it writes the response.
ReleaseUnary(t) ==
    /\ stage[t] = "release"
    /\ active' = active \ {t}
    /\ Go(t, "sending")
    /\ UNCHANGED <<readerVars, token, out, late, writer, wire, workVars>>

TaskStep(t) ==
    \/ StartStream(t) \/ RelayStop(t) \/ RelayItem(t) \/ SendRefused(t) \/ AcquireWriter(t)
    \/ FinishWrite(t) \/ FailStream(t) \/ RemoveStream(t)
    \/ StartUnary(t) \/ SelectOutcome(t) \/ ReleaseUnary(t)

-----------------------------------------------------------------------------
(* The worker's side of a request's channel, the clock and the client *)

Room(t) == worker[t] = "busy" /\ Len(channel[t]) < ChannelSize

Produce(t) ==
    /\ t \in StreamTasks /\ Room(t) /\ produced[t] < MaxTokens
    /\ channel' = [channel EXCEPT ![t] = Append(@, "tok")]
    /\ produced' = [produced EXCEPT ![t] = @ + 1]
    /\ UNCHANGED <<readerVars, active, token, taskVars, writer, wire, worker>>

\* A stream observes its token before it ends; a unary request's worker sees the
\* handler's flag only, which is set after select.
EndWork(t) ==
    /\ Room(t)
    /\ \E i \in {"ok", "err"} :
          /\ i = "ok" => (t \in UnaryTasks \/ ~token[t])
          /\ channel' = [channel EXCEPT ![t] = Append(@, i)]
    /\ worker' = [worker EXCEPT ![t] = "ended"]
    /\ UNCHANGED <<readerVars, active, token, taskVars, writer, wire, produced>>

DropSender(t) ==
    /\ worker[t] = "busy"
    /\ worker' = [worker EXCEPT ![t] = "ended"]
    /\ UNCHANGED <<readerVars, active, token, taskVars, writer, wire, channel, produced>>

Expire(t) ==
    /\ stage[t] \in {"relay", "select"} /\ ~late[t]
    /\ late' = [late EXCEPT ![t] = TRUE]
    /\ UNCHANGED <<readerVars, active, token, stage, out, writer, wire, workVars>>

ExpireSession ==
    /\ session = "valid" /\ session' = "expired"
    /\ UNCHANGED <<peer, budget, reader, reply, active, token, taskVars, writer, wire, workVars>>

Disconnect ==
    /\ peer /\ peer' = FALSE
    /\ UNCHANGED <<budget, session, reader, reply, active, token, taskVars, writer, wire, workVars>>

Receive ==
    \/ Handshake \/ Malformed
    \/ \E t \in Tasks : ReceiveStream(t) \/ ReceiveUnary(t) \/ ReceiveCancel(IdOf[t])

ReaderStep == WriteReply \/ ReadEof \/ CancelAll

Next ==
    \/ Receive \/ ReaderStep \/ ExpireSession \/ Disconnect
    \/ \E t \in Tasks : \/ TaskStep(t) \/ Produce(t) \/ EndWork(t)
                        \/ DropSender(t) \/ Expire(t)

\* Tasks and the reader are tokio tasks that run when they can (a write ends: the
\* client reads or goes away).  The worker is not assumed to answer; every stream
\* has a deadline, and it passes.
Fairness ==
    /\ WF_vars(ReaderStep)
    /\ \A t \in Tasks : WF_vars(TaskStep(t))
    /\ \A t \in StreamTasks : WF_vars(Expire(t))

Spec == Init /\ [][Next]_vars /\ Fairness

-----------------------------------------------------------------------------
(* Properties *)

\* Where the frames of a request stand among those written.
FramesIn(written, t, kinds) ==
    {i \in DOMAIN written : written[i].task = t /\ written[i].kind \in kinds}
Frames(t, kinds) == FramesIn(wire, t, kinds)
Payload == {"data", "complete", "error", "success", "cancelled"}
Final == Payload \ {"data"}

\* Once a cancellation of a stream is acknowledged, no data or completion frame of
\* that stream follows: the token is set before the acknowledgement, and the
\* bridge checks it again under the writer mutex (stream_bridge.rs write_frame).
NoDataAfterAck ==
    \A t \in StreamTasks : \A i \in Frames(t, {"ack"}) :
        \A j \in Frames(t, {"data", "complete"}) : j < i

\* A request's final frame is its last one and there is only one, whichever of
\* relay_stream, the spawned task or spawn_inference sends it.
OneFinalFrame ==
    \A t \in Tasks : \A i \in Frames(t, Final) : \A j \in Frames(t, Payload) : j <= i

\* A task that has ended told its client so, unless the client has gone.
DoneMeansTold ==
    \A t \in Tasks : stage[t] = "done" /\ peer => Frames(t, Final) # {}

\* Completion, error, cancellation, deadline and a vanished worker may coincide: a
\* connected client gets exactly one frame that ends each request that is done with
\* (relay_stream, the spawned stream task, handle_inference_controlled).
ToldOnce == OneFinalFrame /\ DoneMeansTold

\* A stream that was taken on ends on the wire even if the worker never answers.
StreamEnds ==
    \A t \in StreamTasks : stage[t] = "start" ~> (stage[t] = "done" \/ ~peer)

\* When the connection goes, every request it started is let go of; none stays
\* registered or waits for the worker.
AbandonedWorkStops ==
    reader = "closing" ~> \A t \in Tasks : stage[t] \in {"unsent", "refused", "done"}

\* What docs/IPC_PROTOCOL_SCHEMA.md says of cancelled:true for a unary request: its
\* response carries the error code "cancelled".
AckedUnaryIsCancelled ==
    \A t \in UnaryTasks : Frames(t, {"ack"}) # {} => Frames(t, {"success"}) = {}
=============================================================================
