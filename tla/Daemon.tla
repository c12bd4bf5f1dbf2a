-------------------------------- MODULE Daemon --------------------------------
(***************************************************************************)
(* The daemon as a process, and the command-line clients that talk to it.  *)
(*                                                                         *)
(* `serve` passes its checks in order (arguments, sandbox mode, self test, *)
(* auth policy, preloads, sandbox), then spawns the listener and waits for *)
(* ctrl-c.  A command connects, shakes hands when what it asks for needs a *)
(* session, sends one request, and turns the frames it reads into an exit  *)
(* code.  A health answer is put together from three awaited reads.        *)
(***************************************************************************)
EXTENDS Naturals, Sequences, FiniteSets

CONSTANTS
    Commands,          \* the commands that are run against the daemon
    CommandKinds(_),   \* what a command may be
    DaemonMaxModels,   \* bound: registered models
    HealthMaxQueue,    \* HealthConfig::max_queue_depth
    DaemonMaxTexts,    \* bound: text chunks of a stream
    Syscalls,          \* system call numbers, as the filter sees them
    AllowedSyscalls    \* defs::allowed_syscalls, a sequence of them

ASSUME DaemonAssumption ==
    /\ \A c \in Commands : CommandKinds(c) \subseteq
         {"liveness", "readiness", "full", "unary", "stream", "load", "unload"}
    /\ DaemonMaxModels \in Nat /\ DaemonMaxTexts \in Nat
    /\ HealthMaxQueue \in Nat \ {0}
    /\ AllowedSyscalls \in Seq(Syscalls)

VARIABLES
    daemon,        \* where run_serve and run_ipc_server have got to
    preload,       \* models still to preload
    boot,          \* what the checks decided
    filter,        \* the installed seccomp program, <<>> for none
    registered,    \* how many models the registry holds
    coordinator,   \* ShutdownState
    listener,      \* the server task
    command,       \* the client's side of every command
    serving,       \* the daemon's side of its connection
    wire           \* frames written and not yet read

bootVars == <<preload, boot, filter>>
clientVars == <<command, serving, wire>>
daemonVars == <<daemon, bootVars, registered, coordinator, listener, clientVars>>

-----------------------------------------------------------------------------
\* The seccomp program: load the architecture, leave to KILL unless it is the
\* build's, load the number, one equality test per allowed call, KILL, ALLOW.
\* Jump offsets count from the next instruction.
KillAt == Len(AllowedSyscalls) + 4
AllowAt == KillAt + 1

FilterProgramShort ==
    [i \in 1..AllowAt |->
        CASE i \in {1, 3} -> [op |-> "load"]
          [] i = 2 -> [op |-> "arch", jf |-> Len(AllowedSyscalls) + 1]
          [] i = KillAt -> [op |-> "kill"]
          [] i = AllowAt -> [op |-> "allow"]
          [] OTHER -> [op |-> "equal", nr |-> AllowedSyscalls[i - 3],
                       jt |-> Len(AllowedSyscalls) - (i - 3)]]

FilterProgram ==
    [i \in 1..AllowAt |->
        CASE i \in {1, 3} -> [op |-> "load"]
          [] i = 2 -> [op |-> "arch", jf |-> Len(AllowedSyscalls) + 1]
          [] i = KillAt -> [op |-> "kill"]
          [] i = AllowAt -> [op |-> "allow"]
          [] OTHER -> [op |-> "equal", nr |-> AllowedSyscalls[i - 3],
                       jt |-> Len(AllowedSyscalls) - (i - 4)]]

\* How the kernel runs it.
FilterVerdict(program, native, nr) ==
    LET run[i \in 1..Len(program)] ==
            LET ins == program[i]
            IN  CASE ins.op \in {"kill", "allow"} -> ins.op
                  [] ins.op = "load" -> run[i + 1]
                  [] ins.op = "arch" -> run[i + 1 + (IF native THEN 0 ELSE ins.jf)]
                  [] OTHER -> run[i + 1 + (IF nr = ins.nr THEN ins.jt ELSE 0)]
    IN  run[1]

-----------------------------------------------------------------------------
NoConnection == [at |-> "none", state |-> "Running", models |-> 0]
Idle == [kind |-> "none", at |-> "idle", exit |-> 0, began |-> "Running", ok |-> FALSE]

DaemonInit ==
    /\ daemon = "arguments"
    /\ preload = 0
    /\ boot = [mode |-> "off", policy |-> "none", cgroup |-> FALSE]
    /\ filter = <<>>
    /\ registered = 0
    /\ coordinator = "Running"
    /\ listener = "none"
    /\ command = [c \in Commands |-> Idle]
    /\ serving = [c \in Commands |-> NoConnection]
    /\ wire = [c \in Commands |-> <<>>]

Abort == daemon' = "failed" /\ UNCHANGED bootVars

\* parse_serve_models: paths and ids of the flags, or the paths of the
\* environment when no --model is given.
ParseServeModels ==
    /\ daemon = "arguments"
    /\ \/ Abort                                      \* an unknown or unfinished flag
       \/ \E paths, ids, env \in 0..DaemonMaxModels :
            IF ids > paths
            THEN Abort
            ELSE /\ preload' = IF paths = 0 THEN env ELSE paths
                 /\ daemon' = "mode"
                 /\ UNCHANGED <<boot, filter>>
    /\ UNCHANGED <<registered, coordinator, listener, clientVars>>

SandboxModeFromEnv ==
    /\ daemon = "mode"
    /\ \/ Abort
       \/ \E m \in {"enforce", "seccomp", "off"} :
            boot' = [boot EXCEPT !.mode = m] /\ daemon' = "selftest" /\ UNCHANGED <<preload, filter>>
    /\ UNCHANGED <<registered, coordinator, listener, clientVars>>

RunPowerOnSelfTests ==
    /\ daemon = "selftest"
    /\ Abort \/ (daemon' = "policy" /\ UNCHANGED bootVars)
    /\ UNCHANGED <<registered, coordinator, listener, clientVars>>

\* auth_policy: an empty token needs the explicit opt-in.
AuthPolicyIsSet ==
    /\ daemon = "policy"
    /\ \E token, optIn \in BOOLEAN :
         IF ~token /\ ~optIn
         THEN Abort
         ELSE /\ boot' = [boot EXCEPT !.policy = "set"]
              /\ daemon' = "preload"
              /\ UNCHANGED <<preload, filter>>
    /\ UNCHANGED <<registered, coordinator, listener, clientVars>>

\* One round of preload_models; the first failure aborts the start.
PreloadOne ==
    /\ daemon = "preload"
    /\ \/ preload = 0 /\ daemon' = "sandbox" /\ UNCHANGED <<bootVars, registered>>
       \/ preload > 0 /\ Abort /\ UNCHANGED registered
       \/ /\ preload > 0
          /\ preload' = preload - 1
          /\ registered' = registered + 1
          /\ UNCHANGED <<daemon, boot, filter>>
    /\ UNCHANGED <<coordinator, listener, clientVars>>

\* UnixSandbox::apply tries the cgroup (enforce only) and, whatever came of
\* it, the filter; it succeeds when both did.
SandboxAppliesLoosely(cgroup, seccomp) == seccomp

SandboxApplies(cgroup, seccomp) == cgroup /\ seccomp

ApplyDaemonSandbox ==
    /\ daemon = "sandbox"
    /\ \/ boot.mode = "off" /\ daemon' = "serve" /\ UNCHANGED bootVars
       \/ /\ boot.mode # "off"
          /\ \E cgroup, seccomp \in BOOLEAN :
               /\ filter' = IF seccomp THEN FilterProgram ELSE <<>>
               /\ boot' = [boot EXCEPT !.cgroup = boot.mode = "enforce" /\ cgroup]
               /\ daemon' = IF SandboxApplies(boot.mode = "seccomp" \/ cgroup, seccomp)
                            THEN "serve" ELSE "failed"
          /\ UNCHANGED preload
    /\ UNCHANGED <<registered, coordinator, listener, clientVars>>

-----------------------------------------------------------------------------
\* run_ipc_server spawns the worker and the server and waits for the signal.
RunIpcServer ==
    /\ daemon = "serve"
    /\ daemon' = "waiting"
    /\ listener' = "binding"
    /\ UNCHANGED <<bootVars, registered, coordinator, clientVars>>

\* A listener that cannot bind ends its task; nobody looks at that task before
\* the signal.
BindListener ==
    /\ listener = "binding"
    /\ listener' \in {"listening", "failed"}
    /\ UNCHANGED <<daemon, bootVars, registered, coordinator, clientVars>>

CtrlC ==
    /\ daemon = "waiting"
    /\ daemon' = "signalled"
    /\ UNCHANGED <<bootVars, registered, coordinator, listener, clientVars>>

CloseListener ==
    /\ listener = "listening" /\ daemon \in {"signalled", "draining", "stopped"}
    /\ listener' = "closed"
    /\ serving' = [c \in Commands |->
                     IF serving[c].at = "backlog" THEN [serving[c] EXCEPT !.at = "closed"]
                     ELSE serving[c]]
    /\ UNCHANGED <<daemon, bootVars, registered, coordinator, command, wire>>

InitiateShutdown ==
    /\ daemon = "signalled"
    /\ coordinator' = "Draining"
    /\ daemon' = "draining"
    /\ UNCHANGED <<bootVars, registered, listener, clientVars>>

\* Requests that hold a guard.
InFlight == {c \in Commands : serving[c].at \in {"queued", "streaming"}}

DrainOver ==
    /\ daemon = "draining"            \* InFlight is empty, or the timeout passed
    /\ coordinator' = "Stopped"
    /\ daemon' = "stopped"
    /\ UNCHANGED <<bootVars, registered, listener, clientVars>>

\* Worker and server have ended: the process exits and its sockets close.
DaemonExits ==
    /\ daemon = "stopped" /\ listener \in {"closed", "failed"}
    /\ daemon' = "exited"
    /\ serving' = [c \in Commands |->
                     IF serving[c].at = "none" THEN serving[c]
                     ELSE [serving[c] EXCEPT !.at = "closed"]]
    /\ UNCHANGED <<bootVars, registered, coordinator, listener, command, wire>>

-----------------------------------------------------------------------------
\* The daemon's side of a connection.
Probes == {"liveness", "readiness", "full"}
WriteTo(c, what, good) == wire' = [wire EXCEPT ![c] = Append(@, [what |-> what, good |-> good])]
Turn(c, at) == serving' = [serving EXCEPT ![c].at = at]

\* spawn_connection: taken up, or dropped when the pool is full.
AcceptCommand(c) ==
    /\ serving[c].at = "backlog" /\ listener = "listening"
    /\ Turn(c, "reading") \/ Turn(c, "closed")
    /\ UNCHANGED <<daemon, bootVars, registered, coordinator, listener, command, wire>>

\* The handshake; a wrong token is answered and the connection closed.
ServeHandshake(c) ==
    /\ serving[c].at = "reading" /\ command[c].at = "handshake"
    /\ \/ WriteTo(c, "ack", TRUE) /\ Turn(c, "session")
       \/ WriteTo(c, "error", FALSE) /\ Turn(c, "closed")
    /\ UNCHANGED <<daemon, bootVars, registered, coordinator, listener, command>>

\* HealthHandler::handle, one action per awaited read.
ReadShutdownState(c) ==
    /\ serving[c].at = "reading" /\ command[c].at = "asked" /\ command[c].kind \in Probes
    /\ serving' = [serving EXCEPT ![c].at = "state", ![c].state = coordinator]
    /\ UNCHANGED <<daemon, bootVars, registered, coordinator, listener, command, wire>>

ReadModelCount(c) ==
    /\ serving[c].at = "state"
    /\ serving' = [serving EXCEPT ![c].at = "models", ![c].models = registered]
    /\ UNCHANGED <<daemon, bootVars, registered, coordinator, listener, command, wire>>

\* HealthChecker::is_ready; the daemon's configuration requires a model.
IsReadyWhenAccepting(state, models, queue) == models > 0 /\ queue < HealthMaxQueue

IsReady(state, models, queue) ==
    state = "Running" /\ models > 0 /\ queue < HealthMaxQueue

AnswerHealth(c) ==
    /\ serving[c].at = "models"
    /\ WriteTo(c, "health",
               \/ command[c].kind = "liveness"
               \/ IsReady(serving[c].state, serving[c].models,
                          Cardinality({d \in Commands : serving[d].at = "queued"})))
    /\ Turn(c, "answered")
    /\ UNCHANGED <<daemon, bootVars, registered, coordinator, listener, command>>

\* track: a unary or streaming request is let in only while running.
ServeRequest(c) ==
    /\ serving[c].at = "session" /\ command[c].at = "asked"
    /\ command[c].kind \in {"unary", "stream"}
    /\ IF coordinator # "Running"
       THEN /\ WriteTo(c, IF command[c].kind = "unary" THEN "inference" ELSE "chunk", FALSE)
            /\ Turn(c, "answered")
       ELSE /\ Turn(c, IF command[c].kind = "unary" THEN "queued" ELSE "streaming")
            /\ UNCHANGED wire
    /\ UNCHANGED <<daemon, bootVars, registered, coordinator, listener, command>>

\* The answer of a unary request, an error in its `error` field included.
AnswerUnary(c) ==
    /\ serving[c].at = "queued"
    /\ \E good \in BOOLEAN : WriteTo(c, "inference", good)
    /\ Turn(c, "answered")
    /\ UNCHANGED <<daemon, bootVars, registered, coordinator, listener, command>>

\* Chunks of a stream: texts, then the final one or one that carries an error.
SendChunk(c) ==
    /\ serving[c].at = "streaming"
    /\ \/ /\ Len(wire[c]) < DaemonMaxTexts
          /\ WriteTo(c, "text", TRUE) /\ UNCHANGED serving
       \/ \E good \in BOOLEAN : WriteTo(c, "chunk", good) /\ Turn(c, "answered")
    /\ UNCHANGED <<daemon, bootVars, registered, coordinator, listener, command>>

\* handle_model_load and handle_model_unload; no guard is taken, so they go on
\* while the daemon drains.
ServeModels(c) ==
    /\ serving[c].at = "session" /\ command[c].at = "asked"
    /\ \/ /\ command[c].kind = "load" /\ registered < DaemonMaxModels
          /\ registered' = registered + 1 /\ WriteTo(c, "models", TRUE)
       \/ /\ command[c].kind = "unload" /\ registered > 0
          /\ registered' = registered - 1 /\ WriteTo(c, "models", TRUE)
       \/ /\ command[c].kind \in {"load", "unload"}
          /\ WriteTo(c, "models", FALSE) /\ UNCHANGED registered
    /\ Turn(c, "answered")
    /\ UNCHANGED <<daemon, bootVars, coordinator, listener, command>>

-----------------------------------------------------------------------------
\* The client's side.  `began` and `ok` are history: the shutdown state when the
\* command started, and whether a successful answer reached the socket.
Exit(c, code) == command' = [command EXCEPT ![c].at = "exited", ![c].exit = code]

NoDaemon(kind) == IF kind \in {"load", "unload"} THEN 3 ELSE 1

\* A command that is run before the listener is spawned fails as one that is
\* run after it has ended: only the latter is modelled.
Connect(c, kind) ==
    /\ command[c].at = "idle" /\ listener # "none"
    /\ \/ /\ listener = "listening"
          /\ command' = [command EXCEPT ![c] =
                [@ EXCEPT !.kind = kind, !.began = coordinator,
                          !.at = IF kind \in Probes THEN "asked" ELSE "handshake"]]
          /\ Turn(c, "backlog")
       \/ /\ listener # "listening"
          /\ command' = [command EXCEPT ![c] =
                [@ EXCEPT !.kind = kind, !.began = coordinator, !.at = "exited",
                          !.exit = NoDaemon(kind)]]
          /\ UNCHANGED serving
    /\ UNCHANGED <<daemon, bootVars, registered, coordinator, listener, wire>>

\* handshake_on: the acknowledgement, then the request.
ReadAck(c) ==
    /\ command[c].at = "handshake" /\ wire[c] # <<>>
    /\ IF Head(wire[c]).what = "ack"
       THEN command' = [command EXCEPT ![c].at = "asked"]
       ELSE Exit(c, 1)
    /\ wire' = [wire EXCEPT ![c] = Tail(@)]
    /\ UNCHANGED <<daemon, bootVars, registered, coordinator, listener, serving>>

\* The exit code of a frame that ends a command.
ExitCodeOfKind(frame) == IF frame.what = "error" THEN 1 ELSE 0

ExitCodeOf(frame) == IF frame.good THEN 0 ELSE 1

ReadReply(c) ==
    /\ command[c].at = "asked" /\ wire[c] # <<>>
    /\ wire' = [wire EXCEPT ![c] = Tail(@)]
    /\ IF Head(wire[c]).what = "text"
       THEN UNCHANGED command
       ELSE command' = [command EXCEPT ![c].at = "exited", ![c].ok = Head(wire[c]).good,
                                       ![c].exit = ExitCodeOf(Head(wire[c]))]
    /\ UNCHANGED <<daemon, bootVars, registered, coordinator, listener, serving>>

\* Every read of a length is under a timeout, except those of a stream.
ClientTimeout(c) ==
    /\ \/ command[c].at = "handshake"
       \/ command[c].at = "asked" /\ command[c].kind # "stream"
    /\ Exit(c, NoDaemon(command[c].kind))
    /\ UNCHANGED <<daemon, bootVars, registered, coordinator, listener, serving, wire>>

\* The connection is gone and all it carried was read.
ReadEof(c) ==
    /\ command[c].at \in {"handshake", "asked"} /\ serving[c].at = "closed" /\ wire[c] = <<>>
    /\ Exit(c, 1)
    /\ UNCHANGED <<daemon, bootVars, registered, coordinator, listener, serving, wire>>

-----------------------------------------------------------------------------
BootStep ==
    \/ ParseServeModels \/ SandboxModeFromEnv \/ RunPowerOnSelfTests
    \/ AuthPolicyIsSet \/ PreloadOne \/ ApplyDaemonSandbox

ServeStep ==
    \/ RunIpcServer \/ BindListener \/ CtrlC \/ CloseListener
    \/ InitiateShutdown \/ DrainOver \/ DaemonExits

CommandStep(c) ==
    \/ AcceptCommand(c) \/ ServeHandshake(c)
    \/ ReadShutdownState(c) \/ ReadModelCount(c) \/ AnswerHealth(c)
    \/ ServeRequest(c) \/ AnswerUnary(c) \/ SendChunk(c) \/ ServeModels(c)
    \/ \E kind \in CommandKinds(c) : Connect(c, kind)
    \/ ReadAck(c) \/ ReadReply(c) \/ ClientTimeout(c) \/ ReadEof(c)

DaemonNext == BootStep \/ ServeStep \/ \E c \in Commands : CommandStep(c)

DaemonSpec == DaemonInit /\ [][DaemonNext]_daemonVars

-----------------------------------------------------------------------------
\* The sandbox that was asked for is in force whenever a client is connected,
\* its filter lets through the allowed calls of this architecture and nothing
\* else, and no client is served without a decided auth policy
\* (main.rs run_serve, UnixSandbox::apply, apply_seccomp_filter).
ServedBehindTheGates ==
    (\E c \in Commands : serving[c].at # "none") =>
        /\ boot.policy # "none" /\ preload = 0
        /\ boot.mode = "enforce" => boot.cgroup
        /\ boot.mode # "off" =>
             \A nr \in Syscalls, native \in BOOLEAN :
                 FilterVerdict(filter, native, nr) = "allow" <=>
                     native /\ nr \in {AllowedSyscalls[i] : i \in 1..Len(AllowedSyscalls)}

\* A command that exits with 0 was told so: a probe only if it began before the
\* shutdown (liveness aside), an inference only by a successful answer or the
\* final chunk of a stream without an error, whatever came before it
\* (cli/ipc_client.rs, cli/health.rs).
ExitCodesAreHonest ==
    \A c \in Commands : command[c].at = "exited" /\ command[c].exit = 0 =>
        /\ command[c].ok
        /\ command[c].kind \in {"readiness", "full"} => command[c].began = "Running"

\* What the daemon promises those who start it and those who talk to it.
DaemonIsHonest == ServedBehindTheGates /\ ExitCodesAreHonest
=============================================================================
