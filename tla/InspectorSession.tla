-------------------------- MODULE InspectorSession --------------------------
(***************************************************************************)
(* The life of one Inspector object on the main thread                     *)
(* (main/inspector.ts): its sessions, the debug worker of each, the attach *)
(* coroutine and the callers that wait for a client, for the debugger or   *)
(* for the end of a session.                                               *)
(*                                                                         *)
(* A session is named by its generation.  A message or a timer starts a    *)
(* turn of the main loop.  It only resolves or rejects promises: the attach *)
(* coroutines that await them go on later in the same turn, one step each, *)
(* and the callers whose own waits ended with it may call in between.      *)
(***************************************************************************)
EXTENDS Naturals, Sequences

CONSTANTS
    MaxSessions,  \* bound: attach calls in a behaviour
    Waiters,      \* bound: the calls of waitForConnection, waitForDebugger, detach
    PipeCap       \* bound: messages of one worker in flight

ASSUME SessionsAssumption == MaxSessions \in Nat
ASSUME PipeAssumption == PipeCap \in Nat

Sessions == 1..MaxSessions

VARIABLES
    needs,            \* what attach waits for: "nothing", "client", "debugger"
    state,            \* Inspector.state
    generation,       \* Inspector.generation
    worker,           \* the session whose Worker is in Inspector.worker, 0 for null
    phase,            \* per session, what its attach coroutine awaits
    hooked,           \* sessions whose hooks and native callback are installed
    url,              \* inspectorUrl is not empty
    connected, everConnected, runtimeReady,
    disconnectError,  \* disconnectError is not null
    waiter,           \* per call, what it awaits or how it was settled
    since,            \* per call, the session in which it began to wait, 0 if idle
    proc,             \* per session, its worker thread
    signalled,        \* sessions whose worker was told to stop
    pipe,             \* per session, messages of the worker in flight
    client            \* sessions whose worker has a DevTools client

clientVars == <<connected, everConnected, runtimeReady, disconnectError>>
coreVars == <<state, generation, worker, hooked, url>>
waitVars == <<waiter, since>>
workerVars == <<proc, signalled, pipe, client>>
vars == <<needs, coreVars, phase, clientVars, waitVars, workerVars>>

\* What an attach coroutine awaits; and a wait that is over, the coroutine being
\* still to go on.
Awaited == {"ready", "client", "debugger"}
Continuing == {"gotClient", "gotDebugger"}

Init ==
    /\ needs \in {"nothing", "client", "debugger"}
    /\ state = "idle" /\ generation = 0 /\ worker = 0
    /\ phase = [g \in Sessions |-> "none"] /\ hooked = {} /\ url = FALSE
    /\ connected = FALSE /\ everConnected = FALSE /\ runtimeReady = FALSE
    /\ disconnectError = FALSE
    /\ waiter = [w \in Waiters |-> "free"] /\ since = [w \in Waiters |-> 0]
    /\ proc = [g \in Sessions |-> "none"] /\ signalled = {}
    /\ pipe = [g \in Sessions |-> <<>>] /\ client = {}

-----------------------------------------------------------------------------
(* Parts the operations share. *)

\* Faulty variant of IsCurrentSession: the generation is not compared.
AnySession(g) == worker # 0

\* isCurrentSession, for a session that has a worker.
IsCurrentSession(g) == generation = g /\ worker = g

Settled(calls, kinds, how) == [w \in Waiters |-> IF calls[w] \in kinds THEN how ELSE calls[w]]

\* Faulty variant of RejectWaiters: the waiters for the debugger are forgotten.
RejectClientWaiters(calls) == Settled(calls, {"client"}, "failed")

\* rejectWaiters: the calls that wait for a client or the debugger fail, and an
\* attach coroutine that waits has a rejection to unwind.
RejectWaiters(calls) == Settled(calls, {"client", "debugger"}, "failed")
RejectAttach(phases) == [g \in Sessions |-> IF phases[g] \in Awaited THEN "unwinding" ELSE phases[g]]

\* Faulty variant of Signal: the worker is not told.
NoSignal(g) == signalled' = signalled

\* debugWorker.stop(): the worker is told, and exits on its own.
Signal(g) == signalled' = signalled \cup {g}

\* Faulty variant of StopInfrastructure: the hooks stay installed.
KeepInfrastructure == hooked' = hooked

\* stopInfrastructure: native.stop, dc.stop and the hooks' teardown.
StopInfrastructure == hooked' = {}

\* beginStop of the current session, the calls and coroutines being as the
\* caller left them: the first call tears everything down and rejects whoever
\* waits, every call signals the worker.
BeginStop(g, calls, phases) ==
    /\ IF state = "stopping"
       THEN waiter' = calls /\ phase' = phases /\ UNCHANGED <<state, hooked, url, connected, runtimeReady>>
       ELSE /\ waiter' = RejectWaiters(calls) /\ phase' = RejectAttach(phases)
            /\ state' = "stopping" /\ url' = FALSE
            /\ connected' = FALSE /\ runtimeReady' = FALSE
            /\ StopInfrastructure
    /\ Signal(g)
    /\ UNCHANGED <<generation, worker, everConnected, disconnectError>>

\* Faulty variant of Join: the thread is left behind.
NoJoin(g) == proc' = proc

\* terminate() joins the worker.
Join(g) == proc' = [proc EXCEPT ![g] = "joined"]

\* beginStop if it was not called before, then completeStop: the pipe's
\* handlers are dropped, the worker is joined, everything is reset and the stop
\* promise resolves.
CompleteStop(g) ==
    /\ state' = "idle" /\ worker' = 0 /\ url' = FALSE /\ StopInfrastructure
    /\ connected' = FALSE /\ everConnected' = FALSE /\ runtimeReady' = FALSE /\ disconnectError' = FALSE
    /\ waiter' = Settled(RejectWaiters(waiter), {"stop"}, "ok") /\ phase' = RejectAttach(phase)
    /\ Join(g) /\ Signal(g)
    /\ pipe' = [pipe EXCEPT ![g] = <<>>] /\ client' = client \ {g}
    /\ UNCHANGED <<needs, generation, since>>

\* A wait of the attach coroutines is over: each has a step to do.
GoOn(from, next) == phase' = [g \in Sessions |-> IF phase[g] = from THEN next ELSE phase[g]]

\* What waitForDebugger answers: at once, with a rejection, or later.
DebuggerAnswer(now, rejected, later) ==
    IF runtimeReady THEN now
    ELSE IF state = "stopping" \/ (~connected /\ disconnectError) THEN rejected ELSE later

-----------------------------------------------------------------------------
(* Calls of the API. *)

\* attach up to its first await.  Called in any other state it throws.
Attach ==
    /\ state = "idle" /\ generation < MaxSessions
    /\ generation' = generation + 1
    /\ state' = "attaching" /\ worker' = generation'
    /\ everConnected' = FALSE /\ disconnectError' = FALSE
    /\ phase' = [phase EXCEPT ![generation'] = "ready"]
    /\ proc' = [proc EXCEPT ![generation'] = "starting"]
    /\ UNCHANGED <<needs, hooked, url, connected, runtimeReady, waitVars, signalled, pipe, client>>

\* The channel or the worker cannot be created: beginStop without a worker
\* resets at once.
AttachFails ==
    /\ state = "idle" /\ generation < MaxSessions
    /\ generation' = generation + 1
    /\ everConnected' = FALSE /\ disconnectError' = FALSE
    /\ connected' = FALSE /\ runtimeReady' = FALSE /\ url' = FALSE
    /\ waiter' = RejectWaiters(waiter)
    /\ phase' = [phase EXCEPT ![generation'] = "settled"]
    /\ UNCHANGED <<needs, state, worker, hooked, since, workerVars>>

Begin(w, how) ==
    /\ waiter[w] = "free"
    /\ waiter' = [waiter EXCEPT ![w] = how]
    /\ since' = [since EXCEPT ![w] = IF state = "idle" THEN 0 ELSE generation]
    /\ UNCHANGED <<needs, coreVars, phase, clientVars, workerVars>>

WaitForConnection(w) ==
    Begin(w, IF connected THEN "ok" ELSE IF state = "stopping" THEN "failed" ELSE "client")

WaitForDebugger(w) ==
    Begin(w, DebuggerAnswer("ok", "failed", "debugger"))

\* detach: in a session, the caller awaits the stop promise.
Detach(w) ==
    /\ waiter[w] = "free"
    /\ since' = [since EXCEPT ![w] = IF state = "idle" THEN 0 ELSE generation]
    /\ IF state = "idle"
       THEN /\ waiter' = [RejectWaiters(waiter) EXCEPT ![w] = "ok"]
            /\ UNCHANGED <<coreVars, phase, clientVars, signalled>>
       ELSE BeginStop(generation, [waiter EXCEPT ![w] = "stop"], phase)
    /\ UNCHANGED <<needs, proc, pipe, client>>

\* forceStop joins the worker at once.
ForceStop ==
    IF state = "idle"
    THEN waiter' = RejectWaiters(waiter) /\ UNCHANGED <<needs, coreVars, phase, clientVars, since, workerVars>>
    ELSE CompleteStop(generation)

\* While an attach coroutine has to go on, only callers run whose own wait is over.
MayCall == (\E g \in Sessions : phase[g] \in Continuing) => \E w \in Waiters : waiter[w] = "ok"

Call ==
    /\ MayCall
    /\ \/ Attach \/ AttachFails \/ ForceStop
       \/ \E w \in Waiters : WaitForConnection(w) \/ WaitForDebugger(w) \/ Detach(w)

-----------------------------------------------------------------------------
(* The main loop. *)

\* The catch block of attach, run before the loop goes on.
Unwind(g) ==
    /\ phase[g] = "unwinding"
    /\ IF IsCurrentSession(g)
       THEN BeginStop(g, waiter, [phase EXCEPT ![g] = "settled"])
       ELSE /\ phase' = [phase EXCEPT ![g] = "settled"]
            /\ UNCHANGED <<coreVars, clientVars, waiter, signalled>>
    /\ UNCHANGED <<needs, since, proc, pipe, client>>

\* The end of attach: 'active' if the session is still the current one, be it
\* one that stops; otherwise it throws, and there is nothing to stop.
Ends(g) ==
    /\ phase' = [phase EXCEPT ![g] = "settled"]
    /\ state' = IF IsCurrentSession(g) THEN "active" ELSE state

\* attach after its wait for a client: if it was asked to, it waits for the
\* debugger, whatever has become of its session.
AfterClient(g) ==
    /\ phase[g] = "gotClient"
    /\ IF needs = "client"
       THEN Ends(g)
       ELSE /\ phase' = [phase EXCEPT ![g] = DebuggerAnswer("gotDebugger", "unwinding", "debugger")]
            /\ state' = state
    /\ UNCHANGED <<needs, generation, worker, hooked, url, clientVars, waitVars, workerVars>>

AfterDebugger(g) ==
    /\ phase[g] = "gotDebugger" /\ Ends(g)
    /\ UNCHANGED <<needs, generation, worker, hooked, url, clientVars, waitVars, workerVars>>

Turn == \A g \in Sessions : phase[g] \notin {"unwinding"} \cup Continuing

\* The 30 s timers of the two first waits of attach.
AttachTimeout(g) ==
    /\ Turn /\ phase[g] \in {"ready", "client"}
    /\ phase' = [phase EXCEPT ![g] = "unwinding"]
    /\ UNCHANGED <<needs, coreVars, clientVars, waitVars, workerVars>>

Receive(g, message) ==
    /\ Turn /\ pipe[g] # <<>> /\ Head(pipe[g]) = message
    /\ pipe' = [pipe EXCEPT ![g] = Tail(@)]
    /\ UNCHANGED <<needs, since, proc, client>>

\* onReady, and the attach coroutine up to its next await: nobody but attach
\* awaits the readiness, so that nothing comes in between.  Installing the hooks
\* may throw; a client that is there already is waited for like any other.
OnReady(g) ==
    /\ Receive(g, "ready")
    /\ IF IsCurrentSession(g) /\ phase[g] = "ready"
       THEN \/ /\ url' = TRUE /\ hooked' = hooked \cup {g}
               /\ IF needs = "nothing"
                  THEN Ends(g)
                  ELSE /\ phase' = [phase EXCEPT ![g] = IF connected THEN "gotClient" ELSE "client"]
                       /\ state' = state
               /\ UNCHANGED <<generation, worker, clientVars, waiter, signalled>>
            \/ BeginStop(g, waiter, [phase EXCEPT ![g] = "settled"])
       ELSE UNCHANGED <<coreVars, phase, clientVars, waiter, signalled>>

\* onConnectedChange(true): the waits for a client are over.
OnConnected(g) ==
    /\ Receive(g, "connected")
    /\ IF IsCurrentSession(g)
       THEN /\ connected' = TRUE /\ everConnected' = TRUE /\ disconnectError' = FALSE
            /\ waiter' = Settled(waiter, {"client"}, "ok")
            /\ GoOn("client", "gotClient")
            /\ UNCHANGED runtimeReady
       ELSE UNCHANGED <<phase, clientVars, waiter>>
    /\ UNCHANGED <<coreVars, signalled>>

\* Faulty variant of Left: a client that goes is not remembered.
LeftUnnoticed == disconnectError

\* What disconnectError is after a client went.
Left == everConnected \/ disconnectError

\* onConnectedChange(false): whoever waits for the debugger is rejected.
OnDisconnected(g) ==
    /\ Receive(g, "disconnected")
    /\ IF IsCurrentSession(g)
       THEN /\ connected' = FALSE /\ runtimeReady' = FALSE /\ disconnectError' = Left
            /\ waiter' = Settled(waiter, {"debugger"}, "failed")
            /\ GoOn("debugger", "unwinding")
            /\ UNCHANGED everConnected
       ELSE UNCHANGED <<phase, clientVars, waiter>>
    /\ UNCHANGED <<coreVars, signalled>>

\* onRuntimeReady: the waits for the debugger are over, those of older sessions'
\* coroutines too.
OnRuntimeReady(g) ==
    /\ Receive(g, "runtimeReady")
    /\ IF IsCurrentSession(g)
       THEN /\ runtimeReady' = TRUE
            /\ waiter' = Settled(waiter, {"debugger"}, "ok")
            /\ GoOn("debugger", "gotDebugger")
       ELSE UNCHANGED <<phase, runtimeReady, waiter>>
    /\ UNCHANGED <<coreVars, connected, everConnected, disconnectError, signalled>>

\* onWorkerError, or an error of the pipe.
OnWorkerError(g) ==
    /\ Receive(g, "error")
    /\ IF IsCurrentSession(g) THEN BeginStop(g, waiter, phase)
                              ELSE UNCHANGED <<coreVars, phase, clientVars, waiter, signalled>>

\* handleWorkerClosed: the end of the pipe.
OnClose(g) ==
    /\ Turn /\ pipe[g] # <<>> /\ Head(pipe[g]) = "eof"
    /\ IF IsCurrentSession(g)
       THEN CompleteStop(g)
       ELSE /\ pipe' = [pipe EXCEPT ![g] = Tail(@)]
            /\ UNCHANGED <<needs, coreVars, phase, clientVars, waitVars, proc, signalled, client>>

Loop == \E g \in Sessions :
          \/ Unwind(g) \/ AfterClient(g) \/ AfterDebugger(g) \/ AttachTimeout(g)
          \/ OnReady(g) \/ OnConnected(g) \/ OnDisconnected(g) \/ OnRuntimeReady(g)
          \/ OnWorkerError(g) \/ OnClose(g)

-----------------------------------------------------------------------------
(* The debug worker, as worker/bootstrap.ts and worker/connection.ts drive  *)
(* the lifecycle messages.                                                  *)

Running(g) == proc[g] \in {"starting", "live"}

Post(g, messages) ==
    /\ Len(pipe[g]) < PipeCap
    /\ pipe' = [pipe EXCEPT ![g] = @ \o messages]
    /\ UNCHANGED <<needs, coreVars, phase, clientVars, waitVars, signalled>>

\* The server listens.
ServerStarts(g) ==
    /\ proc[g] = "starting" /\ proc' = [proc EXCEPT ![g] = "live"]
    /\ Post(g, <<"ready">>)
    /\ UNCHANGED client

\* startServer failed, or an uncaught error.
WorkerFails(g) ==
    /\ Running(g)
    /\ Post(g, <<"error">>)
    /\ UNCHANGED <<proc, client>>

\* A DevTools socket, which displaces the one before it.
ClientOpens(g) ==
    /\ proc[g] = "live" /\ client' = client \cup {g}
    /\ Post(g, IF g \in client THEN <<"disconnected", "connected">> ELSE <<"connected">>)
    /\ UNCHANGED proc

ClientCloses(g) ==
    /\ proc[g] = "live" /\ g \in client /\ client' = client \ {g}
    /\ Post(g, <<"disconnected">>)
    /\ UNCHANGED proc

\* Runtime.runIfWaitingForDebugger
ClientRuns(g) ==
    /\ proc[g] = "live" /\ g \in client
    /\ Post(g, <<"runtimeReady">>)
    /\ UNCHANGED <<proc, client>>

\* The thread ends, told to or not; its end of the pipe closes.
WorkerExits(g) ==
    /\ Running(g) /\ proc' = [proc EXCEPT ![g] = "gone"] /\ client' = client \ {g}
    /\ pipe' = [pipe EXCEPT ![g] = Append(@, "eof")]
    /\ UNCHANGED <<needs, coreVars, phase, clientVars, waitVars, signalled>>

Worker == \E g \in Sessions :
            \/ ServerStarts(g) \/ WorkerFails(g) \/ WorkerExits(g)
            \/ ClientOpens(g) \/ ClientCloses(g) \/ ClientRuns(g)

-----------------------------------------------------------------------------
Next == Call \/ Loop \/ Worker

\* The main loop runs, its timers fire, and a worker that was told to stop
\* exits, as its bootstrap does; nobody has to call, connect or fail.
Fairness ==
    \A g \in Sessions :
      /\ WF_vars(Unwind(g)) /\ WF_vars(AfterClient(g)) /\ WF_vars(AfterDebugger(g))
      /\ WF_vars(AttachTimeout(g))
      /\ WF_vars(OnReady(g) \/ OnConnected(g) \/ OnDisconnected(g) \/ OnRuntimeReady(g)
                 \/ OnWorkerError(g) \/ OnClose(g))
      /\ WF_vars(g \in signalled /\ WorkerExits(g))

Spec == Init /\ [][Next]_vars
FairSpec == Spec /\ Fairness

-----------------------------------------------------------------------------
(* Properties. *)

Phases == Awaited \cup Continuing \cup {"none", "unwinding", "settled"}
Pending == {"client", "debugger", "stop"}
Messages == {"ready", "connected", "disconnected", "runtimeReady", "error", "eof"}

\* Every variable keeps the shape the code gives it.
TypeOK ==
    /\ needs \in {"nothing", "client", "debugger"}
    /\ state \in {"idle", "attaching", "active", "stopping"}
    /\ generation \in 0..MaxSessions /\ worker \in 0..MaxSessions
    /\ phase \in [Sessions -> Phases] /\ hooked \subseteq Sessions /\ url \in BOOLEAN
    /\ connected \in BOOLEAN /\ everConnected \in BOOLEAN /\ runtimeReady \in BOOLEAN
    /\ disconnectError \in BOOLEAN
    /\ waiter \in [Waiters -> Pending \cup {"free", "ok", "failed"}]
    /\ since \in [Waiters -> 0..MaxSessions]
    /\ proc \in [Sessions -> {"none", "starting", "live", "gone", "joined"}]
    /\ signalled \subseteq Sessions /\ client \subseteq Sessions
    /\ pipe \in [Sessions -> Seq(Messages)]

\* Hooks and the native callback of a session are live exactly while its url is
\* announced, only as long as it attaches or is active and nothing has told its
\* worker to stop; an active session that was not told to stop has them.
\* Forgotten hooks would go on reporting into a pipe that is gone.
HooksFollowSession ==
    /\ hooked = IF url THEN {generation} ELSE {}
    /\ url => state \in {"attaching", "active"} /\ generation \notin signalled
    /\ state = "active" => url \/ generation \in signalled

\* Nobody is forgotten: a call that began to wait in a session is settled when
\* that session is over, and never carried into a later one.
NobodyForgotten ==
    \A w \in Waiters : waiter[w] \in Pending /\ since[w] # 0 => since[w] = generation /\ state # "idle"

\* Nobody waits for the debugger of a client that has left: in a session whose
\* worker was not told to stop, such a wait means that no client came yet or that
\* one is there.  (In one that was, the wait fails with the session.)
DebuggerWaitHasAClient ==
    /\ state \in {"attaching", "active"} /\ generation \notin signalled
    /\ \E w \in Waiters : waiter[w] = "debugger" /\ since[w] # 0
    => connected \/ ~everConnected

\* Nobody waits for ever: a session that starts to stop is over at some time, and
\* with it the detach calls that wait for it; and attach, up to the wait for a
\* client, succeeds or fails.
CallsSettle ==
    /\ state = "stopping" ~> state = "idle"
    /\ \A g \in Sessions : phase[g] \in {"ready", "client"} ~> phase[g] \in {"debugger", "settled"}

StopBegins == state \in {"attaching", "active"} /\ state' = "stopping"
HasReason == \/ \E w \in Waiters : waiter[w] = "free" /\ waiter'[w] = "stop"
             \/ phase[generation] = "unwinding"
             \/ pipe[generation] # <<>> /\ Head(pipe[generation]) \in {"ready", "error"}

\* A session ends for a reason of its own: an attach of an older session that
\* unwinds late, or a late message of an older worker, stops nothing.
StopHasItsOwnReason == [][StopBegins => HasReason]_vars

\* The sessions are those of InspectorLife, where one whose worker was told to
\* stop is stopping until it is over, although its attach may call it active.
Life == INSTANCE InspectorLife WITH
    life <- IF state = "active" /\ generation \in signalled THEN "stopping" ELSE state,
    session <- generation,
    reaped <- {g \in 1..generation : proc[g] \in {"none", "joined"}}

SessionsFollowLife == Life!LifeSpec
=============================================================================
