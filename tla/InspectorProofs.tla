-------------------------- MODULE InspectorProofs --------------------------
(***************************************************************************)
(* The theorems about the inspector: of the sessions of one Inspector      *)
(* first, then of the bridge that opens and closes Inspectors.             *)
(***************************************************************************)
EXTENDS InspectorSession, InspectorBridge, SequenceTheorems, TLAPS

-----------------------------------------------------------------------------
(*                                 Sessions                                *)


-----------------------------------------------------------------------------
(* The inductive invariant: how the variables of a session fit together.   *)

\* Between its start and its end a session has a worker, the current one.
WorkerIsCurrent ==
    /\ worker = IF state = "idle" THEN 0 ELSE generation
    /\ state # "idle" => generation \in Sessions

\* Only the current session has a thread that is not joined, or a message in
\* flight, and no session is ahead of the generation.
ThreadsFit ==
    \A g \in Sessions :
      /\ proc[g] \in {"starting", "live", "gone"} <=> state # "idle" /\ g = generation
      /\ g > generation => proc[g] = "none" /\ phase[g] = "none"
      /\ pipe[g] # <<>> => state # "idle" /\ g = generation

\* Only the session that attaches awaits its worker or a client; its coroutine is
\* at an await, or on its way from one, and has announced the url once it is past
\* the readiness of its worker.  An active session's attach is over.
PhasesFit ==
    /\ \A g \in Sessions : phase[g] \in {"ready", "client"} => state = "attaching" /\ g = generation
    /\ state = "attaching" => phase[generation] \in Awaited \cup Continuing \cup {"unwinding"}
    /\ state = "active" => phase[generation] = "settled"
    /\ state = "attaching" /\ phase[generation] \in {"client", "debugger"} \cup Continuing => url

\* The worker of a session that stops was told to; one that attaches, or is still
\* to come, was not.
SignalsFit ==
    /\ \A g \in signalled : g <= generation
    /\ state = "attaching" => generation \notin signalled
    /\ state = "stopping" => generation \in signalled

\* A client that came and left is remembered, but for a session that was stopped.
LeftIsKnown ==
    state \in {"attaching", "active"} /\ generation \notin signalled /\ everConnected /\ ~connected => disconnectError

SessionInv ==
    /\ WorkerIsCurrent /\ ThreadsFit /\ PhasesFit /\ SignalsFit /\ LeftIsKnown
    /\ HooksFollowSession /\ NobodyForgotten /\ DebuggerWaitHasAClient

-----------------------------------------------------------------------------
(* Types, in the groups the operations change together.                    *)

Calls == [Waiters -> Pending \cup {"free", "ok", "failed"}]

CoreOK ==
    /\ state \in {"idle", "attaching", "active", "stopping"}
    /\ generation \in 0..MaxSessions /\ worker \in 0..MaxSessions
    /\ hooked \subseteq Sessions /\ url \in BOOLEAN

ClientOK ==
    /\ connected \in BOOLEAN /\ everConnected \in BOOLEAN /\ runtimeReady \in BOOLEAN
    /\ disconnectError \in BOOLEAN

PhaseOK == phase \in [Sessions -> Phases]
CallsOK == waiter \in Calls
SinceOK == since \in [Waiters -> 0..MaxSessions]
PipeOK == pipe \in [Sessions -> Seq(Messages)]
ThreadOK ==
    /\ proc \in [Sessions -> {"none", "starting", "live", "gone", "joined"}]
    /\ signalled \subseteq Sessions /\ client \subseteq Sessions

AllOK ==
    /\ needs \in {"nothing", "client", "debugger"}
    /\ CoreOK /\ ClientOK /\ PhaseOK /\ CallsOK /\ SinceOK /\ PipeOK /\ ThreadOK

\* The groups make up the type invariant.
LEMMA Groups == (TypeOK <=> AllOK) /\ (TypeOK <=> AllOK)'
  BY DEF AllOK, TypeOK, CoreOK, ClientOK, PhaseOK, CallsOK, SinceOK, PipeOK, ThreadOK, Calls

\* A group is kept by a step that leaves its variables alone.
LEMMA Kept ==
    /\ CoreOK /\ UNCHANGED coreVars => CoreOK'
    /\ ClientOK /\ UNCHANGED clientVars => ClientOK'
    /\ PhaseOK /\ UNCHANGED phase => PhaseOK'
    /\ CallsOK /\ UNCHANGED waiter => CallsOK'
    /\ SinceOK /\ UNCHANGED since => SinceOK'
    /\ PipeOK /\ UNCHANGED pipe => PipeOK'
    /\ ThreadOK /\ UNCHANGED <<proc, signalled, client>> => ThreadOK'
  BY DEF CoreOK, ClientOK, PhaseOK, CallsOK, SinceOK, PipeOK, ThreadOK, coreVars, clientVars

\* Settling calls gives calls, rejecting attach coroutines gives phases.
LEMMA SettlingIsTyped ==
    /\ \A calls \in Calls, how \in {"ok", "failed"} : \A kinds : Settled(calls, kinds, how) \in Calls
    /\ \A calls \in Calls : RejectWaiters(calls) \in Calls
    /\ \A phases \in [Sessions -> Phases] : RejectAttach(phases) \in [Sessions -> Phases]
  BY DEF Calls, Settled, RejectWaiters, RejectAttach, Phases

\* beginStop.
LEMMA BeginStopTyped ==
    ASSUME CoreOK, ClientOK, signalled \subseteq Sessions,
           NEW g \in Sessions, NEW calls \in Calls, NEW phases \in [Sessions -> Phases],
           BeginStop(g, calls, phases)
    PROVE  CoreOK' /\ ClientOK' /\ CallsOK' /\ PhaseOK' /\ (signalled \subseteq Sessions)'
  <1>1. signalled' \subseteq Sessions
    BY DEF BeginStop, Signal
  <1>2. CASE state = "stopping"
    BY <1>1, <1>2, Zenon DEF BeginStop, CoreOK, ClientOK, CallsOK, PhaseOK
  <1>3. CASE state # "stopping"
    <2>1. waiter' \in Calls /\ phase' \in [Sessions -> Phases]
      BY <1>3, SettlingIsTyped DEF BeginStop
    <2>2. state' = "stopping" /\ url' = FALSE /\ hooked' = {} /\ connected' = FALSE /\ runtimeReady' = FALSE
          /\ UNCHANGED <<generation, worker, everConnected, disconnectError>>
      BY <1>3 DEF BeginStop, StopInfrastructure
    <2>3. CoreOK'
      BY <2>2 DEF CoreOK
    <2>4. ClientOK'
      BY <2>2, Zenon DEF ClientOK
    <2> QED BY <1>1, <2>1, <2>3, <2>4 DEF CallsOK, PhaseOK
  <1> QED BY <1>2, <1>3

\* completeStop.
LEMMA CompleteStopTyped ==
    ASSUME TypeOK, NEW g \in Sessions, CompleteStop(g)
    PROVE  TypeOK'
  <1>1. CoreOK /\ ClientOK /\ PhaseOK /\ CallsOK /\ SinceOK /\ PipeOK /\ ThreadOK
    BY Groups DEF AllOK
  <1>2. CoreOK'
    <2>1. state' = "idle" /\ worker' = 0 /\ url' = FALSE /\ hooked' = {} /\ generation' = generation
      BY DEF CompleteStop, StopInfrastructure
    <2>2. worker' \in 0..MaxSessions /\ generation' \in 0..MaxSessions
      BY <1>1, <2>1, SessionsAssumption DEF CoreOK
    <2> QED BY <2>1, <2>2, Zenon DEF CoreOK
  <1>3. ClientOK'
    BY Zenon DEF CompleteStop, ClientOK
  <1>4. CallsOK' /\ PhaseOK'
    <2>1. RejectWaiters(waiter) \in Calls /\ RejectAttach(phase) \in [Sessions -> Phases]
      BY <1>1, SettlingIsTyped DEF CallsOK, PhaseOK
    <2>2. Settled(RejectWaiters(waiter), {"stop"}, "ok") \in Calls
      BY <2>1, SettlingIsTyped
    <2>3. waiter' = Settled(RejectWaiters(waiter), {"stop"}, "ok") /\ phase' = RejectAttach(phase)
      BY DEF CompleteStop
    <2> QED BY <2>1, <2>2, <2>3 DEF CallsOK, PhaseOK
  <1>5. SinceOK' /\ needs' = needs
    BY <1>1 DEF CompleteStop, SinceOK
  <1>6. ThreadOK'
    BY <1>1 DEF CompleteStop, ThreadOK, Join, Signal
  <1>7. <<>> \in Seq(Messages)
    BY EmptySeq
  <1>8. PipeOK'
    BY <1>1, <1>7 DEF CompleteStop, PipeOK
  <1> QED BY <1>2, <1>3, <1>4, <1>5, <1>6, <1>8, <1>1, Groups DEF AllOK

\* What a worker posts.
LEMMA PostTyped ==
    ASSUME TypeOK, NEW g \in Sessions, NEW messages \in Seq(Messages),
           Post(g, messages), proc' \in [Sessions -> {"none", "starting", "live", "gone", "joined"}],
           client' \subseteq Sessions
    PROVE  TypeOK'
  <1>1. CoreOK /\ ClientOK /\ PhaseOK /\ CallsOK /\ SinceOK /\ PipeOK /\ ThreadOK
    BY Groups DEF AllOK
  <1>2. CoreOK' /\ ClientOK' /\ PhaseOK' /\ CallsOK' /\ SinceOK' /\ needs' = needs
    BY <1>1, Kept DEF Post, waitVars
  <1>3. pipe[g] \in Seq(Messages)
    BY <1>1 DEF PipeOK
  <1>4. pipe[g] \o messages \in Seq(Messages)
    BY <1>3, ConcatProperties
  <1>5. PipeOK'
    BY <1>1, <1>4 DEF Post, PipeOK
  <1>6. ThreadOK'
    BY <1>1 DEF Post, ThreadOK
  <1> QED BY <1>1, <1>2, <1>5, <1>6, Groups DEF AllOK

\* A message taken from a pipe.
LEMMA TailTyped ==
    ASSUME TypeOK, NEW g \in Sessions, pipe[g] # <<>>, pipe' = [pipe EXCEPT ![g] = Tail(@)]
    PROVE  PipeOK'
  <1>1. pipe[g] \in Seq(Messages)
    BY DEF TypeOK
  <1>2. Tail(pipe[g]) \in Seq(Messages)
    BY <1>1, HeadTailProperties
  <1> QED BY <1>2 DEF TypeOK, PipeOK

\* One message of each kind, and their sequences.
LEMMA MessagesTyped ==
    /\ \A m \in Messages : <<m>> \in Seq(Messages)
    /\ <<"disconnected", "connected">> \in Seq(Messages)
  BY DEF Messages

\* What the steps of attach coroutines do.
LEMMA GoOnTyped ==
    ASSUME PhaseOK, NEW from, NEW next \in Phases, GoOn(from, next)
    PROVE  PhaseOK'
  BY DEF PhaseOK, GoOn

LEMMA EndsTyped ==
    ASSUME PhaseOK, state \in {"idle", "attaching", "active", "stopping"}, NEW g \in Sessions, Ends(g)
    PROVE  PhaseOK' /\ state' \in {"idle", "attaching", "active", "stopping"}
  BY DEF PhaseOK, Phases, Ends

LEMMA AnswerTyped == \A now, rejected, later : DebuggerAnswer(now, rejected, later) \in {now, rejected, later}
  BY Zenon DEF DebuggerAnswer

-----------------------------------------------------------------------------
(* Type correctness.                                                       *)

LEMMA CallTyped ==
    ASSUME TypeOK, WorkerIsCurrent, Call
    PROVE  TypeOK'
  <1>1. AllOK
    BY Groups
  <1>2. CASE Attach
    <2>1. generation' \in Sessions /\ generation' \in 0..MaxSessions
      BY <1>1, <1>2, SessionsAssumption DEF Attach, AllOK, CoreOK, Sessions
    <2>2. CoreOK'
      BY <1>1, <1>2, <2>1 DEF Attach, AllOK, CoreOK
    <2>3. ClientOK'
      BY <1>1, <1>2, Zenon DEF Attach, AllOK, ClientOK
    <2>4. PhaseOK' /\ ThreadOK'
      BY <1>1, <1>2, <2>1 DEF Attach, AllOK, PhaseOK, ThreadOK, Phases, Awaited
    <2>5. CallsOK' /\ SinceOK' /\ PipeOK' /\ needs' = needs
      BY <1>1, <1>2, Kept DEF Attach, AllOK, waitVars
    <2> QED BY <1>1, <2>2, <2>3, <2>4, <2>5, Groups DEF AllOK
  <1>3. CASE AttachFails
    <2>1. generation' \in Sessions /\ generation' \in 0..MaxSessions
      BY <1>1, <1>3, SessionsAssumption DEF AttachFails, AllOK, CoreOK, Sessions
    <2>2. CoreOK'
      BY <1>1, <1>3, <2>1 DEF AttachFails, AllOK, CoreOK
    <2>3. ClientOK'
      BY <1>1, <1>3, Zenon DEF AttachFails, AllOK, ClientOK
    <2>4. PhaseOK'
      BY <1>1, <1>3, <2>1 DEF AttachFails, AllOK, PhaseOK, Phases
    <2>5. RejectWaiters(waiter) \in Calls
      BY <1>1, SettlingIsTyped DEF AllOK, CallsOK
    <2>6. CallsOK' /\ SinceOK' /\ PipeOK' /\ ThreadOK' /\ needs' = needs
      BY <1>1, <1>3, <2>5, Kept DEF AttachFails, AllOK, CallsOK, workerVars
    <2> QED BY <1>1, <2>2, <2>3, <2>4, <2>6, Groups DEF AllOK
  <1>4. CASE ForceStop
    <2>1. RejectWaiters(waiter) \in Calls
      BY <1>1, SettlingIsTyped DEF AllOK, CallsOK
    <2>2. CASE state = "idle"
      <3>1. CallsOK'
        BY <1>4, <2>1, <2>2 DEF ForceStop, CallsOK
      <3>2. CoreOK' /\ ClientOK' /\ PhaseOK' /\ SinceOK' /\ PipeOK' /\ ThreadOK' /\ needs' = needs
        BY <1>1, <1>4, <2>2, Kept DEF ForceStop, AllOK, workerVars
      <3> QED BY <1>1, <3>1, <3>2, Groups DEF AllOK
    <2>3. CASE state # "idle"
      BY <1>4, <2>3, CompleteStopTyped DEF ForceStop, WorkerIsCurrent
    <2> QED BY <2>2, <2>3
  <1>5. ASSUME NEW w \in Waiters, NEW how \in Pending \cup {"ok", "failed"}, Begin(w, how)
        PROVE  TypeOK'
    <2>1. CallsOK' /\ SinceOK'
      BY <1>1, <1>5, SessionsAssumption DEF Begin, AllOK, CallsOK, SinceOK, Calls, CoreOK
    <2>2. CoreOK' /\ ClientOK' /\ PhaseOK' /\ PipeOK' /\ ThreadOK' /\ needs' = needs
      BY <1>1, <1>5, Kept DEF Begin, AllOK, workerVars
    <2> QED BY <1>1, <2>1, <2>2, Groups DEF AllOK
  <1>6. ASSUME NEW w \in Waiters, WaitForConnection(w) \/ WaitForDebugger(w)
        PROVE  TypeOK'
    <2>1. DebuggerAnswer("ok", "failed", "debugger") \in {"ok", "failed", "debugger"}
      BY AnswerTyped
    <2> QED BY <1>5, <1>6, <2>1 DEF WaitForConnection, WaitForDebugger, Pending
  <1>7. ASSUME NEW w \in Waiters, Detach(w)
        PROVE  TypeOK'
    <2>1. SinceOK'
      BY <1>1, <1>7, SessionsAssumption DEF Detach, AllOK, SinceOK, CoreOK
    <2>2. PipeOK' /\ needs' = needs /\ UNCHANGED <<proc, client>>
      BY <1>1, <1>7, Kept DEF Detach, AllOK
    <2>3. CASE state = "idle"
      <3>1. RejectWaiters(waiter) \in Calls
        BY <1>1, SettlingIsTyped DEF AllOK, CallsOK
      <3>2. CallsOK'
        BY <1>7, <2>3, <3>1 DEF Detach, CallsOK, Calls
      <3>3. CoreOK' /\ ClientOK' /\ PhaseOK' /\ ThreadOK'
        BY <1>1, <1>7, <2>2, <2>3, Kept DEF Detach, AllOK
      <3> QED BY <1>1, <2>1, <2>2, <3>2, <3>3, Groups DEF AllOK
    <2>4. CASE state # "idle"
      <3>1. [waiter EXCEPT ![w] = "stop"] \in Calls
        BY <1>1 DEF AllOK, CallsOK, Calls, Pending
      <3>2. BeginStop(generation, [waiter EXCEPT ![w] = "stop"], phase)
        BY <1>7, <2>4 DEF Detach
      <3>3. CoreOK' /\ ClientOK' /\ CallsOK' /\ PhaseOK' /\ (signalled \subseteq Sessions)'
        BY <1>1, <2>4, <3>1, <3>2, BeginStopTyped DEF AllOK, PhaseOK, ThreadOK, WorkerIsCurrent
      <3>4. ThreadOK'
        BY <1>1, <2>2, <3>3 DEF AllOK, ThreadOK
      <3> QED BY <1>1, <2>1, <2>2, <3>3, <3>4, Groups DEF AllOK
    <2> QED BY <2>3, <2>4
  <1> QED BY <1>2, <1>3, <1>4, <1>6, <1>7 DEF Call

\* The catch block of attach.
LEMMA UnwindTyped ==
    ASSUME TypeOK, NEW g \in Sessions, Unwind(g)
    PROVE  TypeOK'
  <1>1. AllOK
    BY Groups
  <1>2. SinceOK' /\ PipeOK' /\ needs' = needs /\ UNCHANGED <<proc, client>>
    BY <1>1, Kept DEF Unwind, AllOK
  <1>3. [phase EXCEPT ![g] = "settled"] \in [Sessions -> Phases]
    BY <1>1 DEF AllOK, PhaseOK, Phases
  <1>4. CASE IsCurrentSession(g)
    <2>1. CoreOK' /\ ClientOK' /\ CallsOK' /\ PhaseOK' /\ (signalled \subseteq Sessions)'
      BY <1>1, <1>3, <1>4, BeginStopTyped DEF Unwind, AllOK, CallsOK, ThreadOK
    <2>2. ThreadOK'
      BY <1>1, <1>2, <2>1 DEF AllOK, ThreadOK
    <2> QED BY <1>1, <1>2, <2>1, <2>2, Groups DEF AllOK
  <1>5. CASE ~IsCurrentSession(g)
    <2>1. CoreOK' /\ ClientOK' /\ CallsOK' /\ ThreadOK'
      BY <1>1, <1>2, <1>5, Kept DEF Unwind, AllOK
    <2>2. PhaseOK'
      BY <1>3, <1>5 DEF Unwind, PhaseOK
    <2> QED BY <1>1, <1>2, <2>1, <2>2, Groups DEF AllOK
  <1> QED BY <1>4, <1>5

\* attach goes on after a wait.
LEMMA ContinuationTyped ==
    ASSUME TypeOK, NEW g \in Sessions, AfterClient(g) \/ AfterDebugger(g)
    PROVE  TypeOK'
  <1>1. AllOK
    BY Groups
  <1>2. UNCHANGED <<needs, generation, worker, hooked, url, clientVars, waitVars, workerVars>>
    BY DEF AfterClient, AfterDebugger
  <1>3. PhaseOK' /\ state' \in {"idle", "attaching", "active", "stopping"}
    <2>1. CASE Ends(g)
      BY <1>1, <2>1, EndsTyped DEF AllOK, CoreOK
    <2>2. CASE ~Ends(g)
      <3>1. PICK next : next = DebuggerAnswer("gotDebugger", "unwinding", "debugger")
        OBVIOUS
      <3>2. next \in Phases
        BY <3>1, AnswerTyped DEF Phases, Awaited, Continuing
      <3>3. phase' = [phase EXCEPT ![g] = next] /\ state' = state
        BY <2>2, <3>1 DEF AfterClient, AfterDebugger
      <3> QED BY <1>1, <3>2, <3>3 DEF AllOK, CoreOK, PhaseOK
    <2> QED BY <2>1, <2>2
  <1>4. CoreOK'
    BY <1>1, <1>2, <1>3 DEF AllOK, CoreOK
  <1>5. ClientOK' /\ CallsOK' /\ SinceOK' /\ PipeOK' /\ ThreadOK'
    BY <1>1, <1>2, Kept DEF AllOK, waitVars, workerVars
  <1> QED BY <1>1, <1>2, <1>3, <1>4, <1>5, Groups DEF AllOK

LEMMA AttachTimeoutTyped ==
    ASSUME TypeOK, NEW g \in Sessions, AttachTimeout(g)
    PROVE  TypeOK'
  <1>1. AllOK
    BY Groups
  <1>2. PhaseOK'
    BY <1>1 DEF AttachTimeout, AllOK, PhaseOK, Phases
  <1>3. CoreOK' /\ ClientOK' /\ CallsOK' /\ SinceOK' /\ PipeOK' /\ ThreadOK' /\ needs' = needs
    BY <1>1, Kept DEF AttachTimeout, AllOK, waitVars, workerVars
  <1> QED BY <1>1, <1>2, <1>3, Groups DEF AllOK

\* What every handler of a message shares.
LEMMA ReceiveTyped ==
    ASSUME TypeOK, NEW g \in Sessions, NEW m, Receive(g, m)
    PROVE  /\ SinceOK' /\ PipeOK' /\ needs' = needs /\ UNCHANGED <<proc, client>>
           /\ CoreOK' /\ ClientOK' /\ CallsOK' /\ PhaseOK' /\ (signalled \subseteq Sessions)' => TypeOK'
  <1>1. AllOK
    BY Groups
  <1>2. SinceOK' /\ PipeOK' /\ needs' = needs /\ UNCHANGED <<proc, client>>
    BY <1>1, Kept, TailTyped DEF Receive, AllOK
  <1>3. (signalled \subseteq Sessions)' => ThreadOK'
    BY <1>1, <1>2 DEF AllOK, ThreadOK
  <1> QED BY <1>1, <1>2, <1>3, Groups DEF AllOK

LEMMA OnReadyTyped ==
    ASSUME TypeOK, NEW g \in Sessions, OnReady(g)
    PROVE  TypeOK'
  <1>1. AllOK /\ Receive(g, "ready")
    BY Groups DEF OnReady
  <1> DEFINE active == IsCurrentSession(g) /\ phase[g] = "ready"
  <1> HIDE DEF active
  <1>2. CASE /\ active /\ hooked' = hooked \cup {g} /\ url' = TRUE
             /\ \/ Ends(g)
                \/ phase' = [phase EXCEPT ![g] = IF connected THEN "gotClient" ELSE "client"] /\ state' = state
             /\ UNCHANGED <<generation, worker, clientVars, waiter, signalled>>
    <2>1. (IF connected THEN "gotClient" ELSE "client") \in Phases
      BY Zenon DEF Phases, Awaited, Continuing
    <2>2. PhaseOK' /\ state' \in {"idle", "attaching", "active", "stopping"}
      <3>1. CASE Ends(g)
        BY <1>1, <3>1, EndsTyped DEF AllOK, CoreOK
      <3>2. CASE phase' = [phase EXCEPT ![g] = IF connected THEN "gotClient" ELSE "client"] /\ state' = state
        BY <1>1, <2>1, <3>2 DEF AllOK, CoreOK, PhaseOK
      <3> QED BY <1>2, <3>1, <3>2
    <2>3. CoreOK'
      BY <1>1, <1>2, <2>2 DEF AllOK, CoreOK
    <2>4. ClientOK' /\ CallsOK' /\ (signalled \subseteq Sessions)'
      BY <1>1, <1>2, Kept DEF AllOK, ThreadOK
    <2> QED BY <1>1, <2>2, <2>3, <2>4, ReceiveTyped
  <1>3. CASE BeginStop(g, waiter, [phase EXCEPT ![g] = "settled"])
    <2>1. [phase EXCEPT ![g] = "settled"] \in [Sessions -> Phases]
      BY <1>1 DEF AllOK, PhaseOK, Phases
    <2>2. CoreOK' /\ ClientOK' /\ CallsOK' /\ PhaseOK' /\ (signalled \subseteq Sessions)'
      BY <1>1, <1>3, <2>1, BeginStopTyped DEF AllOK, CallsOK, ThreadOK
    <2> QED BY <1>1, <2>2, ReceiveTyped
  <1>4. CASE UNCHANGED <<coreVars, phase, clientVars, waiter, signalled>>
    <2>1. CoreOK' /\ ClientOK' /\ CallsOK' /\ PhaseOK' /\ (signalled \subseteq Sessions)'
      BY <1>1, <1>4, Kept DEF AllOK, ThreadOK
    <2> QED BY <1>1, <2>1, ReceiveTyped
  <1> QED BY <1>2, <1>3, <1>4 DEF OnReady, active

\* The handlers that answer with a rejection or a resolution of calls.
LEMMA ClientMessageTyped ==
    ASSUME TypeOK, NEW g \in Sessions, OnConnected(g) \/ OnDisconnected(g) \/ OnRuntimeReady(g)
    PROVE  TypeOK'
  <1>1. AllOK
    BY Groups
  <1>2. CASE OnConnected(g)
    <2>1. Receive(g, "connected") /\ UNCHANGED <<coreVars, signalled>>
      BY <1>2 DEF OnConnected
    <2>2. "gotClient" \in Phases
      BY DEF Phases, Continuing
    <2>3. PhaseOK'
      BY <1>1, <1>2, <2>2, GoOnTyped, Kept DEF OnConnected, AllOK
    <2>4. CoreOK' /\ (signalled \subseteq Sessions)'
      BY <1>1, <2>1, Kept DEF AllOK, ThreadOK
    <2>5. ClientOK'
      BY <1>1, <1>2, Zenon DEF OnConnected, AllOK, ClientOK, clientVars
    <2>6. Settled(waiter, {"client"}, "ok") \in Calls
      BY <1>1, SettlingIsTyped DEF AllOK, CallsOK
    <2>7. CallsOK'
      BY <1>1, <1>2, <2>6 DEF OnConnected, AllOK, CallsOK
    <2> QED BY <2>1, <2>3, <2>4, <2>5, <2>7, ReceiveTyped
  <1>3. CASE OnDisconnected(g)
    <2>1. Receive(g, "disconnected") /\ UNCHANGED <<coreVars, signalled>>
      BY <1>3 DEF OnDisconnected
    <2>2. PhaseOK'
      <3>1. "unwinding" \in Phases
        BY DEF Phases
      <3> QED BY <1>1, <1>3, <3>1, GoOnTyped, Kept DEF OnDisconnected, AllOK
    <2>3. CoreOK' /\ (signalled \subseteq Sessions)'
      BY <1>1, <2>1, Kept DEF AllOK, ThreadOK
    <2>4. Left \in BOOLEAN
      BY <1>1, Zenon DEF AllOK, ClientOK, Left
    <2>5. ClientOK'
      BY <1>1, <1>3, <2>4, Zenon DEF OnDisconnected, AllOK, ClientOK, clientVars
    <2>6. Settled(waiter, {"debugger"}, "failed") \in Calls
      BY <1>1, SettlingIsTyped DEF AllOK, CallsOK
    <2>7. CallsOK'
      BY <1>1, <1>3, <2>6 DEF OnDisconnected, AllOK, CallsOK
    <2> QED BY <2>1, <2>2, <2>3, <2>5, <2>7, ReceiveTyped
  <1>4. CASE OnRuntimeReady(g)
    <2>1. Receive(g, "runtimeReady")
          /\ UNCHANGED <<coreVars, connected, everConnected, disconnectError, signalled>>
      BY <1>4 DEF OnRuntimeReady
    <2>2. "gotDebugger" \in Phases
      BY DEF Phases, Continuing
    <2>3. PhaseOK'
      BY <1>1, <1>4, <2>2, GoOnTyped, Kept DEF OnRuntimeReady, AllOK
    <2>4. CoreOK' /\ (signalled \subseteq Sessions)'
      BY <1>1, <2>1, Kept DEF AllOK, ThreadOK
    <2>5. ClientOK'
      BY <1>1, <1>4, Zenon DEF OnRuntimeReady, AllOK, ClientOK
    <2>6. Settled(waiter, {"debugger"}, "ok") \in Calls
      BY <1>1, SettlingIsTyped DEF AllOK, CallsOK
    <2>7. CallsOK'
      BY <1>1, <1>4, <2>6 DEF OnRuntimeReady, AllOK, CallsOK
    <2> QED BY <2>1, <2>3, <2>4, <2>5, <2>7, ReceiveTyped
  <1> QED BY <1>2, <1>3, <1>4

LEMMA LastMessageTyped ==
    ASSUME TypeOK, NEW g \in Sessions, OnWorkerError(g) \/ OnClose(g)
    PROVE  TypeOK'
  <1>1. AllOK
    BY Groups
  <1>2. CASE OnWorkerError(g)
    <2>1. CASE BeginStop(g, waiter, phase)
      BY <1>1, <1>2, <2>1, BeginStopTyped, ReceiveTyped DEF OnWorkerError, AllOK, CallsOK, PhaseOK, ThreadOK
    <2>2. CASE UNCHANGED <<coreVars, phase, clientVars, waiter, signalled>>
      <3>1. CoreOK' /\ ClientOK' /\ CallsOK' /\ PhaseOK' /\ (signalled \subseteq Sessions)'
        BY <1>1, <2>2, Kept DEF AllOK, ThreadOK
      <3> QED BY <1>2, <3>1, ReceiveTyped DEF OnWorkerError
    <2> QED BY <1>2, <2>1, <2>2 DEF OnWorkerError
  <1>3. CASE OnClose(g)
    <2>1. CASE CompleteStop(g)
      BY <2>1, CompleteStopTyped
    <2>2. CASE ~IsCurrentSession(g)
      <3>1. pipe' = [pipe EXCEPT ![g] = Tail(@)] /\ pipe[g] # <<>>
            /\ UNCHANGED <<needs, coreVars, phase, clientVars, waitVars, proc, signalled, client>>
        BY <1>3, <2>2 DEF OnClose
      <3>2. PipeOK'
        BY <3>1, TailTyped
      <3>3. CoreOK' /\ ClientOK' /\ CallsOK' /\ PhaseOK' /\ SinceOK' /\ ThreadOK'
        BY <1>1, <3>1, Kept DEF AllOK, waitVars
      <3> QED BY <1>1, <3>1, <3>2, <3>3, Groups DEF AllOK
    <2> QED BY <1>3, <2>1, <2>2 DEF OnClose
  <1> QED BY <1>2, <1>3

LEMMA WorkerTyped ==
    ASSUME TypeOK, NEW g \in Sessions,
           ServerStarts(g) \/ WorkerFails(g) \/ WorkerExits(g) \/ ClientOpens(g) \/ ClientCloses(g) \/ ClientRuns(g)
    PROVE  TypeOK'
  <1>1. AllOK
    BY Groups
  <1>2. CASE WorkerExits(g)
    <2>1. ThreadOK'
      BY <1>1, <1>2 DEF WorkerExits, AllOK, ThreadOK
    <2>2. pipe[g] \in Seq(Messages) /\ "eof" \in Messages
      BY <1>1 DEF AllOK, PipeOK, Messages
    <2>3. Append(pipe[g], "eof") \in Seq(Messages)
      BY <2>2, AppendProperties
    <2>4. PipeOK'
      BY <1>1, <1>2, <2>3 DEF WorkerExits, AllOK, PipeOK
    <2>5. CoreOK' /\ ClientOK' /\ CallsOK' /\ PhaseOK' /\ SinceOK' /\ needs' = needs
      BY <1>1, <1>2, Kept DEF WorkerExits, AllOK, waitVars
    <2> QED BY <1>1, <2>1, <2>4, <2>5, Groups DEF AllOK
  <1>3. CASE ServerStarts(g)
    BY <1>1, <1>3, PostTyped, MessagesTyped DEF ServerStarts, AllOK, ThreadOK, Messages
  <1>4. CASE WorkerFails(g)
    BY <1>1, <1>4, PostTyped, MessagesTyped DEF WorkerFails, AllOK, ThreadOK, Messages
  <1>5. CASE ClientOpens(g)
    BY <1>1, <1>5, PostTyped, MessagesTyped DEF ClientOpens, AllOK, ThreadOK, Messages
  <1>6. CASE ClientCloses(g)
    BY <1>1, <1>6, PostTyped, MessagesTyped DEF ClientCloses, AllOK, ThreadOK, Messages
  <1>7. CASE ClientRuns(g)
    BY <1>1, <1>7, PostTyped, MessagesTyped DEF ClientRuns, AllOK, ThreadOK, Messages
  <1> QED BY <1>2, <1>3, <1>4, <1>5, <1>6, <1>7

LEMMA TypesKept ==
    ASSUME TypeOK, WorkerIsCurrent, Next
    PROVE  TypeOK'
  BY CallTyped, UnwindTyped, ContinuationTyped, AttachTimeoutTyped, OnReadyTyped, ClientMessageTyped, LastMessageTyped, WorkerTyped
     DEF Next, Loop, Worker

-----------------------------------------------------------------------------
(* The invariant is inductive.                                             *)

\* Each part is kept by a step that leaves its variables alone.
LEMMA PartsKept ==
    /\ WorkerIsCurrent /\ UNCHANGED <<state, generation, worker>> => WorkerIsCurrent'
    /\ ThreadsFit /\ UNCHANGED <<state, generation, proc, pipe, phase>> => ThreadsFit'
    /\ PhasesFit /\ UNCHANGED <<state, generation, phase, url>> => PhasesFit'
    /\ SignalsFit /\ UNCHANGED <<state, generation, signalled>> => SignalsFit'
    /\ LeftIsKnown /\ UNCHANGED <<state, generation, signalled, everConnected, connected, disconnectError>> => LeftIsKnown'
    /\ HooksFollowSession /\ UNCHANGED <<state, generation, signalled, hooked, url>> => HooksFollowSession'
    /\ NobodyForgotten /\ UNCHANGED <<waiter, since, state, generation>> => NobodyForgotten'
    /\ DebuggerWaitHasAClient /\ UNCHANGED <<waiter, since, state, generation, signalled, connected, everConnected>> =>
         DebuggerWaitHasAClient'
  BY DEF WorkerIsCurrent, ThreadsFit, PhasesFit, SignalsFit, LeftIsKnown, HooksFollowSession, NobodyForgotten, DebuggerWaitHasAClient

\* Settling calls makes no call pending that was not, and leaves none of the
\* kinds that it settles.
LEMMA SettledCalls ==
    /\ \A calls \in Calls, how \in {"ok", "failed"} : \A kinds :
          \A w \in Waiters : Settled(calls, kinds, how)[w] \in Pending =>
             calls[w] = Settled(calls, kinds, how)[w] /\ calls[w] \notin kinds
    /\ \A calls \in Calls : \A w \in Waiters : RejectWaiters(calls)[w] \in Pending =>
          RejectWaiters(calls)[w] = "stop" /\ calls[w] = "stop"
  BY DEF Calls, Settled, RejectWaiters, Pending

\* A rejected coroutine awaits nothing.
LEMMA RejectedPhases ==
    \A phases \in [Sessions -> Phases] : \A g \in Sessions :
      /\ RejectAttach(phases)[g] \notin Awaited
      /\ phases[g] = "none" => RejectAttach(phases)[g] = "none"
  BY DEF RejectAttach, Awaited

\* beginStop of the current session, with calls and coroutines that fit it.
LEMMA BeginStopKeeps ==
    ASSUME TypeOK, SessionInv, state # "idle",
           NEW calls \in Calls, NEW phases \in [Sessions -> Phases],
           BeginStop(generation, calls, phases),
           \A h \in Sessions : /\ (phases[h] \in {"ready", "client"} => phases[h] = phase[h])
                               /\ (h > generation => phases[h] = "none"),
           \A w \in Waiters : calls[w] \in Pending /\ since'[w] # 0 => since'[w] = generation,
           proc' = proc, \A h \in Sessions : pipe'[h] # <<>> => pipe[h] # <<>>
    PROVE  SessionInv'
  <1> USE DEF SessionInv
  <1>1. generation' = generation /\ worker' = worker
    BY DEF BeginStop
  <1>2. state' = "stopping"
    BY DEF BeginStop
  <1>3. WorkerIsCurrent'
    BY <1>1, <1>2 DEF WorkerIsCurrent
  <1>4. \A h \in Sessions : phase'[h] \notin {"ready", "client"} /\ (h > generation => phase'[h] = "none")
    <2>1. CASE state = "stopping"
      BY <2>1 DEF BeginStop, PhasesFit
    <2>2. CASE state # "stopping"
      BY <2>2, RejectedPhases DEF BeginStop, Awaited
    <2> QED BY <2>1, <2>2
  <1>5. PhasesFit'
    BY <1>2, <1>4 DEF PhasesFit
  <1>11. SignalsFit'
    <2>1. signalled' = signalled \cup {generation} /\ generation \in Nat
      BY Groups DEF BeginStop, Signal, AllOK, CoreOK
    <2> QED BY <1>1, <1>2, <2>1 DEF SignalsFit
  <1>6. ThreadsFit'
    BY <1>1, <1>2, <1>4 DEF ThreadsFit
  <1>7. LeftIsKnown' /\ DebuggerWaitHasAClient'
    BY <1>2 DEF LeftIsKnown, DebuggerWaitHasAClient
  <1>8. HooksFollowSession'
    BY <1>1, <1>2 DEF HooksFollowSession, BeginStop, StopInfrastructure
  <1>9. \A w \in Waiters : waiter'[w] \in Pending => calls[w] \in Pending
    <2>1. CASE state = "stopping"
      BY <2>1 DEF BeginStop
    <2>2. CASE state # "stopping"
      BY <2>2, SettledCalls DEF BeginStop
    <2> QED BY <2>1, <2>2
  <1>10. NobodyForgotten'
    BY <1>1, <1>2, <1>9 DEF NobodyForgotten
  <1> QED BY <1>3, <1>5, <1>6, <1>7, <1>8, <1>10, <1>11

\* completeStop of the current session.
LEMMA CompleteStopKeeps ==
    ASSUME TypeOK, SessionInv, state # "idle", CompleteStop(generation)
    PROVE  SessionInv'
  <1> USE DEF SessionInv
  <1>0. phase \in [Sessions -> Phases] /\ DOMAIN proc = Sessions /\ DOMAIN pipe = Sessions
    BY Groups DEF AllOK, PhaseOK, ThreadOK, PipeOK
  <1>1. state' = "idle" /\ worker' = 0 /\ url' = FALSE /\ hooked' = {} /\ generation' = generation
        /\ proc' = [proc EXCEPT ![generation] = "joined"] /\ pipe' = [pipe EXCEPT ![generation] = <<>>]
        /\ phase' = RejectAttach(phase)
        /\ waiter' = Settled(RejectWaiters(waiter), {"stop"}, "ok") /\ since' = since
    BY DEF CompleteStop, StopInfrastructure, Join
  <1>2. WorkerIsCurrent' /\ HooksFollowSession' /\ LeftIsKnown' /\ DebuggerWaitHasAClient'
    BY <1>1 DEF WorkerIsCurrent, HooksFollowSession, LeftIsKnown, DebuggerWaitHasAClient
  <1>3. PhasesFit' /\ SignalsFit'
    <2>1. signalled' = signalled \cup {generation} /\ generation \in Nat
      BY Groups DEF CompleteStop, Signal, AllOK, CoreOK
    <2>2. PhasesFit'
      BY <1>0, <1>1, RejectedPhases DEF PhasesFit, Awaited
    <2>3. SignalsFit'
      BY <1>1, <2>1 DEF SignalsFit
    <2> QED BY <2>2, <2>3
  <1>4. ThreadsFit'
    <2>1. \A h \in Sessions : h > generation => phase'[h] = "none"
      BY <1>0, <1>1, RejectedPhases DEF ThreadsFit
    <2>2. \A h \in Sessions : /\ proc'[h] = (IF h = generation THEN "joined" ELSE proc[h])
                              /\ pipe'[h] = (IF h = generation THEN <<>> ELSE pipe[h])
      BY <1>0, <1>1
    <2>3. generation \in Int /\ \A h \in Sessions : h \in Int
      BY DEF TypeOK, Sessions
    <2> QED BY <1>1, <2>1, <2>2, <2>3 DEF ThreadsFit
  <1>5. \A w \in Waiters : waiter'[w] \notin Pending
    <2>1. waiter \in Calls /\ RejectWaiters(waiter) \in Calls
      BY SettlingIsTyped DEF TypeOK, Calls
    <2>2. \A w \in Waiters : waiter'[w] \in Pending => RejectWaiters(waiter)[w] \in Pending \ {"stop"}
      BY <1>1, <2>1, SettledCalls
    <2> QED BY <2>1, <2>2, SettledCalls
  <1>6. NobodyForgotten'
    BY <1>5 DEF NobodyForgotten
  <1> QED BY <1>2, <1>3, <1>4, <1>6

LEMMA AttachKeeps ==
    ASSUME TypeOK, SessionInv, Attach
    PROVE  SessionInv'
  <1> USE DEF SessionInv
  <1>0. phase \in [Sessions -> Phases] /\ DOMAIN proc = Sessions /\ waiter \in Calls /\ generation \in Nat
    BY Groups DEF AllOK, PhaseOK, ThreadOK, CallsOK, CoreOK
  <1>1. /\ generation' = generation + 1 /\ generation' \in Sessions
        /\ state = "idle" /\ state' = "attaching" /\ worker' = generation'
        /\ everConnected' = FALSE
        /\ phase' = [phase EXCEPT ![generation'] = "ready"] /\ proc' = [proc EXCEPT ![generation'] = "starting"]
        /\ UNCHANGED <<hooked, url, waiter, since, signalled, pipe>>
    BY <1>0, SessionsAssumption DEF Attach, waitVars, Sessions
  <1>2. WorkerIsCurrent' /\ LeftIsKnown' /\ SignalsFit'
    <2>1. \A h \in signalled : h \in Int
      BY Groups DEF AllOK, ThreadOK, Sessions
    <2> QED BY <1>0, <1>1, <2>1 DEF WorkerIsCurrent, LeftIsKnown, SignalsFit
  <1>3. HooksFollowSession'
    BY <1>1 DEF HooksFollowSession
  <1>4. \A w \in Waiters : waiter[w] \in Pending => since[w] = 0
    BY <1>1 DEF NobodyForgotten
  <1>5. NobodyForgotten' /\ DebuggerWaitHasAClient'
    BY <1>1, <1>4 DEF NobodyForgotten, DebuggerWaitHasAClient, Pending
  <1>6. \A h \in Sessions : /\ h \in Int
                            /\ phase'[h] = (IF h = generation' THEN "ready" ELSE phase[h])
                            /\ proc'[h] = (IF h = generation' THEN "starting" ELSE proc[h])
    BY <1>0, <1>1 DEF Sessions
  <1>7. PhasesFit'
    <2>1. phase'[generation'] = "ready"
      BY <1>1, <1>6
    <2>2. \A h \in Sessions : h # generation' => phase'[h] \notin {"ready", "client"}
      BY <1>1, <1>6 DEF PhasesFit
    <2> QED BY <1>1, <2>1, <2>2 DEF PhasesFit, Awaited, Continuing
  <1>8. ThreadsFit'
    BY <1>0, <1>1, <1>6 DEF ThreadsFit
  <1> QED BY <1>2, <1>3, <1>5, <1>7, <1>8

LEMMA AttachFailsKeeps ==
    ASSUME TypeOK, SessionInv, AttachFails
    PROVE  SessionInv'
  <1> USE DEF SessionInv
  <1>0. phase \in [Sessions -> Phases] /\ waiter \in Calls /\ generation \in Nat
    BY Groups DEF AllOK, PhaseOK, CallsOK, CoreOK
  <1>1. /\ generation' = generation + 1 /\ generation' \in Sessions
        /\ state = "idle" /\ state' = "idle" /\ url' = FALSE
        /\ phase' = [phase EXCEPT ![generation'] = "settled"] /\ waiter' = RejectWaiters(waiter)
        /\ UNCHANGED <<worker, hooked, since, proc, signalled, pipe>>
    BY <1>0, SessionsAssumption DEF AttachFails, workerVars, Sessions
  <1>2. WorkerIsCurrent' /\ LeftIsKnown' /\ DebuggerWaitHasAClient' /\ SignalsFit'
    <2>1. \A h \in signalled : h \in Int
      BY Groups DEF AllOK, ThreadOK, Sessions
    <2> QED BY <1>0, <1>1, <2>1 DEF WorkerIsCurrent, LeftIsKnown, DebuggerWaitHasAClient, SignalsFit
  <1>3. HooksFollowSession'
    BY <1>1 DEF HooksFollowSession
  <1>4. \A w \in Waiters : waiter'[w] \in Pending => since'[w] = 0
    BY <1>0, <1>1, SettledCalls DEF NobodyForgotten, Pending
  <1>5. NobodyForgotten'
    BY <1>4 DEF NobodyForgotten
  <1>6. \A h \in Sessions : h \in Int /\ phase'[h] = (IF h = generation' THEN "settled" ELSE phase[h])
    BY <1>0, <1>1 DEF Sessions
  <1>7. PhasesFit'
    BY <1>1, <1>6 DEF PhasesFit, Awaited
  <1>8. ThreadsFit'
    BY <1>0, <1>1, <1>6 DEF ThreadsFit
  <1> QED BY <1>2, <1>3, <1>5, <1>7, <1>8

LEMMA ForceStopKeeps ==
    ASSUME TypeOK, SessionInv, ForceStop
    PROVE  SessionInv'
  <1>1. CASE state # "idle"
    BY <1>1, CompleteStopKeeps DEF ForceStop
  <1>2. CASE state = "idle"
    <2> USE DEF SessionInv
    <2>1. waiter \in Calls
      BY Groups DEF AllOK, CallsOK
    <2>2. waiter' = RejectWaiters(waiter) /\ UNCHANGED <<needs, coreVars, phase, clientVars, since, workerVars>>
      BY <1>2 DEF ForceStop
    <2>3. UNCHANGED <<state, generation, worker, hooked, url, phase, proc, pipe, signalled, connected, everConnected, disconnectError, since>>
      BY <2>2 DEF coreVars, clientVars, workerVars
    <2>4. \A w \in Waiters : waiter'[w] \in Pending => waiter[w] \in Pending
      BY <2>1, <2>2, SettledCalls DEF Pending
    <2>5. NobodyForgotten'
      BY <2>3, <2>4 DEF NobodyForgotten
    <2>6. DebuggerWaitHasAClient'
      BY <1>2, <2>3 DEF DebuggerWaitHasAClient
    <2> QED BY <2>3, <2>5, <2>6, PartsKept
  <1> QED BY <1>1, <1>2

\* A call that begins to wait, allowed to by what the caller tested.
LEMMA BeginKeeps ==
    ASSUME TypeOK, SessionInv, NEW w \in Waiters, NEW how, Begin(w, how),
           how = "debugger" /\ state \in {"attaching", "active"} /\ generation \notin signalled =>
             connected \/ ~everConnected
    PROVE  SessionInv'
  <1> USE DEF SessionInv
  <1>1. /\ waiter' = [waiter EXCEPT ![w] = how]
        /\ since' = [since EXCEPT ![w] = IF state = "idle" THEN 0 ELSE generation]
        /\ UNCHANGED <<state, generation, worker, hooked, url, phase, proc, pipe, signalled, connected, everConnected, disconnectError>>
    BY DEF Begin, coreVars, clientVars, workerVars
  <1>2. DOMAIN waiter = Waiters /\ DOMAIN since = Waiters
    BY Groups DEF AllOK, CallsOK, Calls, SinceOK
  <1>3. \A v \in Waiters : /\ waiter'[v] = (IF v = w THEN how ELSE waiter[v])
                           /\ since'[v] = (IF v # w THEN since[v] ELSE IF state = "idle" THEN 0 ELSE generation)
    BY <1>1, <1>2
  <1>4. NobodyForgotten'
    BY <1>1, <1>3 DEF NobodyForgotten
  <1>5. DebuggerWaitHasAClient'
    BY <1>1, <1>3 DEF DebuggerWaitHasAClient
  <1> QED BY <1>1, <1>4, <1>5, PartsKept

LEMMA DetachKeeps ==
    ASSUME TypeOK, SessionInv, NEW w \in Waiters, Detach(w)
    PROVE  SessionInv'
  <1>0. waiter \in Calls /\ DOMAIN waiter = Waiters /\ DOMAIN since = Waiters /\ phase \in [Sessions -> Phases]
    BY Groups DEF AllOK, CallsOK, Calls, SinceOK, PhaseOK
  <1>1. /\ since' = [since EXCEPT ![w] = IF state = "idle" THEN 0 ELSE generation]
        /\ proc' = proc /\ pipe' = pipe
    BY DEF Detach
  <1>2. \A v \in Waiters : since'[v] = (IF v # w THEN since[v] ELSE IF state = "idle" THEN 0 ELSE generation)
    BY <1>0, <1>1
  <1>3. CASE state # "idle"
    <2>1. generation \in Sessions
      BY <1>3 DEF SessionInv, WorkerIsCurrent
    <2>2. [waiter EXCEPT ![w] = "stop"] \in Calls
      BY <1>0 DEF Calls, Pending
    <2>3. BeginStop(generation, [waiter EXCEPT ![w] = "stop"], phase)
      BY <1>3 DEF Detach
    <2>4. \A h \in Sessions : h > generation => phase[h] = "none"
      BY DEF SessionInv, ThreadsFit
    <2>5. \A v \in Waiters : [waiter EXCEPT ![w] = "stop"][v] \in Pending /\ since'[v] # 0 => since'[v] = generation
      BY <1>0, <1>2, <1>3 DEF SessionInv, NobodyForgotten
    <2> HIDE DEF SessionInv
    <2> QED BY <1>0, <1>1, <1>3, <2>1, <2>2, <2>3, <2>4, <2>5, BeginStopKeeps
  <1>4. CASE state = "idle"
    <2> USE DEF SessionInv
    <2>1. waiter' = [RejectWaiters(waiter) EXCEPT ![w] = "ok"] /\ RejectWaiters(waiter) \in Calls
          /\ UNCHANGED <<state, generation, worker, hooked, url, phase, proc, pipe, signalled, connected, everConnected, disconnectError>>
      BY <1>0, <1>1, <1>4, SettlingIsTyped DEF Detach, coreVars, clientVars
    <2>2. \A v \in Waiters : waiter'[v] \in Pending => v # w /\ waiter[v] \in Pending
      BY <1>0, <2>1, SettledCalls DEF Pending, Calls
    <2>3. NobodyForgotten'
      BY <1>2, <2>1, <2>2 DEF NobodyForgotten
    <2>4. DebuggerWaitHasAClient'
      BY <1>4, <2>1 DEF DebuggerWaitHasAClient
    <2> QED BY <2>1, <2>3, <2>4, PartsKept
  <1> QED BY <1>3, <1>4

LEMMA CallKeeps ==
    ASSUME TypeOK, SessionInv, Call
    PROVE  SessionInv'
  <1>1. ASSUME NEW w \in Waiters, WaitForConnection(w)
        PROVE  SessionInv'
    BY <1>1, BeginKeeps DEF WaitForConnection
  <1>2. ASSUME NEW w \in Waiters, WaitForDebugger(w)
        PROVE  SessionInv'
    <2> DEFINE how == DebuggerAnswer("ok", "failed", "debugger")
    <2>1. how = "debugger" /\ state \in {"attaching", "active"} /\ generation \notin signalled =>
            connected \/ ~everConnected
      BY Zenon DEF SessionInv, LeftIsKnown, DebuggerAnswer
    <2>2. Begin(w, how)
      BY <1>2 DEF WaitForDebugger
    <2> HIDE DEF how
    <2> QED BY <2>1, <2>2, BeginKeeps
  <1> QED BY <1>1, <1>2, AttachKeeps, AttachFailsKeeps, ForceStopKeeps, DetachKeeps DEF Call

\* The catch block of attach, which stops its own session or none.
LEMMA UnwindKeeps ==
    ASSUME TypeOK, SessionInv, NEW g \in Sessions, Unwind(g)
    PROVE  SessionInv'
  <1>0. waiter \in Calls /\ phase \in [Sessions -> Phases] /\ DOMAIN phase = Sessions
    BY Groups DEF AllOK, CallsOK, PhaseOK
  <1>1. since' = since /\ proc' = proc /\ pipe' = pipe /\ phase[g] = "unwinding"
    BY DEF Unwind
  <1>2. \A h \in Sessions : [phase EXCEPT ![g] = "settled"][h] = (IF h = g THEN "settled" ELSE phase[h])
    BY <1>0
  <1>3. \A h \in Sessions : h > generation => phase[h] = "none" /\ h # g
    BY <1>1 DEF SessionInv, ThreadsFit
  <1>4. CASE IsCurrentSession(g)
    <2>1. state # "idle"
      BY <1>4, SessionsAssumption DEF IsCurrentSession, SessionInv, WorkerIsCurrent, Sessions
    <2>2. BeginStop(generation, waiter, [phase EXCEPT ![g] = "settled"])
      BY <1>4 DEF Unwind, IsCurrentSession
    <2>3. [phase EXCEPT ![g] = "settled"] \in [Sessions -> Phases]
      BY <1>0 DEF Phases
    <2>4. \A h \in Sessions :
            /\ ([phase EXCEPT ![g] = "settled"][h] \in {"ready", "client"} => [phase EXCEPT ![g] = "settled"][h] = phase[h])
            /\ (h > generation => [phase EXCEPT ![g] = "settled"][h] = "none")
      BY <1>2, <1>3
    <2>5. \A v \in Waiters : waiter[v] \in Pending /\ since'[v] # 0 => since'[v] = generation
      BY <1>1 DEF SessionInv, NobodyForgotten
    <2> QED BY <1>0, <1>1, <2>1, <2>2, <2>3, <2>4, <2>5, BeginStopKeeps
  <1>5. CASE ~IsCurrentSession(g)
    <2> USE DEF SessionInv
    <2>1. phase' = [phase EXCEPT ![g] = "settled"]
          /\ UNCHANGED <<state, generation, worker, hooked, url, waiter, signalled, connected, everConnected, disconnectError>>
      BY <1>5 DEF Unwind, coreVars, clientVars
    <2>2. state # "idle" => g # generation
      BY <1>5 DEF IsCurrentSession, WorkerIsCurrent
    <2>3. \A h \in Sessions : /\ h > generation => phase'[h] = "none"
                              /\ phase'[h] \in {"ready", "client"} => phase[h] = phase'[h]
                              /\ h = generation /\ state # "idle" => phase'[h] = phase[h]
      BY <1>2, <1>3, <2>1, <2>2
    <2>4. ThreadsFit'
      BY <1>1, <2>1, <2>3 DEF ThreadsFit
    <2>5. PhasesFit'
      BY <2>1, <2>3 DEF PhasesFit, WorkerIsCurrent
    <2> QED BY <1>1, <2>1, <2>4, <2>5, PartsKept
  <1> QED BY <1>4, <1>5

\* A step that starts no session, joins no thread and posts nothing.
LEMMA ThreadsStay ==
    ASSUME ThreadsFit, generation' = generation, proc' = proc, state' = "idle" <=> state = "idle",
           \A h \in Sessions : phase[h] = "none" => phase'[h] = "none",
           \A h \in Sessions : pipe'[h] # <<>> => pipe[h] # <<>>
    PROVE  ThreadsFit'
  BY DEF ThreadsFit

\* Moves of coroutines between their awaits, and to a rejection.
LEMMA MovesFit ==
    ASSUME PhasesFit, UNCHANGED <<state, generation, url>>,
           \A h \in Sessions :
             \/ phase'[h] = phase[h]
             \/ phase[h] \in Awaited /\ phase'[h] = "unwinding"
             \/ /\ phase[h] \in {"client", "debugger"} \cup Continuing
                /\ phase'[h] \in {"debugger", "unwinding"} \cup Continuing,
           state # "idle" => generation \in Sessions
    PROVE  PhasesFit' /\ \A h \in Sessions : phase[h] = "none" => phase'[h] = "none"
  <1>1. \A h \in Sessions : phase'[h] \in {"ready", "client"} => phase'[h] = phase[h]
    BY DEF Awaited, Continuing
  <1>2. state = "attaching" => phase'[generation] \in Awaited \cup Continuing \cup {"unwinding"}
    BY DEF PhasesFit, Awaited
  <1>3. state = "active" => phase'[generation] = "settled"
    BY DEF PhasesFit, Awaited, Continuing
  <1>4. state = "attaching" /\ phase'[generation] \in {"client", "debugger"} \cup Continuing => url
    BY DEF PhasesFit, Continuing
  <1>5. PhasesFit'
    BY <1>1, <1>2, <1>3, <1>4 DEF PhasesFit
  <1>6. \A h \in Sessions : phase[h] = "none" => phase'[h] = "none"
    BY DEF Awaited, Continuing
  <1> QED BY <1>5, <1>6

\* A wait that is over for every coroutine that was in it.
LEMMA GoOnFits ==
    ASSUME TypeOK, PhasesFit, NEW from \in {"client", "debugger"}, NEW next \in {"unwinding"} \cup Continuing,
           GoOn(from, next), UNCHANGED <<state, generation, url>>, state # "idle" => generation \in Sessions
    PROVE  PhasesFit' /\ \A h \in Sessions : phase[h] = "none" => phase'[h] = "none"
  <1>1. \A h \in Sessions : phase'[h] = (IF phase[h] = from THEN next ELSE phase[h])
    BY DEF GoOn
  <1>2. \A h \in Sessions :
             \/ phase'[h] = phase[h]
             \/ /\ phase[h] \in {"client", "debugger"} \cup Continuing
                /\ phase'[h] \in {"debugger", "unwinding"} \cup Continuing
    BY <1>1
  <1> QED BY <1>2, MovesFit

\* The end of an attach makes its session active only if it is the current one,
\* which then attaches or was told to stop.
LEMMA EndsFits ==
    ASSUME TypeOK, SessionInv, NEW g \in Sessions, Ends(g), phase[g] \in {"ready"} \cup Continuing,
           generation' = generation, url => url'
    PROVE  /\ PhasesFit' /\ \A h \in Sessions : phase[h] = "none" => phase'[h] = "none"
           /\ \/ state' = state
              \/ /\ g = generation /\ state' = "active"
                 /\ state = "attaching" \/ (state = "stopping" /\ generation \in signalled)
  <1> USE DEF SessionInv
  <1>1. /\ state \in {"idle", "attaching", "active", "stopping"} /\ DOMAIN phase = Sessions
        /\ 0 \notin Sessions
    BY Groups, SessionsAssumption DEF AllOK, CoreOK, PhaseOK, Sessions
  <1>2. \A h \in Sessions : phase'[h] = (IF h = g THEN "settled" ELSE phase[h])
    BY <1>1 DEF Ends
  <1>3. \A h \in Sessions : phase[h] = "none" => phase'[h] = "none"
    BY <1>2 DEF Continuing
  <1>4. CASE IsCurrentSession(g)
    <2>1. g = generation /\ state' = "active" /\ state # "idle"
      BY <1>1, <1>4 DEF IsCurrentSession, WorkerIsCurrent, Ends
    <2>2. state # "active"
      BY <2>1 DEF PhasesFit, Continuing
    <2>3. PhasesFit'
      BY <1>2, <2>1 DEF PhasesFit
    <2> QED BY <1>1, <1>3, <2>1, <2>2, <2>3 DEF SignalsFit
  <1>5. CASE ~IsCurrentSession(g)
    <2>1. state' = state /\ (state # "idle" => g # generation /\ generation \in Sessions)
      BY <1>5 DEF IsCurrentSession, WorkerIsCurrent, Ends
    <2>2. PhasesFit'
      <3>1. \A h \in Sessions : phase'[h] \in {"ready", "client"} => phase'[h] = phase[h]
        BY <1>2
      <3>2. state # "idle" => phase'[generation] = phase[generation]
        BY <1>2, <2>1
      <3>3. CASE state = "idle"
        BY <2>1, <3>1, <3>3 DEF PhasesFit
      <3>4. CASE state # "idle"
        BY <2>1, <3>1, <3>2, <3>4 DEF PhasesFit
      <3> QED BY <3>3, <3>4
    <2> QED BY <1>3, <2>1, <2>2
  <1> QED BY <1>4, <1>5

LEMMA AttachTimeoutKeeps ==
    ASSUME TypeOK, SessionInv, NEW g \in Sessions, AttachTimeout(g)
    PROVE  SessionInv'
  <1>1. phase[g] \in Awaited /\ phase' = [phase EXCEPT ![g] = "unwinding"]
        /\ UNCHANGED <<state, generation, worker, hooked, url, waiter, since, proc, pipe, signalled, connected,
                       everConnected, disconnectError>>
    BY DEF AttachTimeout, Awaited, coreVars, clientVars, waitVars, workerVars
  <1>2. DOMAIN phase = Sessions
    BY Groups DEF AllOK, PhaseOK
  <1>3. \A h \in Sessions : phase'[h] = phase[h] \/ (phase[h] \in Awaited /\ phase'[h] = "unwinding")
    BY <1>1, <1>2
  <1>4. PhasesFit' /\ \A h \in Sessions : phase[h] = "none" => phase'[h] = "none"
    BY <1>1, <1>3, MovesFit DEF SessionInv, WorkerIsCurrent
  <1>5. ThreadsFit'
    BY <1>1, <1>4, ThreadsStay DEF SessionInv
  <1> QED BY <1>1, <1>4, <1>5, PartsKept DEF SessionInv

\* attach goes on after a wait.
LEMMA ContinuationKeeps ==
    ASSUME TypeOK, SessionInv, NEW g \in Sessions, AfterClient(g) \/ AfterDebugger(g)
    PROVE  SessionInv'
  <1> USE DEF SessionInv
  <1>1. /\ phase[g] \in Continuing
        /\ UNCHANGED <<generation, worker, hooked, url, waiter, since, proc, pipe, signalled, connected,
                       everConnected, disconnectError>>
    BY DEF AfterClient, AfterDebugger, Continuing, clientVars, waitVars, workerVars
  <1>2. CASE Ends(g)
    <2>1. /\ PhasesFit' /\ \A h \in Sessions : phase[h] = "none" => phase'[h] = "none"
          /\ \/ state' = state
             \/ /\ g = generation /\ state' = "active"
                /\ state = "attaching" \/ (state = "stopping" /\ generation \in signalled)
      BY <1>1, <1>2, EndsFits
    <2>2. CASE state' = state
      <3>1. ThreadsFit'
        BY <1>1, <2>1, <2>2, ThreadsStay
      <3> QED BY <1>1, <2>1, <2>2, <3>1, PartsKept
    <2>3. CASE /\ g = generation /\ state' = "active"
               /\ state = "attaching" \/ (state = "stopping" /\ generation \in signalled)
      <3>1. ThreadsFit'
        BY <1>1, <2>1, <2>3, ThreadsStay
      <3>2. WorkerIsCurrent' /\ SignalsFit'
        BY <1>1, <2>3 DEF WorkerIsCurrent, SignalsFit
      <3>3. LeftIsKnown' /\ DebuggerWaitHasAClient'
        BY <1>1, <2>3 DEF LeftIsKnown, DebuggerWaitHasAClient
      <3>4. state = "attaching" => url
        BY <1>1, <2>3 DEF PhasesFit
      <3>5. HooksFollowSession'
        BY <1>1, <2>3, <3>4 DEF HooksFollowSession
      <3>6. NobodyForgotten'
        BY <1>1, <2>3 DEF NobodyForgotten
      <3> QED BY <2>1, <3>1, <3>2, <3>3, <3>5, <3>6
    <2> QED BY <2>1, <2>2, <2>3
  <1>3. CASE ~Ends(g)
    <2>1. PICK next : next = DebuggerAnswer("gotDebugger", "unwinding", "debugger")
      OBVIOUS
    <2>2. next \in {"gotDebugger", "unwinding", "debugger"} /\ DOMAIN phase = Sessions
      BY <2>1, AnswerTyped, Groups DEF AllOK, PhaseOK
    <2>3. phase' = [phase EXCEPT ![g] = next] /\ state' = state
      BY <1>3, <2>1 DEF AfterClient, AfterDebugger
    <2>4. \A h \in Sessions :
             \/ phase'[h] = phase[h]
             \/ /\ phase[h] \in {"client", "debugger"} \cup Continuing
                /\ phase'[h] \in {"debugger", "unwinding"} \cup Continuing
      BY <1>1, <2>2, <2>3 DEF Continuing
    <2>5. PhasesFit' /\ \A h \in Sessions : phase[h] = "none" => phase'[h] = "none"
      BY <1>1, <2>3, <2>4, MovesFit DEF WorkerIsCurrent
    <2>6. ThreadsFit'
      BY <1>1, <2>3, <2>5, ThreadsStay
    <2> QED BY <1>1, <2>3, <2>5, <2>6, PartsKept
  <1> QED BY <1>2, <1>3

\* A message leaves no pipe that was empty with one.
LEMMA ReceiveShortens ==
    ASSUME TypeOK, NEW g \in Sessions, NEW m, Receive(g, m)
    PROVE  /\ \A h \in Sessions : pipe'[h] # <<>> => pipe[h] # <<>>
           /\ since' = since /\ proc' = proc /\ pipe[g] # <<>>
  <1>1. DOMAIN pipe = Sessions
    BY Groups DEF AllOK, PipeOK
  <1> QED BY <1>1 DEF Receive

\* A message that changes nothing but the pipe.
LEMMA IgnoredKeeps ==
    ASSUME TypeOK, SessionInv, NEW g \in Sessions, NEW m, Receive(g, m),
           UNCHANGED <<coreVars, phase, clientVars, waiter, signalled>>
    PROVE  SessionInv'
  <1> USE DEF SessionInv
  <1>1. UNCHANGED <<state, generation, worker, hooked, url, phase, waiter, signalled, connected, everConnected, disconnectError>>
    BY DEF coreVars, clientVars
  <1>2. ThreadsFit'
    BY <1>1, ReceiveShortens DEF ThreadsFit
  <1> QED BY <1>1, <1>2, ReceiveShortens, PartsKept

\* A message that begins a stop.
LEMMA StoppingMessageKeeps ==
    ASSUME TypeOK, SessionInv, NEW g \in Sessions, NEW m, Receive(g, m), IsCurrentSession(g),
           NEW phases \in {phase, [phase EXCEPT ![g] = "settled"]}, BeginStop(g, waiter, phases)
    PROVE  SessionInv'
  <1>0. waiter \in Calls /\ phase \in [Sessions -> Phases] /\ DOMAIN phase = Sessions /\ generation \in Int
    BY Groups DEF AllOK, CallsOK, PhaseOK, CoreOK
  <1>1. state # "idle" /\ g = generation
    BY SessionsAssumption DEF IsCurrentSession, SessionInv, WorkerIsCurrent, Sessions
  <1>2. phases \in [Sessions -> Phases]
    BY <1>0 DEF Phases
  <1>3. \A h \in Sessions : phases[h] = phase[h] \/ (h = g /\ phases[h] = "settled")
    BY <1>0
  <1>4. \A h \in Sessions : h > generation => phase[h] = "none" /\ h # g
    BY <1>0, <1>1 DEF SessionInv, ThreadsFit
  <1>5. \A h \in Sessions : /\ (phases[h] \in {"ready", "client"} => phases[h] = phase[h])
                            /\ (h > generation => phases[h] = "none")
    BY <1>3, <1>4
  <1>6. \A v \in Waiters : waiter[v] \in Pending /\ since'[v] # 0 => since'[v] = generation
    BY ReceiveShortens DEF SessionInv, NobodyForgotten
  <1> QED BY <1>0, <1>1, <1>2, <1>5, <1>6, ReceiveShortens, BeginStopKeeps

LEMMA OnReadyKeeps ==
    ASSUME TypeOK, SessionInv, NEW g \in Sessions, OnReady(g)
    PROVE  SessionInv'
  <1>1. Receive(g, "ready")
    BY DEF OnReady
  <1>2. CASE UNCHANGED <<coreVars, phase, clientVars, waiter, signalled>>
    BY <1>1, <1>2, IgnoredKeeps
  <1>3. CASE IsCurrentSession(g) /\ BeginStop(g, waiter, [phase EXCEPT ![g] = "settled"])
    BY <1>1, <1>3, StoppingMessageKeeps
  <1>4. CASE /\ phase[g] = "ready" /\ IsCurrentSession(g)
             /\ url' = TRUE /\ hooked' = hooked \cup {g}
             /\ \/ Ends(g)
                \/ phase' = [phase EXCEPT ![g] = IF connected THEN "gotClient" ELSE "client"] /\ state' = state
             /\ UNCHANGED <<generation, worker, clientVars, waiter, signalled>>
    <2> USE DEF SessionInv
    <2>1. UNCHANGED <<generation, worker, waiter, since, proc, signalled, connected, everConnected, disconnectError>>
      BY <1>1, <1>4, ReceiveShortens DEF clientVars
    <2>2. state = "attaching" /\ g = generation /\ g \notin signalled /\ DOMAIN phase = Sessions
      BY <1>4, Groups DEF PhasesFit, SignalsFit, AllOK, PhaseOK
    <2>3. /\ state' \in {"attaching", "active"} /\ PhasesFit'
          /\ \A h \in Sessions : phase[h] = "none" => phase'[h] = "none"
      <3>1. CASE Ends(g)
        BY <1>4, <2>1, <2>2, <3>1, EndsFits
      <3>2. CASE phase' = [phase EXCEPT ![g] = IF connected THEN "gotClient" ELSE "client"] /\ state' = state
        <4>1. PICK next \in {"gotClient", "client"} : phase' = [phase EXCEPT ![g] = next]
          BY <3>2, Zenon
        <4>2. \A h \in Sessions : phase'[h] = (IF h = g THEN next ELSE phase[h])
          BY <2>2, <4>1
        <4>3. PhasesFit'
          BY <1>4, <2>1, <2>2, <3>2, <4>2 DEF PhasesFit, Awaited, Continuing
        <4> QED BY <1>4, <2>2, <3>2, <4>2, <4>3
      <3> QED BY <1>4, <3>1, <3>2
    <2>4. ThreadsFit'
      BY <1>1, <2>1, <2>2, <2>3, ReceiveShortens, ThreadsStay
    <2>5. WorkerIsCurrent' /\ LeftIsKnown' /\ SignalsFit'
      BY <2>1, <2>2, <2>3 DEF WorkerIsCurrent, LeftIsKnown, SignalsFit
    <2>6. hooked = {} \/ hooked = {generation}
      BY DEF HooksFollowSession
    <2>7. HooksFollowSession'
      BY <1>4, <2>1, <2>2, <2>3, <2>6 DEF HooksFollowSession
    <2>8. NobodyForgotten' /\ DebuggerWaitHasAClient'
      BY <2>1, <2>2, <2>3 DEF NobodyForgotten, DebuggerWaitHasAClient
    <2> QED BY <2>3, <2>4, <2>5, <2>7, <2>8
  <1> QED BY <1>2, <1>3, <1>4 DEF OnReady

LEMMA OnConnectedKeeps ==
    ASSUME TypeOK, SessionInv, NEW g \in Sessions, OnConnected(g)
    PROVE  SessionInv'
  <1> USE DEF SessionInv
  <1>1. Receive(g, "connected") /\ UNCHANGED <<coreVars, signalled>>
        /\ UNCHANGED <<state, generation, worker, hooked, url>>
    BY DEF OnConnected, coreVars
  <1>2. CASE ~IsCurrentSession(g)
    BY <1>1, <1>2, IgnoredKeeps DEF OnConnected
  <1>3. CASE IsCurrentSession(g)
    <2>1. connected' = TRUE /\ waiter' = Settled(waiter, {"client"}, "ok") /\ GoOn("client", "gotClient")
      BY <1>3, Zenon DEF OnConnected
    <2>2. waiter \in Calls
      BY Groups DEF AllOK, CallsOK
    <2>3. \A w \in Waiters : waiter'[w] \in Pending => waiter[w] = waiter'[w]
      BY <2>1, <2>2, SettledCalls
    <2>4. PhasesFit' /\ \A h \in Sessions : phase[h] = "none" => phase'[h] = "none"
      BY <1>1, <2>1, GoOnFits DEF WorkerIsCurrent, Continuing
    <2>5. ThreadsFit'
      BY <1>1, <2>4, ReceiveShortens, ThreadsStay
    <2>6. LeftIsKnown' /\ DebuggerWaitHasAClient'
      BY <2>1 DEF LeftIsKnown, DebuggerWaitHasAClient
    <2>7. NobodyForgotten'
      BY <1>1, <2>3, ReceiveShortens DEF NobodyForgotten
    <2> QED BY <1>1, <2>4, <2>5, <2>6, <2>7, PartsKept
  <1> QED BY <1>2, <1>3

LEMMA OnDisconnectedKeeps ==
    ASSUME TypeOK, SessionInv, NEW g \in Sessions, OnDisconnected(g)
    PROVE  SessionInv'
  <1> USE DEF SessionInv
  <1>1. Receive(g, "disconnected") /\ UNCHANGED <<state, generation, worker, hooked, url, coreVars, signalled>>
    BY DEF OnDisconnected, coreVars
  <1>2. CASE ~IsCurrentSession(g)
    BY <1>1, <1>2, IgnoredKeeps DEF OnDisconnected
  <1>3. CASE IsCurrentSession(g)
    <2>1. waiter' = Settled(waiter, {"debugger"}, "failed") /\ everConnected' = everConnected
          /\ disconnectError' = Left /\ waiter \in Calls
      BY <1>3, Groups DEF OnDisconnected, AllOK, CallsOK
    <2>2. \A w \in Waiters : waiter'[w] \in Pending => waiter[w] = waiter'[w] /\ waiter'[w] # "debugger"
      BY <2>1, SettledCalls
    <2>3. ThreadsFit' /\ PhasesFit'
      <3>1. GoOn("debugger", "unwinding")
        BY <1>3 DEF OnDisconnected
      <3>2. PhasesFit' /\ \A h \in Sessions : phase[h] = "none" => phase'[h] = "none"
        BY <1>1, <3>1, GoOnFits DEF WorkerIsCurrent
      <3> QED BY <1>1, <3>2, ReceiveShortens, ThreadsStay
    <2>4. LeftIsKnown'
      BY <2>1, Zenon DEF LeftIsKnown, Left
    <2>5. DebuggerWaitHasAClient'
      BY <2>2 DEF DebuggerWaitHasAClient, Pending
    <2>6. NobodyForgotten'
      BY <1>1, <2>2, ReceiveShortens DEF NobodyForgotten
    <2> QED BY <1>1, <2>3, <2>4, <2>5, <2>6, PartsKept
  <1> QED BY <1>2, <1>3

LEMMA OnRuntimeReadyKeeps ==
    ASSUME TypeOK, SessionInv, NEW g \in Sessions, OnRuntimeReady(g)
    PROVE  SessionInv'
  <1> USE DEF SessionInv
  <1>1. Receive(g, "runtimeReady")
        /\ UNCHANGED <<state, generation, worker, hooked, url, coreVars, connected, everConnected, disconnectError, signalled>>
    BY DEF OnRuntimeReady, coreVars
  <1>2. CASE ~IsCurrentSession(g)
    <2>1. UNCHANGED <<coreVars, phase, clientVars, waiter, signalled>>
      BY <1>1, <1>2 DEF OnRuntimeReady, clientVars
    <2> QED BY <1>1, <2>1, IgnoredKeeps
  <1>3. CASE IsCurrentSession(g)
    <2>1. waiter' = Settled(waiter, {"debugger"}, "ok") /\ GoOn("debugger", "gotDebugger") /\ waiter \in Calls
      BY <1>3, Groups DEF OnRuntimeReady, AllOK, CallsOK
    <2>2. \A w \in Waiters : waiter'[w] \in Pending => waiter[w] = waiter'[w] /\ waiter'[w] # "debugger"
      BY <2>1, SettledCalls
    <2>3. PhasesFit' /\ \A h \in Sessions : phase[h] = "none" => phase'[h] = "none"
      BY <1>1, <2>1, GoOnFits DEF WorkerIsCurrent, Continuing
    <2>4. ThreadsFit'
      BY <1>1, <2>3, ReceiveShortens, ThreadsStay
    <2>5. DebuggerWaitHasAClient'
      BY <2>2 DEF DebuggerWaitHasAClient, Pending
    <2>6. NobodyForgotten'
      BY <1>1, <2>2, ReceiveShortens DEF NobodyForgotten
    <2> QED BY <1>1, <2>3, <2>4, <2>5, <2>6, PartsKept
  <1> QED BY <1>2, <1>3

LEMMA OnWorkerErrorKeeps ==
    ASSUME TypeOK, SessionInv, NEW g \in Sessions, OnWorkerError(g)
    PROVE  SessionInv'
  BY IgnoredKeeps, StoppingMessageKeeps DEF OnWorkerError

LEMMA OnCloseKeeps ==
    ASSUME TypeOK, SessionInv, NEW g \in Sessions, OnClose(g)
    PROVE  SessionInv'
  <1>1. CASE IsCurrentSession(g)
    <2>1. state # "idle" /\ g = generation
      BY <1>1, SessionsAssumption DEF IsCurrentSession, SessionInv, WorkerIsCurrent, Sessions
    <2> QED BY <1>1, <2>1, CompleteStopKeeps DEF OnClose
  <1>2. CASE ~IsCurrentSession(g)
    <2>1. /\ pipe[g] # <<>> /\ pipe' = [pipe EXCEPT ![g] = Tail(@)]
          /\ UNCHANGED <<state, generation, worker, hooked, url, phase, waiter, since, proc, signalled, connected,
                         everConnected, disconnectError>>
      BY <1>2 DEF OnClose, coreVars, clientVars, waitVars
    <2>2. DOMAIN pipe = Sessions
      BY Groups DEF AllOK, PipeOK
    <2>3. ThreadsFit'
      BY <2>1, <2>2 DEF ThreadsFit, SessionInv
    <2> QED BY <2>1, <2>3, PartsKept DEF SessionInv
  <1> QED BY <1>1, <1>2

\* A worker changes its thread, its client and its pipe only.
LEMMA WorkerKeeps ==
    ASSUME TypeOK, SessionInv, NEW g \in Sessions,
           ServerStarts(g) \/ WorkerFails(g) \/ WorkerExits(g) \/ ClientOpens(g) \/ ClientCloses(g) \/ ClientRuns(g)
    PROVE  SessionInv'
  <1>0. DOMAIN pipe = Sessions /\ DOMAIN proc = Sessions
    BY Groups DEF AllOK, PipeOK, ThreadOK
  <1>1. UNCHANGED <<coreVars, phase, clientVars, waitVars, signalled>>
    BY DEF ServerStarts, WorkerFails, WorkerExits, ClientOpens, ClientCloses, ClientRuns, Post
  <1>2. UNCHANGED <<state, generation, worker, hooked, url, phase, waiter, since, signalled, connected,
                    everConnected, disconnectError>>
    BY <1>1 DEF coreVars, clientVars, waitVars
  <1>3. /\ proc[g] \in {"starting", "live"} /\ proc'[g] \in {"starting", "live", "gone"}
        /\ \A h \in Sessions : h # g => proc'[h] = proc[h] /\ pipe'[h] = pipe[h]
    BY <1>0 DEF ServerStarts, WorkerFails, WorkerExits, ClientOpens, ClientCloses, ClientRuns, Post, Running
  <1>4. ThreadsFit'
    BY <1>2, <1>3 DEF ThreadsFit, SessionInv
  <1> QED BY <1>2, <1>4, PartsKept DEF SessionInv

-----------------------------------------------------------------------------
(* The theorems.                                                           *)

Inv == TypeOK /\ SessionInv

LEMMA Initially == Init => Inv
  <1> SUFFICES ASSUME Init PROVE Inv
    OBVIOUS
  <1>1. \A g \in Sessions : g \in Nat \ {0}
    BY SessionsAssumption DEF Sessions
  <1>2. <<>> \in Seq(Messages)
    BY EmptySeq
  <1>3. TypeOK
    <2>1. CoreOK /\ SinceOK /\ CallsOK
      <3>1. 0 \in 0..MaxSessions
        BY SessionsAssumption
      <3>2. CoreOK
        BY <3>1 DEF Init, CoreOK
      <3>3. SinceOK /\ CallsOK
        BY <3>1 DEF Init, SinceOK, CallsOK, Calls
      <3> QED BY <3>2, <3>3
    <2>2. ClientOK
      BY Zenon DEF Init, ClientOK
    <2>3. PhaseOK /\ ThreadOK
      BY DEF Init, PhaseOK, ThreadOK, Phases
    <2>4. PipeOK
      BY <1>2 DEF Init, PipeOK
    <2>5. needs \in {"nothing", "client", "debugger"}
      BY DEF Init
    <2> QED BY <2>1, <2>2, <2>3, <2>4, <2>5, Groups DEF AllOK
  <1>4. SessionInv
    BY <1>1 DEF Init, SessionInv, WorkerIsCurrent, ThreadsFit, PhasesFit, SignalsFit, LeftIsKnown, HooksFollowSession,
                NobodyForgotten, DebuggerWaitHasAClient, Pending
  <1> QED BY <1>3, <1>4 DEF Inv

LEMMA Stutters ==
    ASSUME Inv, UNCHANGED vars
    PROVE  Inv'
  BY DEF Inv, TypeOK, SessionInv, WorkerIsCurrent, ThreadsFit, PhasesFit, SignalsFit, LeftIsKnown, HooksFollowSession,
         NobodyForgotten, DebuggerWaitHasAClient, vars, coreVars, clientVars, waitVars, workerVars

LEMMA Inductive == Inv /\ [Next]_vars => Inv'
  <1> SUFFICES ASSUME Inv, [Next]_vars PROVE Inv'
    OBVIOUS
  <1>1. CASE Next
    <2>1. TypeOK'
      BY <1>1, TypesKept DEF Inv, SessionInv
    <2>2. SessionInv'
      BY <1>1, CallKeeps, UnwindKeeps, ContinuationKeeps, AttachTimeoutKeeps, OnReadyKeeps, OnConnectedKeeps, OnDisconnectedKeeps,
         OnRuntimeReadyKeeps, OnWorkerErrorKeeps, OnCloseKeeps, WorkerKeeps DEF Inv, Next, Loop, Worker
    <2> QED BY <2>1, <2>2 DEF Inv
  <1>2. CASE UNCHANGED vars
    BY <1>2, Stutters
  <1> QED BY <1>1, <1>2

THEOREM Invariance == Spec => []Inv
  BY Initially, Inductive, PTL DEF Spec

THEOREM TypeCorrect == Spec => []TypeOK
  BY Invariance, PTL DEF Inv

\* inspector.ts: hooks and the native callback are live exactly while the url of
\* their session is announced; a session that is told to stop loses both for good.
THEOREM HooksCorrect == Spec => []HooksFollowSession
  <1>1. Inv => HooksFollowSession
    BY DEF Inv, SessionInv
  <1> QED BY <1>1, Invariance, PTL

\* inspector.ts: no call of waitForConnection, waitForDebugger or detach
\* outlives its session unsettled.
THEOREM WaitersCorrect == Spec => []NobodyForgotten
  <1>1. Inv => NobodyForgotten
    BY DEF Inv, SessionInv
  <1> QED BY <1>1, Invariance, PTL

\* inspector.ts: in a session that was not told to stop nobody waits for the
\* debugger of a client that left.
THEOREM DebuggerWaitCorrect == Spec => []DebuggerWaitHasAClient
  <1>1. Inv => DebuggerWaitHasAClient
    BY DEF Inv, SessionInv
  <1> QED BY <1>1, Invariance, PTL

-----------------------------------------------------------------------------
(* Refinement of InspectorLife.                                            *)

Over == {h \in 1..generation : proc[h] \in {"none", "joined"}}
LifeStep == [Life!LifeNext]_(Life!lifeVars)

\* A step that starts no session and joins no thread ends none.
LEMMA OverKept ==
    ASSUME TypeOK, generation' = generation,
           \A h \in Sessions : proc'[h] \in {"none", "joined"} <=> proc[h] \in {"none", "joined"}
    PROVE  Over' = Over
  <1>1. 1..generation \subseteq Sessions
    BY SessionsAssumption, Groups DEF AllOK, CoreOK, Sessions
  <1> QED BY <1>1 DEF Over

\* What `life` of InspectorLife is.
LifeState == IF state = "active" /\ generation \in signalled THEN "stopping" ELSE state

\* What the steps are for InspectorLife.
LEMMA LifeSteps ==
    /\ LifeState' = LifeState /\ generation' = generation /\ Over' = Over => LifeStep
    /\ LifeState = "attaching" /\ LifeState' = "active" /\ generation' = generation /\ Over' = Over => LifeStep
    /\ LifeState \in {"attaching", "active"} /\ LifeState' = "stopping" /\ generation' = generation /\ Over' = Over => LifeStep
    /\ LifeState # "idle" /\ LifeState' = "idle" /\ generation' = generation /\ Over' = Over \cup {generation} => LifeStep
    /\ LifeState = "idle" /\ generation' = generation + 1 /\ LifeState' = "attaching" /\ Over' = Over => LifeStep
    /\ LifeState = "idle" /\ generation' = generation + 1 /\ LifeState' = "idle" /\ Over' = Over \cup {generation'} => LifeStep
  BY DEF LifeStep, LifeState, Over, Life!LifeNext, Life!lifeVars, Life!Start, Life!Activate, Life!Stop, Life!End

\* beginStop is a Stop, or nothing if the session was stopping.
LEMMA BeginStopIsStop ==
    ASSUME TypeOK, state # "idle", NEW g, NEW calls, NEW phases, BeginStop(g, calls, phases), proc' = proc
    PROVE  LifeStep
  <1>1. generation' = generation /\ LifeState' = "stopping" /\ Over' = Over
    BY DEF BeginStop, Over, LifeState
  <1>2. LifeState \in {"attaching", "active", "stopping"}
    BY DEF LifeState, TypeOK
  <1> QED BY <1>1, <1>2, LifeSteps

\* completeStop is an End.
LEMMA CompleteStopIsEnd ==
    ASSUME TypeOK, SessionInv, state # "idle", CompleteStop(generation)
    PROVE  LifeStep
  <1>1. /\ LifeState # "idle" /\ LifeState' = "idle" /\ generation' = generation
        /\ proc' = [proc EXCEPT ![generation] = "joined"]
    BY DEF CompleteStop, Join, LifeState
  <1>2. generation \in 1..generation /\ 1..generation \subseteq Sessions
    BY SessionsAssumption, Groups DEF SessionInv, WorkerIsCurrent, Sessions, AllOK, CoreOK
  <1>3. DOMAIN proc = Sessions
    BY Groups DEF AllOK, ThreadOK
  <1>4. Over' = Over \cup {generation}
    BY <1>1, <1>2, <1>3 DEF Over
  <1> QED BY <1>1, <1>4, LifeSteps

\* A step that leaves the sessions alone is none of InspectorLife.
LEMMA QuietIsLife ==
    ASSUME UNCHANGED <<state, generation, signalled, proc>>
    PROVE  LifeStep
  <1>1. Over' = Over /\ LifeState' = LifeState
    BY DEF Over, LifeState
  <1> QED BY <1>1, LifeSteps

\* The end of an attach is an Activate, or nothing if the session was told to stop.
LEMMA EndsIsActivate ==
    ASSUME TypeOK, SessionInv, NEW g \in Sessions, Ends(g), phase[g] \in {"ready"} \cup Continuing,
           UNCHANGED <<generation, signalled, proc>>, url => url'
    PROVE  LifeStep
  <1>1. Over' = Over
    BY DEF Over
  <1>2. CASE state' = state
    BY <1>2, QuietIsLife
  <1>3. CASE state' = "active" /\ state = "attaching"
    <2>1. LifeState = "attaching" /\ LifeState' = "active"
      BY <1>3 DEF LifeState, SessionInv, SignalsFit
    <2> QED BY <1>1, <2>1, LifeSteps
  <1>4. CASE state' = "active" /\ state = "stopping" /\ generation \in signalled
    <2>1. LifeState = "stopping" /\ LifeState' = "stopping"
      BY <1>4 DEF LifeState
    <2> QED BY <1>1, <2>1, LifeSteps
  <1> QED BY <1>2, <1>3, <1>4, EndsFits

LEMMA CallIsLife ==
    ASSUME TypeOK, SessionInv, Call
    PROVE  LifeStep
  <1>1. generation \in Nat /\ DOMAIN proc = Sessions /\ 1..generation \subseteq Sessions
    BY SessionsAssumption, Groups DEF AllOK, CoreOK, ThreadOK, Sessions
  <1>2. CASE Attach
    <2>1. generation' = generation + 1 /\ generation' \in Sessions /\ state = "idle" /\ state' = "attaching"
          /\ proc' = [proc EXCEPT ![generation'] = "starting"]
      BY <1>1, <1>2, SessionsAssumption DEF Attach, Sessions
    <2>2. Over' = Over
      BY <1>1, <2>1 DEF Over
    <2> QED BY <2>1, <2>2, LifeSteps DEF LifeState
  <1>3. CASE AttachFails
    <2>1. generation' = generation + 1 /\ generation' \in Sessions /\ state = "idle" /\ state' = "idle" /\ proc' = proc
      BY <1>1, <1>3, SessionsAssumption DEF AttachFails, workerVars, Sessions
    <2>2. proc[generation'] = "none"
      BY <1>1, <2>1 DEF SessionInv, ThreadsFit
    <2>3. Over' = Over \cup {generation'}
      BY <1>1, <2>1, <2>2 DEF Over
    <2> QED BY <2>1, <2>3, LifeSteps DEF LifeState
  <1>4. CASE ForceStop
    <2>1. CASE state # "idle"
      BY <1>4, <2>1, CompleteStopIsEnd DEF ForceStop
    <2>2. CASE state = "idle"
      BY <1>4, <2>2, QuietIsLife DEF ForceStop, coreVars, workerVars
    <2> QED BY <2>1, <2>2
  <1>5. ASSUME NEW w \in Waiters, WaitForConnection(w) \/ WaitForDebugger(w)
        PROVE  LifeStep
    BY <1>5, QuietIsLife DEF WaitForConnection, WaitForDebugger, Begin, coreVars, workerVars
  <1>6. ASSUME NEW w \in Waiters, Detach(w)
        PROVE  LifeStep
    <2>1. CASE state # "idle"
      BY <1>6, <2>1, BeginStopIsStop DEF Detach
    <2>2. CASE state = "idle"
      BY <1>6, <2>2, QuietIsLife DEF Detach, coreVars
    <2> QED BY <2>1, <2>2
  <1> QED BY <1>2, <1>3, <1>4, <1>5, <1>6 DEF Call

LEMMA LoopIsLife ==
    ASSUME TypeOK, SessionInv, NEW g \in Sessions,
           \/ Unwind(g) \/ AfterClient(g) \/ AfterDebugger(g) \/ AttachTimeout(g) \/ OnReady(g) \/ OnConnected(g) \/ OnDisconnected(g)
           \/ OnRuntimeReady(g) \/ OnWorkerError(g) \/ OnClose(g)
    PROVE  LifeStep
  <1>1. IsCurrentSession(g) => state # "idle" /\ g = generation
    BY SessionsAssumption DEF IsCurrentSession, SessionInv, WorkerIsCurrent, Sessions
  <1>2. CASE Unwind(g)
    <2>1. CASE IsCurrentSession(g)
      BY <1>1, <1>2, <2>1, BeginStopIsStop DEF Unwind
    <2>2. CASE ~IsCurrentSession(g)
      BY <1>2, <2>2, QuietIsLife DEF Unwind, coreVars
    <2> QED BY <2>1, <2>2
  <1>3. CASE AttachTimeout(g)
    BY <1>3, QuietIsLife DEF AttachTimeout, coreVars, workerVars
  <1>4. CASE OnReady(g)
    <2>1. proc' = proc
      BY <1>4 DEF OnReady, Receive
    <2>2. CASE IsCurrentSession(g) /\ BeginStop(g, waiter, [phase EXCEPT ![g] = "settled"])
      BY <1>1, <2>1, <2>2, BeginStopIsStop
    <2>3. CASE phase[g] = "ready" /\ Ends(g) /\ url' = TRUE /\ UNCHANGED <<generation, signalled>>
      BY <2>1, <2>3, EndsIsActivate
    <2>5. CASE state' = state /\ UNCHANGED <<generation, signalled>>
      BY <2>1, <2>5, QuietIsLife
    <2>4. CASE UNCHANGED <<coreVars, phase, clientVars, waiter, signalled>>
      BY <2>1, <2>4, QuietIsLife DEF coreVars
    <2> QED BY <1>4, <2>2, <2>3, <2>4, <2>5 DEF OnReady
  <1>5. CASE AfterClient(g) \/ AfterDebugger(g)
    <2>1. UNCHANGED <<generation, signalled, proc, url>> /\ phase[g] \in Continuing
      BY <1>5 DEF AfterClient, AfterDebugger, workerVars, Continuing
    <2>2. CASE Ends(g)
      BY <2>1, <2>2, EndsIsActivate
    <2>3. CASE state' = state
      BY <2>1, <2>3, QuietIsLife
    <2> QED BY <1>5, <2>2, <2>3 DEF AfterClient, AfterDebugger
  <1>6. CASE OnConnected(g) \/ OnDisconnected(g) \/ OnRuntimeReady(g)
    BY <1>6, QuietIsLife DEF OnConnected, OnDisconnected, OnRuntimeReady, Receive, coreVars
  <1>7. CASE OnWorkerError(g)
    <2>1. proc' = proc
      BY <1>7 DEF OnWorkerError, Receive
    <2> QED BY <1>1, <1>7, <2>1, BeginStopIsStop, QuietIsLife DEF OnWorkerError, coreVars
  <1>8. CASE OnClose(g)
    BY <1>1, <1>8, CompleteStopIsEnd, QuietIsLife DEF OnClose, coreVars
  <1> QED BY <1>2, <1>3, <1>4, <1>5, <1>6, <1>7, <1>8

LEMMA WorkerIsLife ==
    ASSUME TypeOK, SessionInv, NEW g \in Sessions,
           ServerStarts(g) \/ WorkerFails(g) \/ WorkerExits(g) \/ ClientOpens(g) \/ ClientCloses(g) \/ ClientRuns(g)
    PROVE  LifeStep
  <1>0. DOMAIN proc = Sessions
    BY Groups DEF AllOK, ThreadOK
  <1>1. LifeState' = LifeState /\ generation' = generation
    BY DEF ServerStarts, WorkerFails, WorkerExits, ClientOpens, ClientCloses, ClientRuns, Post, coreVars, LifeState
  <1>2. \A h \in Sessions : proc'[h] \in {"none", "joined"} <=> proc[h] \in {"none", "joined"}
    BY <1>0 DEF ServerStarts, WorkerFails, WorkerExits, ClientOpens, ClientCloses, ClientRuns, Post, Running
  <1> QED BY <1>1, <1>2, OverKept, LifeSteps

\* InspectorLife: the sessions of an Inspector follow one another, one that was
\* told to stop ends and is nothing but stopping until then, and the thread of
\* each is joined when it is over, whatever the callers and the workers do.
THEOREM SessionsCorrect == Spec => SessionsFollowLife
  <1>1. Init => Life!LifeInit
    BY SessionsAssumption DEF Init, Life!LifeInit
  <1>2. Inv /\ [Next]_vars => [Life!LifeNext]_(Life!lifeVars)
    <2> SUFFICES ASSUME Inv, [Next]_vars PROVE LifeStep
      BY DEF LifeStep
    <2>1. CASE Next
      BY <2>1, CallIsLife, LoopIsLife, WorkerIsLife DEF Inv, Next, Loop, Worker
    <2>2. CASE UNCHANGED vars
      BY <2>2, QuietIsLife DEF vars, coreVars, workerVars
    <2> QED BY <2>1, <2>2
  <1> QED BY <1>1, <1>2, Invariance, PTL DEF Spec, SessionsFollowLife, Life!LifeSpec

-----------------------------------------------------------------------------
(* The reason of a stop.                                                   *)

StopIsReasoned == StopBegins => HasReason

LEMMA CallIsReasoned ==
    ASSUME TypeOK, Call
    PROVE  StopIsReasoned
  <1>1. CASE \E w \in Waiters : Detach(w)
    <2>1. PICK w \in Waiters : Detach(w)
      BY <1>1
    <2>2. CASE state \in {"attaching", "active"}
      <3>1. waiter' = RejectWaiters([waiter EXCEPT ![w] = "stop"]) /\ waiter[w] = "free"
        BY <2>1, <2>2 DEF Detach, BeginStop
      <3>2. DOMAIN waiter = Waiters
        BY Groups DEF AllOK, CallsOK, Calls
      <3>3. waiter'[w] = "stop"
        BY <3>1, <3>2 DEF RejectWaiters, Settled
      <3> QED BY <3>1, <3>3 DEF StopIsReasoned, HasReason
    <2>3. CASE state \notin {"attaching", "active"}
      BY <2>3 DEF StopIsReasoned, StopBegins
    <2> QED BY <2>2, <2>3
  <1>2. CASE Attach \/ AttachFails \/ ForceStop \/ \E w \in Waiters : WaitForConnection(w) \/ WaitForDebugger(w)
    BY <1>2 DEF Attach, AttachFails, ForceStop, CompleteStop, WaitForConnection, WaitForDebugger, Begin, coreVars,
                StopIsReasoned, StopBegins
  <1> QED BY <1>1, <1>2 DEF Call

LEMMA LoopIsReasoned ==
    ASSUME TypeOK, NEW g \in Sessions,
           \/ Unwind(g) \/ AfterClient(g) \/ AfterDebugger(g) \/ AttachTimeout(g) \/ OnReady(g) \/ OnConnected(g) \/ OnDisconnected(g)
           \/ OnRuntimeReady(g) \/ OnWorkerError(g) \/ OnClose(g)
    PROVE  StopIsReasoned
  <1>1. CASE Unwind(g)
    BY <1>1 DEF Unwind, IsCurrentSession, coreVars, StopIsReasoned, StopBegins, HasReason
  <1>2. CASE OnReady(g)
    <2>1. pipe[g] # <<>> /\ Head(pipe[g]) = "ready"
      BY <1>2 DEF OnReady, Receive
    <2>2. CASE IsCurrentSession(g)
      BY <2>1, <2>2 DEF IsCurrentSession, StopIsReasoned, HasReason
    <2>3. CASE ~IsCurrentSession(g)
      BY <1>2, <2>3 DEF OnReady, coreVars, StopIsReasoned, StopBegins
    <2> QED BY <2>2, <2>3
  <1>3. CASE OnWorkerError(g)
    <2>1. pipe[g] # <<>> /\ Head(pipe[g]) = "error"
      BY <1>3 DEF OnWorkerError, Receive
    <2>2. CASE IsCurrentSession(g)
      BY <2>1, <2>2 DEF IsCurrentSession, StopIsReasoned, HasReason
    <2>3. CASE ~IsCurrentSession(g)
      BY <1>3, <2>3 DEF OnWorkerError, coreVars, StopIsReasoned, StopBegins
    <2> QED BY <2>2, <2>3
  <1>4. CASE OnClose(g) \/ AttachTimeout(g) \/ OnDisconnected(g)
    BY <1>4 DEF OnClose, CompleteStop, AttachTimeout, OnDisconnected, coreVars, StopIsReasoned, StopBegins
  <1>5. CASE OnConnected(g) \/ OnRuntimeReady(g)
    BY <1>5 DEF OnConnected, OnRuntimeReady, coreVars, StopIsReasoned, StopBegins
  <1>6. CASE AfterClient(g) \/ AfterDebugger(g)
    BY <1>6 DEF AfterClient, AfterDebugger, Ends, StopIsReasoned, StopBegins
  <1> QED BY <1>1, <1>2, <1>3, <1>4, <1>5, <1>6

\* inspector.ts: a session is ended by a detach, by its own attach or by its own
\* worker, never by what is left of an older one.
THEOREM StopReasonCorrect == Spec => StopHasItsOwnReason
  <1>1. Inv /\ [Next]_vars => [StopBegins => HasReason]_vars
    <2> SUFFICES ASSUME Inv, Next PROVE StopIsReasoned
      BY DEF StopIsReasoned
    <2>1. CASE Worker
      BY <2>1 DEF Worker, ServerStarts, WorkerFails, WorkerExits, ClientOpens, ClientCloses, ClientRuns, Post, coreVars,
                  StopIsReasoned, StopBegins
    <2> QED BY <2>1, CallIsReasoned, LoopIsReasoned DEF Inv, Next, Loop
  <1> QED BY <1>1, Invariance, PTL DEF Spec, StopHasItsOwnReason

-----------------------------------------------------------------------------
(*                                 The bridge                              *)


-----------------------------------------------------------------------------
(* Types, in groups.                                                       *)

States == {"new", "attaching", "active", "stopping", "idle"}
Opens == [at : {"none", "loading", "attaching", "detaching", "ok", "failed"}, number : Nat, of : 0..MaxInspectors]
Closes == [at : {"none", "detaching", "pending", "ended"}, number : 0..MaxCloses, of : 0..MaxInspectors, pending : Nat]
Waits == {"free", "closing", "resumed", "opening", "ok", "failed"}

LifeOK == life \in [Inspectors -> States] /\ current \in 0..MaxInspectors
PromisesOK == opening \in Opens /\ closing \in Closes
OpenersOK == opener \in [Openers -> Waits]
KernelOK == /\ disposed \in BOOLEAN /\ finished \in BOOLEAN
            /\ kernel \in {"open", "disposing", "closed"} /\ awaited \in 0..MaxCloses
            /\ exitable \subseteq Inspectors

\* The groups make up the type invariant.
LEMMA BridgeGroups == /\ BridgeTypeOK <=> LifeOK /\ PromisesOK /\ OpenersOK /\ KernelOK
                /\ (BridgeTypeOK <=> LifeOK /\ PromisesOK /\ OpenersOK /\ KernelOK)'
  BY DEF BridgeTypeOK, LifeOK, PromisesOK, OpenersOK, KernelOK, States, Opens, Closes, Waits

\* A number of an Inspector is a number, and 0 is none of them.
LEMMA Numbers ==
    /\ Inspectors \subseteq 0..MaxInspectors /\ 0 \in 0..MaxInspectors /\ 0 \notin Inspectors
    /\ \A i \in 0..MaxInspectors : i = 0 \/ i \in Inspectors
    /\ 0 \in 0..MaxCloses
  BY InspectorsAssumption, ClosesAssumption DEF Inspectors

-----------------------------------------------------------------------------
(* The inductive invariant.                                                *)

\* An Inspector attaches only for the opening under way.
AttachHasOpening == \A i \in Inspectors : life[i] = "attaching" => opening.at = "attaching" /\ opening.of = i

\* While the inspector tree is loaded nothing is live, and what it opens is
\* published until it is closed.
OpeningFits ==
    /\ opening.at = "loading" => Live = {}
    /\ opening.at \in {"attaching", "detaching"} => opening.of \in Inspectors /\ current \in {0, opening.of}

\* A close, and the dispose of the bridge, leave nothing live from their call on.
ClosingEmpties == closing.at # "none" \/ disposed => Live = {}

\* What close has detached stays idle.
ClosedStaysIdle == closing.at \in {"pending", "ended"} /\ closing.of # 0 => life[closing.of] = "idle"

KernelDisposes == kernel # "open" => disposed

BridgeInv ==
    /\ AttachHasOpening /\ OpeningFits /\ ClosingEmpties /\ ClosedStaysIdle /\ KernelDisposes
    /\ LiveIsCurrent /\ FinishedMayExit

BridgeIsSound == BridgeTypeOK /\ BridgeInv

\* Detaching the current Inspector leaves nothing live.
LEMMA DetachedIsNotLive ==
    ASSUME BridgeTypeOK, LiveIsCurrent, current # 0, life' = Detached(current)
    PROVE  /\ life' \in [Inspectors -> States] /\ Live' = {}
           /\ \A i \in Inspectors : life'[i] = life[i] \/ (life[i] \in {"attaching", "active"} /\ life'[i] = "stopping")
  <1>1. life \in [Inspectors -> States] /\ current \in Inspectors
    BY BridgeGroups, Numbers DEF LifeOK
  <1>2. \A i \in Inspectors : life'[i] = IF i = current /\ current \in Live THEN "stopping" ELSE life[i]
    BY <1>1 DEF Detached
  <1>3. life' \in [Inspectors -> States]
    BY <1>1 DEF Detached, States
  <1> QED BY <1>1, <1>2, <1>3 DEF Live, LiveIsCurrent, Detached

\* Each part is kept by a step that leaves its variables alone.
LEMMA BridgePartsKept ==
    /\ LifeOK /\ UNCHANGED <<life, current>> => LifeOK'
    /\ PromisesOK /\ UNCHANGED <<opening, closing>> => PromisesOK'
    /\ OpenersOK /\ UNCHANGED opener => OpenersOK'
    /\ KernelOK /\ UNCHANGED <<disposed, kernelVars, exitable>> => KernelOK'
    /\ AttachHasOpening /\ UNCHANGED <<life, opening>> => AttachHasOpening'
    /\ OpeningFits /\ UNCHANGED <<life, opening, current>> => OpeningFits'
    /\ ClosingEmpties /\ UNCHANGED <<life, closing, disposed>> => ClosingEmpties'
    /\ ClosedStaysIdle /\ UNCHANGED <<life, closing>> => ClosedStaysIdle'
    /\ KernelDisposes /\ UNCHANGED <<kernel, disposed>> => KernelDisposes'
    /\ LiveIsCurrent /\ UNCHANGED <<life, current>> => LiveIsCurrent'
    /\ FinishedMayExit /\ UNCHANGED <<finished, life, current, opening, exitable>> => FinishedMayExit'
  BY DEF LifeOK, PromisesOK, OpenersOK, KernelOK, kernelVars, AttachHasOpening, OpeningFits, ClosingEmpties,
         ClosedStaysIdle, KernelDisposes, LiveIsCurrent, FinishedMayExit, Live, HasUrl

\* A call that enters ensureOpen.
LEMMA EnterKeeps ==
    ASSUME BridgeIsSound, NEW w \in Openers, Enter(w), UNCHANGED <<life, current, closing, disposed, kernelVars, exitable>>
    PROVE  BridgeIsSound'
  <1> USE DEF BridgeIsSound, BridgeInv
  <1>1. LifeOK /\ PromisesOK /\ OpenersOK /\ KernelOK
    BY BridgeGroups
  <1>2. CASE UNCHANGED opening /\ opener' \in {[opener EXCEPT ![w] = "failed"], [opener EXCEPT ![w] = "ok"], [opener EXCEPT ![w] = "opening"]}
    <2>1. OpenersOK'
      BY <1>1, <1>2 DEF OpenersOK, Waits
    <2> QED BY <1>1, <1>2, <2>1, BridgePartsKept, BridgeGroups DEF kernelVars
  <1>3. CASE /\ opening.at = "none" /\ ~HasUrl /\ opener' = [opener EXCEPT ![w] = "opening"]
             /\ opening' = [at |-> "loading", number |-> opening.number + 1, of |-> 0]
    <2>1. OpenersOK' /\ PromisesOK'
      BY <1>1, <1>3, Numbers DEF OpenersOK, Waits, PromisesOK, Opens
    <2>2. Live = {}
      <3>1. \A i \in Inspectors : life[i] # "attaching"
        BY <1>3 DEF AttachHasOpening
      <3> QED BY <1>3, <3>1, Numbers DEF Live, LiveIsCurrent, HasUrl
    <2>3. AttachHasOpening' /\ OpeningFits' /\ FinishedMayExit'
      BY <1>3, <2>2 DEF AttachHasOpening, OpeningFits, FinishedMayExit, Live, HasUrl
    <2> QED BY <1>1, <2>1, <2>3, BridgePartsKept, BridgeGroups DEF kernelVars
  <1> QED BY <1>2, <1>3 DEF Enter

LEMMA OpenKeeps ==
    ASSUME BridgeIsSound, NEW w \in Openers, Open(w) \/ OpenResumes(w)
    PROVE  BridgeIsSound'
  <1>1. CASE Enter(w) /\ UNCHANGED <<life, current, closing, disposed, kernelVars, exitable>>
    BY <1>1, EnterKeeps
  <1>2. CASE opener' = [opener EXCEPT ![w] = "closing"]
             /\ UNCHANGED <<opening, life, current, closing, disposed, kernelVars, exitable>>
    <2> USE DEF BridgeIsSound, BridgeInv
    <2>1. LifeOK /\ PromisesOK /\ OpenersOK /\ KernelOK
      BY BridgeGroups
    <2>2. OpenersOK'
      BY <1>2, <2>1 DEF OpenersOK, Waits
    <2> QED BY <1>2, <2>1, <2>2, BridgePartsKept, BridgeGroups DEF kernelVars
  <1> QED BY <1>1, <1>2 DEF Open, OpenResumes

LEMMA LoadedKeeps ==
    ASSUME BridgeIsSound, LoadFails \/ Loaded
    PROVE  BridgeIsSound'
  <1> USE DEF BridgeIsSound, BridgeInv
  <1>1. LifeOK /\ PromisesOK /\ OpenersOK /\ KernelOK
    BY BridgeGroups
  <1>2. /\ opening.at = "loading" /\ Live = {} /\ UNCHANGED <<closing, disposed, opener, kernelVars, exitable>>
    BY DEF LoadFails, Loaded, OpeningFits
  <1>3. CASE opening' = [opening EXCEPT !.at = "failed"] /\ UNCHANGED <<life, current>>
    <2>1. PromisesOK'
      BY <1>1, <1>2, <1>3 DEF PromisesOK, Opens
    <2>2. AttachHasOpening' /\ OpeningFits' /\ FinishedMayExit'
      BY <1>1, <1>2, <1>3, Numbers DEF AttachHasOpening, OpeningFits, FinishedMayExit, Live, HasUrl, LifeOK, PromisesOK, Opens
    <2> QED BY <1>1, <1>2, <1>3, <2>1, <2>2, BridgePartsKept, BridgeGroups DEF kernelVars
  <1>4. ASSUME NEW i \in Free, NEW outcome \in {"attaching", "idle"}, ~Cancelled,
               life' = [life EXCEPT ![i] = outcome], current' = i,
               opening' = [opening EXCEPT !.at = "attaching", !.of = i]
        PROVE  BridgeIsSound'
    <2>1. i \in Inspectors /\ life[i] = "new"
      BY DEF Free
    <2>2. LifeOK' /\ PromisesOK'
      BY <1>1, <1>2, <1>4, <2>1, Numbers DEF LifeOK, PromisesOK, Opens, States
    <2>3. opening'.at = "attaching" /\ opening'.of = i
      BY <1>1, <1>4 DEF PromisesOK, Opens
    <2>4. \A j \in Inspectors : life'[j] = IF j = i THEN outcome ELSE life[j]
      BY <1>1, <1>4 DEF LifeOK
    <2>5. Live' \subseteq {i}
      BY <1>2, <2>4 DEF Live
    <2>6. AttachHasOpening' /\ OpeningFits' /\ LiveIsCurrent'
      BY <1>2, <1>4, <2>1, <2>3, <2>4, <2>5 DEF AttachHasOpening, OpeningFits, LiveIsCurrent, Live
    <2>7. ClosingEmpties'
      BY <1>2, <1>4 DEF ClosingEmpties, Cancelled
    <2>8. ClosedStaysIdle' /\ FinishedMayExit'
      BY <1>2, <1>4, <2>3 DEF ClosedStaysIdle, FinishedMayExit, Cancelled
    <2> QED BY <1>1, <1>2, <2>2, <2>6, <2>7, <2>8, BridgePartsKept, BridgeGroups DEF kernelVars
  <1> QED BY <1>3, <1>4 DEF LoadFails, Loaded

LEMMA AttachSettlesKeeps ==
    ASSUME BridgeIsSound, AttachSettles
    PROVE  BridgeIsSound'
  <1> USE DEF BridgeIsSound, BridgeInv
  <1> DEFINE i == opening.of
  <1>1. LifeOK /\ PromisesOK /\ OpenersOK /\ KernelOK
    BY BridgeGroups
  <1>2. /\ opening.at = "attaching" /\ i \in Inspectors /\ life[i] # "attaching"
        /\ UNCHANGED <<current, closing, disposed, opener, kernelVars>>
    BY DEF AttachSettles, OpeningFits
  <1>3. \A j \in Inspectors : life[j] # "attaching"
    BY <1>2 DEF AttachHasOpening
  <1>4. CASE /\ life[i] = "active" /\ current = i
             /\ opening' = [opening EXCEPT !.at = "ok"] /\ exitable' = OnOpen(i) /\ UNCHANGED life
    <2>1. PromisesOK' /\ opening'.at = "ok"
      BY <1>1, <1>2, <1>4 DEF PromisesOK, Opens
    <2>2. KernelOK'
      BY <1>1, <1>2, <1>4 DEF KernelOK, kernelVars, OnOpen
    <2>3. AttachHasOpening' /\ OpeningFits'
      BY <1>3, <1>4, <2>1 DEF AttachHasOpening, OpeningFits
    <2>4. FinishedMayExit'
      BY <1>2, <1>4 DEF FinishedMayExit, OnOpen, kernelVars
    <2> QED BY <1>1, <1>2, <1>4, <2>1, <2>2, <2>3, <2>4, BridgePartsKept, BridgeGroups DEF kernelVars
  <1>5. CASE opening' = [opening EXCEPT !.at = "detaching"] /\ life' = Detached(i) /\ UNCHANGED exitable
    <2>1. PromisesOK' /\ opening'.at = "detaching" /\ opening'.of = i
      BY <1>1, <1>2, <1>5 DEF PromisesOK, Opens
    <2>2. life' \in [Inspectors -> States]
      BY <1>1, <1>5 DEF LifeOK, Detached, States
    <2>3. \A j \in Inspectors : life'[j] = IF j = i /\ i \in Live THEN "stopping" ELSE life[j]
      BY <1>1, <1>2, <1>5 DEF LifeOK, Detached
    <2>4. Live' \subseteq Live /\ \A j \in Inspectors : life'[j] # "attaching" /\ (life[j] = "idle" => life'[j] = "idle")
      BY <1>3, <2>3 DEF Live
    <2>5. AttachHasOpening' /\ OpeningFits' /\ ClosingEmpties' /\ LiveIsCurrent'
      BY <1>2, <2>1, <2>4 DEF AttachHasOpening, OpeningFits, ClosingEmpties, LiveIsCurrent
    <2>6. ClosedStaysIdle'
      BY <1>1, <1>2, <2>4, Numbers DEF ClosedStaysIdle, PromisesOK, Closes
    <2>7. FinishedMayExit'
      <3>1. HasUrl' => current = i
        BY <1>2 DEF HasUrl, OpeningFits
      <3>2. life'[i] # "active"
        BY <1>2, <2>3 DEF Live
      <3> QED BY <1>2, <3>1, <3>2 DEF FinishedMayExit, HasUrl
    <2> QED BY <1>1, <1>2, <1>5, <2>1, <2>2, <2>5, <2>6, <2>7, BridgePartsKept, BridgeGroups DEF kernelVars, LifeOK
  <1> QED BY <1>4, <1>5 DEF AttachSettles

LEMMA CleanupSettlesKeeps ==
    ASSUME BridgeIsSound, CleanupSettles
    PROVE  BridgeIsSound'
  <1> USE DEF BridgeIsSound, BridgeInv
  <1>1. LifeOK /\ PromisesOK /\ OpenersOK /\ KernelOK
    BY BridgeGroups
  <1>2. /\ opening.at = "detaching" /\ opening.of \in Inspectors /\ life[opening.of] = "idle"
        /\ opening' = [opening EXCEPT !.at = "failed"] /\ current' \in {0, current}
        /\ (current = opening.of => current' = 0)
        /\ UNCHANGED <<life, closing, disposed, opener, kernelVars, exitable>>
    BY Numbers DEF CleanupSettles, OpeningFits, Unpublish, IsOver
  <1>3. LifeOK' /\ PromisesOK' /\ opening'.at = "failed"
    BY <1>1, <1>2, Numbers DEF LifeOK, PromisesOK, Opens
  <1>4. AttachHasOpening' /\ OpeningFits'
    BY <1>2, <1>3 DEF AttachHasOpening, OpeningFits
  <1>5. LiveIsCurrent' /\ FinishedMayExit'
    BY <1>2, <1>3 DEF LiveIsCurrent, FinishedMayExit, Live, HasUrl, kernelVars, OpeningFits
  <1> QED BY <1>1, <1>2, <1>3, <1>4, <1>5, BridgePartsKept, BridgeGroups DEF kernelVars

LEMMA OpeningSettlesKeeps ==
    ASSUME BridgeIsSound, OpeningSettles
    PROVE  BridgeIsSound'
  <1> USE DEF BridgeIsSound, BridgeInv
  <1>1. LifeOK /\ PromisesOK /\ OpenersOK /\ KernelOK
    BY BridgeGroups
  <1>2. /\ opening.at \in {"ok", "failed"} /\ opening' = [opening EXCEPT !.at = "none", !.of = 0]
        /\ UNCHANGED <<life, current, closing, disposed, kernelVars, exitable>>
    BY DEF OpeningSettles
  <1>3. PromisesOK' /\ opening'.at = "none"
    BY <1>1, <1>2, Numbers DEF PromisesOK, Opens
  <1>4. OpenersOK'
    BY <1>1, <1>2 DEF OpeningSettles, Outcome, OpenersOK, Waits
  <1>5. AttachHasOpening' /\ OpeningFits' /\ FinishedMayExit'
    BY <1>2, <1>3 DEF AttachHasOpening, OpeningFits, FinishedMayExit, HasUrl, kernelVars
  <1> QED BY <1>1, <1>2, <1>3, <1>4, <1>5, BridgePartsKept, BridgeGroups DEF kernelVars

\* What close does, be it called by itself or by dispose: nothing is live after it.
LEMMA BeginCloseEmpties ==
    ASSUME BridgeIsSound, BeginClose, UNCHANGED <<current, opening, opener, finished, exitable>>
    PROVE  /\ LifeOK' /\ PromisesOK' /\ OpenersOK' /\ Live' = {}
           /\ AttachHasOpening' /\ OpeningFits' /\ ClosingEmpties' /\ ClosedStaysIdle' /\ LiveIsCurrent' /\ FinishedMayExit'
  <1> USE DEF BridgeIsSound, BridgeInv
  <1>1. LifeOK /\ PromisesOK /\ OpenersOK /\ KernelOK
    BY BridgeGroups
  <1>2. CASE UNCHANGED <<closing, life>> /\ Live = {}
    BY <1>1, <1>2, BridgePartsKept DEF ClosingEmpties, Live
  <1>3. CASE /\ closing.number < MaxCloses /\ closing.at = "none"
             /\ closing' = [at |-> "detaching", number |-> closing.number + 1, of |-> current, pending |-> PendingOpening]
             /\ life' = IF current = 0 THEN life ELSE Detached(current)
    <2>1. Live' = {} /\ life' \in [Inspectors -> States]
          /\ \A i \in Inspectors : life'[i] = "attaching" => life[i] = "attaching"
      <3>1. CASE current = 0
        BY <1>1, <1>3, <3>1, Numbers DEF LiveIsCurrent, Live, LifeOK
      <3>2. CASE current # 0
        BY <1>3, <3>2, DetachedIsNotLive
      <3> QED BY <3>1, <3>2
    <2>2. PendingOpening \in Nat
      BY <1>1 DEF PendingOpening, PromisesOK, Opens
    <2>3. PromisesOK' /\ LifeOK' /\ closing'.at = "detaching"
      BY <1>1, <1>3, <2>1, <2>2, ClosesAssumption DEF PromisesOK, Closes, LifeOK
    <2>4. AttachHasOpening' /\ OpeningFits' /\ ClosingEmpties' /\ ClosedStaysIdle' /\ LiveIsCurrent'
      BY <2>1, <2>3 DEF AttachHasOpening, OpeningFits, ClosingEmpties, ClosedStaysIdle, LiveIsCurrent
    <2>5. ~HasUrl'
      BY <1>1, <2>1, Numbers DEF HasUrl, Live, LifeOK
    <2> QED BY <1>1, <2>1, <2>3, <2>4, <2>5, BridgePartsKept DEF FinishedMayExit
  <1>4. Live \subseteq {current} /\ (closing.at # "none" => Live = {}) /\ (current = 0 => Live = {})
    BY Numbers DEF LiveIsCurrent, ClosingEmpties, Live
  <1> QED BY <1>2, <1>3, <1>4 DEF BeginClose

LEMMA CloseKeeps ==
    ASSUME BridgeIsSound, Close
    PROVE  BridgeIsSound'
  BY BeginCloseEmpties, BridgePartsKept, BridgeGroups DEF Close, BridgeIsSound, BridgeInv, kernelVars

LEMMA KernelCloseKeeps ==
    ASSUME BridgeIsSound, KernelClose
    PROVE  BridgeIsSound'
  <1>1. KernelOK /\ PromisesOK'
    BY BridgeGroups, BeginCloseEmpties DEF BridgeIsSound, KernelClose
  <1>2. KernelOK'
    BY <1>1, Numbers DEF KernelClose, KernelOK, PromisesOK, Closes
  <1>3. ClosingEmpties' /\ KernelDisposes'
    BY BeginCloseEmpties DEF KernelClose, ClosingEmpties, KernelDisposes
  <1> QED BY <1>2, <1>3, BeginCloseEmpties, BridgeGroups DEF KernelClose, BridgeIsSound, BridgeInv

LEMMA ClosingKeeps ==
    ASSUME BridgeIsSound, Closing
    PROVE  BridgeIsSound'
  <1> USE DEF BridgeIsSound, BridgeInv
  <1>1. LifeOK /\ PromisesOK /\ OpenersOK /\ KernelOK
    BY BridgeGroups
  <1>2. CASE DetachSettles
    <2>1. PromisesOK' /\ closing'.of = closing.of /\ closing.at = "detaching" /\ IsOver(closing.of)
          /\ UNCHANGED <<life, current, opening, disposed, opener, kernelVars, exitable>>
      BY <1>1, <1>2 DEF DetachSettles, PromisesOK, Closes
    <2>2. ClosingEmpties' /\ ClosedStaysIdle'
      BY <2>1 DEF ClosingEmpties, ClosedStaysIdle, IsOver, Live
    <2> QED BY <1>1, <2>1, <2>2, BridgePartsKept, BridgeGroups DEF kernelVars
  <1>3. CASE PendingSettles
    <2>1. PromisesOK' /\ closing'.of = closing.of /\ closing.at = "pending"
          /\ current' = Unpublish(closing.of) /\ UNCHANGED <<life, opening, disposed, opener, kernelVars, exitable>>
      BY <1>1, <1>3 DEF PendingSettles, PromisesOK, Closes
    <2>2. Live = {} /\ current' \in {0, current}
      BY <2>1 DEF ClosingEmpties, Unpublish
    <2>3. LifeOK' /\ LiveIsCurrent' /\ OpeningFits' /\ ClosingEmpties' /\ ClosedStaysIdle'
      BY <1>1, <2>1, <2>2, Numbers DEF LifeOK, LiveIsCurrent, OpeningFits, ClosingEmpties, ClosedStaysIdle, Live
    <2>4. FinishedMayExit'
      BY <2>1, <2>2 DEF FinishedMayExit, HasUrl, kernelVars
    <2> QED BY <1>1, <2>1, <2>3, <2>4, BridgePartsKept, BridgeGroups DEF kernelVars
  <1>4. CASE ClosingSettles
    <2>1. PromisesOK' /\ closing'.at = "none" /\ closing.at = "ended"
          /\ UNCHANGED <<life, current, opening, disposed, kernelVars, exitable>>
      BY <1>1, <1>4 DEF ClosingSettles, PromisesOK, Closes
    <2>2. OpenersOK'
      BY <1>1, <1>4 DEF ClosingSettles, Resumed, OpenersOK, Waits
    <2>3. ClosingEmpties' /\ ClosedStaysIdle'
      BY <2>1 DEF ClosingEmpties, ClosedStaysIdle, Live
    <2> QED BY <1>1, <2>1, <2>2, <2>3, BridgePartsKept, BridgeGroups DEF kernelVars
  <1> QED BY <1>2, <1>3, <1>4 DEF Closing

LEMMA KernelKeeps ==
    ASSUME BridgeIsSound, Finish \/ KernelSettles
    PROVE  BridgeIsSound'
  <1> USE DEF BridgeIsSound, BridgeInv
  <1>1. LifeOK /\ PromisesOK /\ OpenersOK /\ KernelOK
    BY BridgeGroups
  <1>2. CASE Finish
    <2>1. finished' = TRUE /\ exitable' = AllowExit /\ UNCHANGED <<life, bridgeVars, opener, kernel, awaited>>
      BY <1>2 DEF Finish
    <2>2. KernelOK'
      BY <1>1, <2>1, Numbers DEF KernelOK, AllowExit, bridgeVars, LifeOK
    <2>3. FinishedMayExit'
      BY <2>1 DEF FinishedMayExit, HasUrl, AllowExit, bridgeVars
    <2> QED BY <1>1, <2>1, <2>2, <2>3, BridgePartsKept, BridgeGroups DEF bridgeVars
  <1>3. CASE KernelSettles
    <2>1. kernel = "disposing" /\ kernel' = "closed" /\ UNCHANGED <<life, bridgeVars, opener, awaited, finished, exitable>>
      BY <1>3 DEF KernelSettles
    <2>2. KernelOK' /\ KernelDisposes'
      BY <1>1, <2>1 DEF KernelOK, KernelDisposes, bridgeVars
    <2> QED BY <1>1, <2>1, <2>2, BridgePartsKept, BridgeGroups DEF bridgeVars
  <1> QED BY <1>2, <1>3

\* A session goes on by itself, never into another attach.
LEMMA MovesKeep ==
    ASSUME BridgeIsSound, NEW i \in Inspectors, Ready(i) \/ Fails(i) \/ Exits(i)
    PROVE  BridgeIsSound'
  <1> USE DEF BridgeIsSound, BridgeInv
  <1>1. LifeOK /\ PromisesOK /\ OpenersOK /\ KernelOK
    BY BridgeGroups
  <1>2. UNCHANGED <<bridgeVars, opener, kernelVars, exitable>> /\ life[i] \in {"attaching", "active", "stopping"}
    BY DEF Ready, Fails, Exits, Moves
  <1>3. PICK to \in {"active", "stopping", "idle"} :
          life' = [life EXCEPT ![i] = to] /\ (to = "active" => life[i] = "attaching")
    BY DEF Ready, Fails, Exits, Moves
  <1>4. LifeOK'
    BY <1>1, <1>2, <1>3 DEF LifeOK, States, bridgeVars
  <1>5. \A j \in Inspectors : life'[j] = IF j = i THEN to ELSE life[j]
    BY <1>1, <1>3 DEF LifeOK
  <1>6. Live' \subseteq Live
    BY <1>3, <1>5 DEF Live
  <1>7. AttachHasOpening' /\ OpeningFits' /\ ClosingEmpties' /\ LiveIsCurrent'
    BY <1>2, <1>5, <1>6 DEF AttachHasOpening, OpeningFits, ClosingEmpties, LiveIsCurrent, bridgeVars
  <1>8. ClosedStaysIdle'
    BY <1>1, <1>2, <1>5, Numbers DEF ClosedStaysIdle, bridgeVars, PromisesOK, Closes
  <1>9. FinishedMayExit'
    <2>1. HasUrl' => current \in Inspectors
      BY <1>1, <1>2, Numbers DEF HasUrl, LifeOK, bridgeVars
    <2>2. to = "active" => opening.at = "attaching"
      BY <1>3 DEF AttachHasOpening
    <2> QED BY <1>2, <1>5, <2>1, <2>2 DEF FinishedMayExit, HasUrl, bridgeVars, kernelVars
  <1> QED BY <1>1, <1>2, <1>4, <1>7, <1>8, <1>9, BridgePartsKept, BridgeGroups DEF bridgeVars, kernelVars

-----------------------------------------------------------------------------
(* The theorems.                                                           *)

LEMMA BridgeInitially == BridgeInit => BridgeIsSound
  <1> SUFFICES ASSUME BridgeInit PROVE BridgeIsSound
    OBVIOUS
  <1>1. LifeOK
    BY InspectorsAssumption DEF BridgeInit, LifeOK, States
  <1>2. PromisesOK /\ OpenersOK
    BY Numbers DEF BridgeInit, PromisesOK, OpenersOK, Opens, Closes, Waits
  <1>3. KernelOK
    BY Numbers DEF BridgeInit, KernelOK
  <1>4. BridgeInv
    BY Numbers DEF BridgeInit, BridgeInv, AttachHasOpening, OpeningFits, ClosingEmpties, ClosedStaysIdle, KernelDisposes,
       LiveIsCurrent, FinishedMayExit, Live
  <1> QED BY <1>1, <1>2, <1>3, <1>4, BridgeGroups DEF BridgeIsSound

LEMMA BridgeInductive == BridgeIsSound /\ [BridgeNext]_allVars => BridgeIsSound'
  <1> SUFFICES ASSUME BridgeIsSound, [BridgeNext]_allVars PROVE BridgeIsSound'
    OBVIOUS
  <1>1. CASE BridgeNext
    BY <1>1, OpenKeeps, LoadedKeeps, AttachSettlesKeeps, CleanupSettlesKeeps, OpeningSettlesKeeps, CloseKeeps,
       KernelCloseKeeps, ClosingKeeps, KernelKeeps, MovesKeep DEF BridgeNext, Opening
  <1>2. CASE UNCHANGED allVars
    BY <1>2, BridgePartsKept, BridgeGroups DEF BridgeIsSound, BridgeInv, allVars, bridgeVars, kernelVars
  <1> QED BY <1>1, <1>2

THEOREM BridgeInvariance == BridgeSpec => []BridgeIsSound
  BY BridgeInitially, BridgeInductive, PTL DEF BridgeSpec

THEOREM BridgeTypeCorrect == BridgeSpec => []BridgeTypeOK
  BY BridgeInvariance, PTL DEF BridgeIsSound

\* bridge.ts: there is never a second live Inspector, and the live one is the
\* one that close, the init hook and finish find.
THEOREM OneInspector == BridgeSpec => []LiveIsCurrent
  <1>1. BridgeIsSound => LiveIsCurrent
    BY DEF BridgeIsSound, BridgeInv
  <1> QED BY <1>1, BridgeInvariance, PTL

\* kernel.ts: the runtime is cleaned up under no live Inspector, and none comes
\* to life afterwards.
THEOREM DisposeIsFinal == BridgeSpec => []ClosedForGood
  <1>1. BridgeIsSound => ClosedForGood
    BY DEF BridgeIsSound, BridgeInv, ClosingEmpties, KernelDisposes, ClosedForGood
  <1> QED BY <1>1, BridgeInvariance, PTL

\* kernel.ts: after finish no Inspector keeps the process alive.
THEOREM ExitIsAllowed == BridgeSpec => []FinishedMayExit
  <1>1. BridgeIsSound => FinishedMayExit
    BY DEF BridgeIsSound, BridgeInv
  <1> QED BY <1>1, BridgeInvariance, PTL

\* bridge.ts: when a close settles, nothing is live.
THEOREM CloseIsComplete == BridgeSpec => CloseLeavesNothing
  <1>1. BridgeIsSound /\ [BridgeNext]_allVars => [closing.at = "ended" /\ closing'.at = "none" => Live' = {}]_allVars
    <2> SUFFICES ASSUME BridgeIsSound, BridgeNext, closing.at = "ended", closing'.at = "none" PROVE Live' = {}
      OBVIOUS
    <2>1. closing' # closing
      OBVIOUS
    <2>2. ClosingSettles \/ KernelClose
      BY <2>1 DEF BridgeNext, Open, OpenResumes, Enter, Opening, LoadFails, Loaded, AttachSettles, CleanupSettles, OpeningSettles,
         Close, Closing, DetachSettles, PendingSettles, Finish, KernelSettles, Ready, Fails, Exits, Moves, bridgeVars
    <2>3. CASE ClosingSettles
      BY <2>3 DEF BridgeIsSound, BridgeInv, ClosingEmpties, ClosingSettles, Live
    <2>4. CASE KernelClose
      BY <2>4, BeginCloseEmpties DEF KernelClose
    <2> QED BY <2>2, <2>3, <2>4
  <1> QED BY <1>1, BridgeInvariance, PTL DEF BridgeSpec, CloseLeavesNothing
=============================================================================
