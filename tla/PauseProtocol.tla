---------------------------- MODULE PauseProtocol ----------------------------
(***************************************************************************)
(* The pause protocol of the inspector: how a main thread that stops at a  *)
(* safepoint (main/pause-controller.ts) is held, shown to DevTools and     *)
(* resumed by the debug worker (domains/debugger.ts, worker/connection.ts, *)
(* worker/event-router.ts), over the two transports between the threads    *)
(* (transport/channel-rpc.ts, worker-endpoint.ts, main-endpoint.ts).       *)
(*                                                                         *)
(* Three parties move on their own: the main thread, the worker's event    *)
(* loop and the DevTools clients.  A worker action is one turn of its      *)
(* loop, a macrotask or a promise continuation, which JavaScript runs      *)
(* without interleaving with another turn of the worker; the main thread   *)
(* runs concurrently with it.                                              *)
(***************************************************************************)
EXTENDS Naturals, Sequences

CONSTANTS
    RingCap,     \* slots of each native ring (64; a push on a full ring fails)
    StepCodes,   \* step codes other than Step.None: into, over, out
    NoStep,      \* Step.None
    MaxConns,    \* bound: DevTools connections in a behaviour
    MaxBreaks,   \* bound: safepoint stops in a behaviour
    MaxCmds      \* bound: CDP commands in a behaviour

ASSUME RingCapAssumption == RingCap \in Nat \ {0}
ASSUME StepAssumption == NoStep \notin StepCodes
ASSUME BoundsAssumption == MaxConns \in Nat /\ MaxBreaks \in Nat /\ MaxCmds \in Nat

VARIABLES
    \* the main thread
    mainState,      \* "running", or "paused" inside serviceWhilePaused
    mainConnected,  \* Inspector.connected, read by onBreak
    lastStepMode,   \* PauseController.lastStepMode
    armed,          \* the step armed with native.step, NoStep if none
    interrupted,    \* dc.interrupt was called, the next safepoint stops
    backtrace,      \* the object group "backtrace" holds objects
    \* between the threads
    reqQ,           \* ring worker -> main: inspect requests and resumes
    resQ,           \* ring main -> worker: Paused events and replies
    toMain,         \* pipe worker -> main, in order, served while running
    \* the debug worker
    alive,          \* the endpoint is not disposed
    conn,           \* the connection that owns CdpChannel's sink, 0 if none
    conns,          \* connections accepted so far
    enabled,        \* DebuggerDomain.enabled
    paused,         \* DebuggerDomain.paused
    epPaused,       \* WorkerEndpoint.paused (and ChannelClient.active)
    pending,        \* DebuggerDomain.pendingPausedEvent is set
    flushTimer,     \* pendingPausedTimer is armed
    graceTimer,     \* unenabledPauseTimer is armed
    resuming,       \* doResume calls that await releaseObjectGroup, in order
    nextId,         \* ChannelClient.nextId
    \* what the attached client knows
    view,           \* it last received Debugger.paused, not Debugger.resumed
    \* bounds
    breaks, cmds

mainVars == <<mainState, mainConnected, lastStepMode, armed, interrupted, backtrace>>
holdVars == <<pending, flushTimer, graceTimer>>
workerVars == <<alive, conn, conns, enabled, paused, epPaused, holdVars, resuming, nextId, view>>
vars == <<mainVars, reqQ, resQ, toMain, workerVars, breaks, cmds>>

Steps == StepCodes \cup {NoStep}
Reasons == {"breakpoint", "step", "interrupt"}
Connected == conn # 0

-----------------------------------------------------------------------------
(* The native rings, from how the code uses them. *)

HasRoom(q) == Len(q) < RingCap

\* dc.resume: it reaches a main thread that is paused, and is lost on one that
\* is not (the native side keeps no resume for a later pause).
BeginResume(q, step) ==
    IF mainState = "paused" THEN Append(q, [kind |-> "resume", step |-> step]) ELSE q

PausedIn(q) == \E i \in DOMAIN q : q[i].kind = "paused"
RepliedIn(q) == {q[i].id : i \in {j \in DOMAIN q : q[j].kind = "reply"}}

\* ChannelClient.drainInbox settles the replied calls; setActive(false) fails
\* every other one with failAllPending.  Either way the await in doResume ends.
Settle(calls, ids) == [i \in DOMAIN calls |-> [calls[i] EXCEPT !.ready = @ \/ calls[i].id \in ids]]
FailAll(calls) == [i \in DOMAIN calls |-> [calls[i] EXCEPT !.ready = TRUE]]

\* ChannelClient numbers its calls from 1.
FirstId == 1

-----------------------------------------------------------------------------
(* Initially the main thread runs with no DevTools client attached. *)

Init ==
    /\ mainState = "running" /\ mainConnected = FALSE
    /\ lastStepMode = NoStep /\ armed = NoStep
    /\ interrupted = FALSE /\ backtrace = FALSE
    /\ reqQ = <<>> /\ resQ = <<>> /\ toMain = <<>>
    /\ alive = TRUE /\ conn = 0 /\ conns = 0 /\ enabled = FALSE
    /\ paused = FALSE /\ epPaused = FALSE
    /\ pending = FALSE /\ flushTimer = FALSE /\ graceTimer = FALSE
    /\ resuming = <<>> /\ nextId = FirstId /\ view = FALSE
    /\ breaks = 0 /\ cmds = 0

-----------------------------------------------------------------------------
(* The main thread. *)

\* A stop consumes the step and the interrupt that caused it.
TakeReason(reason) ==
    /\ breaks < MaxBreaks
    /\ breaks' = breaks + 1
    /\ reason = "step" => armed # NoStep
    /\ reason = "interrupt" => interrupted
    /\ interrupted' = (interrupted /\ reason # "interrupt")

\* onBreak with no client attached returns at once.
SkipBreak ==
    /\ mainState = "running" /\ ~mainConnected
    /\ interrupted \/ armed # NoStep
    /\ interrupted' = FALSE /\ armed' = NoStep
    /\ UNCHANGED <<mainState, mainConnected, lastStepMode, backtrace, reqQ, resQ, toMain, workerVars, breaks, cmds>>

\* Faulty variant of Break: block without looking whether the event got into
\* the ring.
BreakUnchecked(reason) ==
    /\ mainState = "running" /\ mainConnected
    /\ TakeReason(reason)
    /\ armed' = NoStep /\ backtrace' = TRUE /\ mainState' = "paused"
    /\ resQ' = IF alive /\ HasRoom(resQ) THEN Append(resQ, [kind |-> "paused"]) ELSE resQ
    /\ UNCHANGED <<mainConnected, lastStepMode, reqQ, toMain, workerVars, cmds>>

\* onBreak at a user frame: the old backtrace is replaced by the new one, and
\* the thread blocks only if the Paused event got into the ring.
Break(reason) ==
    /\ mainState = "running" /\ mainConnected
    /\ TakeReason(reason)
    /\ armed' = NoStep
    /\ backtrace' = TRUE
    /\ IF alive /\ HasRoom(resQ)
       THEN mainState' = "paused" /\ resQ' = Append(resQ, [kind |-> "paused"])
       ELSE UNCHANGED <<mainState, resQ>>
    /\ UNCHANGED <<mainConnected, lastStepMode, reqQ, toMain, workerVars, cmds>>

\* onBreak in internal code: frames (if any) were built into the group, the
\* thread does not block, and a step in progress goes on.
BreakInternal(reason) ==
    /\ mainState = "running" /\ mainConnected
    /\ TakeReason(reason)
    /\ armed' = IF reason = "step" THEN lastStepMode ELSE NoStep
    /\ backtrace' \in BOOLEAN
    /\ UNCHANGED <<mainState, mainConnected, lastStepMode, reqQ, resQ, toMain, workerVars, cmds>>

\* ChannelServer.service takes a Resume: the thread leaves the pause, and
\* onBreak arms the step it carries.
ServeResume ==
    /\ mainState = "paused" /\ reqQ # <<>> /\ Head(reqQ).kind = "resume"
    /\ mainState' = "running" /\ reqQ' = <<>>
    /\ LET step == Head(reqQ).step IN
         IF step # NoStep THEN armed' = step /\ lastStepMode' = step
                          ELSE UNCHANGED <<armed, lastStepMode>>
    /\ UNCHANGED <<mainConnected, interrupted, backtrace, resQ, toMain, workerVars, breaks, cmds>>

\* service takes an inspect request and replies; replyQuietly ignores a reply
\* that found the ring full.
ServeInspect ==
    /\ mainState = "paused" /\ reqQ # <<>> /\ Head(reqQ).kind # "resume"
    /\ reqQ' = Tail(reqQ)
    /\ backtrace' = (backtrace /\ Head(reqQ).kind # "release")
    /\ resQ' = IF HasRoom(resQ) THEN Append(resQ, [kind |-> "reply", id |-> Head(reqQ).id]) ELSE resQ
    /\ UNCHANGED <<mainState, mainConnected, lastStepMode, armed, interrupted, toMain, workerVars, breaks, cmds>>

\* waitRequest throws once dc.stop was called: service returns Step.None.
ServeTornDown ==
    /\ mainState = "paused" /\ ~alive
    /\ mainState' = "running" /\ reqQ' = <<>>
    /\ UNCHANGED <<mainConnected, lastStepMode, armed, interrupted, backtrace, resQ, toMain, workerVars, breaks, cmds>>

\* The main event loop, which only a running main thread pumps, takes the next
\* pipe message: setConnected, releaseObjectGroup, evaluate, or the close.
ServePipe ==
    /\ mainState = "running" /\ toMain # <<>>
    /\ toMain' = Tail(toMain)
    /\ LET m == Head(toMain).kind IN
         /\ mainConnected' = (m = "connected" \/ (mainConnected /\ m \notin {"disconnected", "closed"}))
         /\ backtrace' = (backtrace /\ m \notin {"release", "closed"})
    /\ UNCHANGED <<mainState, lastStepMode, armed, interrupted, reqQ, resQ, workerVars, breaks, cmds>>

Main == \/ \E reason \in Reasons : Break(reason) \/ BreakInternal(reason)
        \/ SkipBreak \/ ServeResume \/ ServeInspect \/ ServeTornDown \/ ServePipe

-----------------------------------------------------------------------------
(* The debug worker.  A new macrotask starts only when no continuation of  *)
(* doResume is ready to run.                                               *)

Idle == alive /\ \A i \in DOMAIN resuming : ~resuming[i].ready

\* flushPendingPausedSoon: send the held event now, or arm the settle timer
\* (lastScriptParsedAt decides, which the model leaves open).
FlushPendingPausedSoon(held) ==
    \/ held /\ ~flushTimer /\ pending' = FALSE /\ UNCHANGED flushTimer
    \/ held /\ pending' = TRUE /\ flushTimer' = TRUE
    \/ ~held /\ UNCHANGED <<pending, flushTimer>>

\* Faulty variant of HoldPaused: hold without a bound.
HoldPausedForever ==
    IF enabled THEN FlushPendingPausedSoon(TRUE) /\ UNCHANGED graceTimer
               ELSE pending' = TRUE /\ UNCHANGED <<flushTimer, graceTimer>>

\* The connected half of onPaused: hold the event, bounded while Debugger is
\* not enabled.
HoldPaused ==
    IF enabled THEN FlushPendingPausedSoon(TRUE) /\ UNCHANGED graceTimer
               ELSE pending' = TRUE /\ graceTimer' = TRUE /\ UNCHANGED flushTimer

\* poll: drain the inbox.  The router's setPaused(true) and onPaused are
\* idempotent, so several Paused events in one drain act as one.
Poll ==
    /\ Idle /\ resQ # <<>>
    /\ resQ' = <<>>
    /\ \/ /\ ~PausedIn(resQ)
          /\ resuming' = Settle(resuming, RepliedIn(resQ))
          /\ UNCHANGED <<paused, epPaused, holdVars, view, reqQ>>
       \/ /\ PausedIn(resQ) /\ Connected
          /\ resuming' = Settle(resuming, RepliedIn(resQ))
          /\ paused' = TRUE /\ epPaused' = TRUE
          /\ HoldPaused
          /\ view' = (view \/ ~pending')
          /\ UNCHANGED reqQ
       \/ /\ PausedIn(resQ) /\ ~Connected   \* nobody to show it to: resume
          /\ paused' = FALSE /\ epPaused' = FALSE
          /\ resuming' = FailAll(resuming)
          /\ reqQ' = BeginResume(reqQ, NoStep)
          /\ UNCHANGED <<holdVars, view>>
    /\ UNCHANGED <<mainVars, toMain, alive, conn, conns, enabled, nextId, breaks, cmds>>

\* clearPendingPaused
ClearPendingPaused == pending' = FALSE /\ flushTimer' = FALSE /\ graceTimer' = FALSE

\* doResume up to its await, on behalf of the closed or displaced connection
\* "of", or of a command (0).  `paused` routes the release over the channel; a
\* rejected send ends the await as a reply would.
DoResume(step, of) ==
    /\ ClearPendingPaused
    /\ resuming' = Append(resuming, [id |-> nextId, step |-> step, of |-> of, ready |-> ~HasRoom(reqQ)])
    /\ reqQ' = IF HasRoom(reqQ) THEN Append(reqQ, [kind |-> "release", id |-> nextId]) ELSE reqQ
    /\ nextId' = nextId + 1

FirstReady(i) == resuming[i].ready /\ \A j \in 1..(i - 1) : ~resuming[j].ready
Without(i) == [j \in 1..(Len(resuming) - 1) |-> IF j < i THEN resuming[j] ELSE resuming[j + 1]]

\* setPaused(false) drains the inbox once more before it fails the pending
\* calls: a Paused event found there is routed first, and holds again.
Repaused == epPaused /\ PausedIn(resQ) /\ Connected

\* paused = false, setPaused(false), beginResume(step).
LeavePause(calls, step) ==
    /\ paused' = Repaused /\ epPaused' = Repaused
    /\ resuming' = IF epPaused THEN FailAll(calls) ELSE calls
    /\ resQ' = IF epPaused THEN <<>> ELSE resQ
    /\ reqQ' = BeginResume(IF epPaused /\ PausedIn(resQ) /\ ~Connected
                           THEN BeginResume(reqQ, NoStep) ELSE reqQ, step)

\* doResume after its await; `paused` is not looked at again.  Debugger.resumed
\* is emitted when a client is connected.
ContinueResume(i) ==
    /\ alive /\ FirstReady(i)
    /\ LeavePause(Without(i), resuming[i].step)
    /\ IF Repaused THEN HoldPaused ELSE UNCHANGED holdVars
    /\ view' = FALSE
    /\ UNCHANGED <<mainVars, toMain, alive, conn, conns, enabled, nextId, breaks, cmds>>

\* The settle timer of flushPendingPausedSoon.
FlushTimer ==
    /\ Idle /\ flushTimer
    /\ flushTimer' = FALSE /\ pending' = FALSE
    /\ view' = (view \/ (pending /\ Connected /\ enabled /\ paused))
    /\ UNCHANGED <<mainVars, reqQ, resQ, toMain, alive, conn, conns, enabled, paused, epPaused,
                   graceTimer, resuming, nextId, breaks, cmds>>

\* The bound on a pause held while Debugger is not enabled.
GraceTimer ==
    /\ Idle /\ graceTimer
    /\ IF paused /\ ~enabled /\ pending
       THEN LeavePause(resuming, NoStep) /\ pending' = Repaused /\ graceTimer' = Repaused
       ELSE graceTimer' = FALSE /\ UNCHANGED <<pending, paused, epPaused, resuming, resQ, reqQ>>
    /\ UNCHANGED <<mainVars, toMain, alive, conn, conns, enabled, flushTimer, nextId, view, breaks, cmds>>

Worker == \/ Poll \/ FlushTimer \/ GraceTimer
          \/ \E i \in DOMAIN resuming : ContinueResume(i)

-----------------------------------------------------------------------------
(* DevTools connections. *)

\* Faulty variant of ReleaseSession: a paused main thread is left to the client
\* that is gone.
ReleaseSessionNoResume(then) ==
    /\ enabled' = FALSE /\ ClearPendingPaused
    /\ toMain' = toMain \o <<[kind |-> "disconnected"]>> \o then
    /\ UNCHANGED <<resuming, reqQ, nextId>>

\* releaseSession: debuggerDomain.setConnected(false), which resumes a paused
\* main thread, and the setConnected message; `then` is what the same turn
\* puts on the pipe after it.
ReleaseSession(then) ==
    /\ enabled' = FALSE
    /\ IF paused THEN DoResume(NoStep, conn)
                 ELSE ClearPendingPaused /\ UNCHANGED <<resuming, reqQ, nextId>>
    /\ toMain' = toMain \o <<[kind |-> "disconnected"]>> \o then

\* A new DevTools socket takes the sink; it displaces the one that has it.
Connect ==
    /\ Idle /\ conns < MaxConns
    /\ conns' = conns + 1 /\ conn' = conns'
    /\ view' = FALSE
    /\ LET hello == <<[kind |-> "connected"]>> IN
         IF Connected THEN ReleaseSession(hello)
         ELSE toMain' = toMain \o hello /\ UNCHANGED <<enabled, holdVars, resuming, reqQ, nextId>>
    /\ UNCHANGED <<mainVars, resQ, alive, paused, epPaused, breaks, cmds>>

\* Close or error of the socket that has the sink.
Disconnect ==
    /\ Idle /\ Connected
    /\ conn' = 0 /\ view' = FALSE
    /\ ReleaseSession(<<>>)
    /\ UNCHANGED <<mainVars, resQ, alive, conns, paused, epPaused, breaks, cmds>>

\* The worker exits: dc.stop, and the pipe's end reaches the main thread.
WorkerExit ==
    /\ alive
    /\ alive' = FALSE
    /\ toMain' = Append(toMain, [kind |-> "closed"])
    /\ UNCHANGED <<mainVars, reqQ, resQ, conn, conns, enabled, paused, epPaused, holdVars,
                   resuming, nextId, view, breaks, cmds>>

-----------------------------------------------------------------------------
(* CDP commands of the attached client. *)

Command == Idle /\ Connected /\ cmds < MaxCmds /\ cmds' = cmds + 1

Enable ==
    /\ Command
    /\ enabled' = TRUE /\ graceTimer' = FALSE
    /\ FlushPendingPausedSoon(pending)
    /\ view' = (view \/ (pending /\ ~pending'))
    /\ UNCHANGED <<mainVars, reqQ, resQ, toMain, alive, conn, conns, paused, epPaused, resuming, nextId, breaks>>

Disable ==
    /\ Command
    /\ enabled' = FALSE
    /\ IF paused THEN DoResume(NoStep, 0) /\ UNCHANGED toMain
       ELSE /\ ClearPendingPaused
            /\ toMain' = Append(toMain, [kind |-> "release"])
            /\ UNCHANGED <<resuming, reqQ, nextId>>
    /\ UNCHANGED <<mainVars, resQ, alive, conn, conns, paused, epPaused, view, breaks>>

Pause ==
    /\ Command /\ ~paused
    /\ interrupted' = TRUE
    /\ UNCHANGED <<mainState, mainConnected, lastStepMode, armed, backtrace, reqQ, resQ, toMain, workerVars, breaks>>

\* Debugger.resume and the three step commands.
Resume(step) ==
    /\ Command /\ paused
    /\ DoResume(step, 0)
    /\ UNCHANGED <<mainVars, resQ, toMain, alive, conn, conns, enabled, paused, epPaused, view, breaks>>

\* Runtime.evaluate: marked paused from isPaused(), which also reads the native
\* state; routed by the worker's own flag.  A full ring rejects it.
IsPaused == epPaused \/ mainState = "paused"

Evaluate ==
    /\ Command
    /\ IF epPaused
       THEN /\ reqQ' = IF HasRoom(reqQ) THEN Append(reqQ, [kind |-> "evaluate", id |-> nextId]) ELSE reqQ
            /\ nextId' = nextId + 1
            /\ UNCHANGED toMain
       ELSE /\ toMain' = Append(toMain, [kind |-> IF IsPaused THEN "evaluatePaused" ELSE "evaluate"])
            /\ UNCHANGED <<reqQ, nextId>>
    /\ UNCHANGED <<mainVars, resQ, alive, conn, conns, enabled, paused, epPaused, holdVars, resuming, view, breaks>>

Client == \/ Connect \/ Disconnect \/ WorkerExit
          \/ Enable \/ Disable \/ Pause \/ Evaluate
          \/ \E step \in Steps : Resume(step)

-----------------------------------------------------------------------------
Next == Main \/ Worker \/ Client

\* Both event loops run, and so do the native waits they block in; stops,
\* clients and the end of the worker are not owed to anybody.
Fairness ==
    /\ WF_vars(ServeResume) /\ WF_vars(ServeInspect) /\ WF_vars(ServeTornDown) /\ WF_vars(ServePipe)
    /\ WF_vars(Poll) /\ WF_vars(FlushTimer) /\ WF_vars(GraceTimer)
    /\ WF_vars(\E i \in DOMAIN resuming : ContinueResume(i))

Spec == Init /\ [][Next]_vars
FairSpec == Spec /\ Fairness

-----------------------------------------------------------------------------
(* Properties. *)

Requests == [kind : {"release", "evaluate"}, id : Nat \ {0}] \cup [kind : {"resume"}, step : Steps]
Responses == [kind : {"reply"}, id : Nat \ {0}] \cup [kind : {"paused"}]
Messages == [kind : {"connected", "disconnected", "closed", "release", "evaluate", "evaluatePaused"}]
Calls == [id : Nat \ {0}, step : Steps, of : Nat, ready : BOOLEAN]

\* Every variable keeps the shape the code gives it.
TypeOK ==
    /\ mainState \in {"running", "paused"}
    /\ mainConnected \in BOOLEAN /\ interrupted \in BOOLEAN /\ backtrace \in BOOLEAN
    /\ lastStepMode \in Steps /\ armed \in Steps
    /\ reqQ \in Seq(Requests) /\ resQ \in Seq(Responses) /\ toMain \in Seq(Messages)
    /\ alive \in BOOLEAN /\ conn \in Nat /\ conns \in Nat
    /\ enabled \in BOOLEAN /\ paused \in BOOLEAN /\ epPaused \in BOOLEAN
    /\ pending \in BOOLEAN /\ flushTimer \in BOOLEAN /\ graceTimer \in BOOLEAN
    /\ resuming \in Seq(Calls) /\ nextId \in Nat \ {0}
    /\ view \in BOOLEAN
    /\ breaks \in Nat /\ cmds \in Nat

\* The transport the worker routes inspect calls to follows the domain's pause
\* state: two flags kept in two objects and set at five places (event-router,
\* onPaused, doResume, the grace timer, setConnected) never disagree between
\* two turns of the worker.
TransportFollowsDomain == paused = epPaused

\* A blocked main thread is always somebody's: its Paused event is on the way,
\* the Debugger domain holds the pause, or a resume is on the way.  Without one
\* of them serviceWhilePaused never returns.
PausedEventComing == PausedIn(resQ)
ResumeComing == \E i \in DOMAIN reqQ : reqQ[i].kind = "resume"
PauseHasAnOwner == mainState = "paused" /\ alive => PausedEventComing \/ paused \/ ResumeComing

\* A pause whose event was routed and that no doResume or resume is ending was
\* shown to the attached client, or waits to be, with the timer armed that fits
\* `enabled` (the settle timer, or the grace timer that gives up).
HeldPauseIsOffered ==
    mainState = "paused" /\ alive /\ ~PausedEventComing /\ ~ResumeComing /\ resuming = <<>> =>
        /\ Connected
        /\ view \/ (pending /\ (IF enabled THEN flushTimer ELSE graceTimer))

\* A stop the program is in ends, or a client that is attached sees it: a
\* client that leaves, never enables Debugger, or is displaced, and a worker
\* that dies, cannot freeze the program.  Only a reply that found the ring full
\* can: a doResume then awaits what will not come.
ReplyLost ==
    \E i \in DOMAIN resuming :
        /\ ~resuming[i].ready /\ resuming[i].id \notin RepliedIn(resQ)
        /\ \A j \in DOMAIN reqQ : reqQ[j].kind = "release" => reqQ[j].id # resuming[i].id
NeverStranded ==
    []<>(mainState = "running" \/ (Connected /\ view)) \/ <>[](mainState = "paused" /\ ReplyLost)

\* connection.ts: "teardown events must not reach the new client".
TeardownStaysWithItsClient ==
    [][\A i \in DOMAIN resuming : ContinueResume(i) /\ resuming[i].of # 0 => ~Connected]_vars
=============================================================================
