# Verification of cno: inspector, test runner and engine

cno is a JavaScript/TypeScript runtime on QuickJS. Its own code is a command line
and a Chrome DevTools inspector (`src/`, about 15,000 lines of TypeScript) and a
modified QuickJS, of which one source file is in this tree
(`.backup/quickjs.c`, 66,000 lines). The native modules and the Web and Node APIs
are submodules. This directory holds TLA+ models of the parts whose state is
hard to get right, the TLC configurations that check them, and proofs of their
main invariants. Paths below are relative to the repository's `src/`; `T/` stands
for `inspector/transport/`.

    PauseProtocol       how a stopped main thread is held, shown and resumed
    InspectorSession    the life of one Inspector: attach, detach, waiters
    InspectorLife       what an Inspector promises (abstract)
    InspectorBridge     node:inspector's open and close, and the kernel session
    ObjectStore         the objects kept alive for the frontend
    NetworkBodies       the bodies of fetch requests on their way to DevTools
    FetchIntercept      fetches of the program that wait for DevTools
    TestRunner          cno test: files, workers, children, result pipe
    ModuleEvaluation    linking and evaluation of ES modules, top-level await
    CycleCollector      reference counts, cycle collector, weak records
    MC<Module>          gives the constants of <Module> values for TLC
    <Module>Proofs      theorems about <Module>; those of the session and of the
                        bridge are both in InspectorProofs

Contents: [inventory](#inventory), [plan](#plan),
[modules](#modules-and-the-code), [runs](#runs), [divergences](#divergences),
[proofs](#proofs), [limits](#what-is-not-modelled).

## Inventory

### How the parts interact

The inspector spans two threads. The *main* thread runs the user's program, the
hooks and the evaluator; the *debug worker* runs an HTTP/WebSocket server and the
CDP domains. Two transports join them: a `MessagePipe`, ordered in each
direction and served by both event loops, and a native debug channel of two
rings with semaphores, which also works while the main thread is stopped at a
safepoint and its event loop does not run. Which one a request takes is decided
in the worker (`T/worker-endpoint.ts`), what the main thread is doing is decided
by the native module: their disagreement is the source of most hazards.

    user program --hooks--> Hooks ----pipe----> event-router -> domains -> DevTools
         |                    ^                                   |
     safepoint                |  ObjectStore, Evaluator <--pipe-- calls
         v                    |
    PauseController <---rings (request, response)---> ChannelClient, DebuggerDomain

    cno run/test/...  ->  KernelRuntime  ->  InspectorBridge  ->  Inspector  ->  debug worker
    cno test  ->  runAll  ->  runOne (one child per file, fd 3 = result pipe)

### Components

* **Pause protocol** (`inspector/main/pause-controller.ts`, `T/channel-rpc.ts`,
  `T/worker-endpoint.ts`, `T/main-endpoint.ts`, `domains/debugger.ts`,
  `worker/connection.ts`, `worker/event-router.ts`).
  *State*: the step that is armed, the ring contents, the pause flags of the
  domain and of the endpoint, the event held back for a client that has not
  enabled Debugger, two timers, the resumes that await a reply, the connection
  that owns the sink. *Operations*: a safepoint stop, service while paused,
  resume and step, pause, enable, disable, connect, disconnect, displacement of
  one socket by another, teardown. *Hard*: three actors, two transports with
  different orders, awaits inside a resume, timers, full rings, the end of the
  worker. *Correct when*: the two pause flags agree between turns, a blocked main
  thread always has something that will end or show its stop, a held stop always
  has the timer that fits, and no stop is stranded.
* **Inspector session** (`inspector/main/inspector.ts`, `worker/bootstrap.ts`).
  *State*: the session's state and generation, its worker, hooks, url, client
  flags, the deferreds of waiters. *Operations*: attach (with three kinds of
  readiness), detach, waitForConnection, waitForDebugger, worker messages,
  failures and timeouts. *Hard*: an attach coroutine of an old session unwinds
  in a later one; messages of a worker arrive after the client, or the session,
  has gone. *Correct when*: hooks follow the session, no waiter is carried over
  or forgotten, every stop completes, and only its own session ends it.
* **Inspector bridge and kernel session** (`inspector/bridge.ts`, `kernel.ts`).
  *State*: the published Inspector, the opening promise, the closing promise,
  the disposed flag, whether the process may exit. *Operations*: open,
  waitForConnection, waitForDebugger, close, finish, dispose. *Hard*: open and
  close overtake each other at every await, and each may wait for the other.
  *Correct when*: at most one Inspector lives and it is the published one,
  nothing survives a close or a dispose, and every promise settles.
* **Remote objects** (`inspector/main/object-store.ts`, `remote-object.ts`,
  `evaluator.ts`, `rpc-handlers.ts`). *State*: two maps (id to object and group,
  group to ids) and a counter. *Operations*: everything that serializes a value,
  release, release of a group, eviction at the cap. *Hard*: reading an object
  runs user code that may log, which mints ids in the middle of an answer; the
  cap is shared by all. *Correct when*: the maps agree, the cap holds, ids are
  never reused, and an answer's own ids are not evicted by it.
* **Response bodies** (`inspector/main/hooks.ts`, `domains/network.ts`). *State*:
  per request, buffers, completed bodies, live and dropped marks, a byte
  counter; in the worker the announced requests, their bodies, a cache.
  *Operations*: request, chunk, end, streamResourceContent, enable, disable,
  eviction at the byte cap, two periodic sweeps. *Hard*: two threads keep state
  per request; a call crosses the events it is about; sweeps race slow requests.
  *Correct when*: the counter is the sum of the buffers, a stream has no gap, a
  body is whole or known to be cut, and a request's events come in order.
* **Test runner** (`commands/test.ts`, `commands/test-result-pipe.ts`). *State*:
  the queue, the workers, per file the race of pipe, exit and timeout, the
  results. *Operations*: spawn, read, time out, kill, reap, count. *Hard*: four
  events race per file and any may never come; daemons hold the pipe.
  *Correct when*: no false pass, no lost file, no orphan, one process on the
  inspector's port, and the command ends.
* **Fetch interception** (`domains/fetch.ts`, `inspector/main/hooks.ts:383-418`,
  `T/worker-endpoint.ts`, `worker/connection.ts`). *State*: the resolvers that wait
  on the main thread, the ids that wait in the worker, whether a client enabled the
  domain. *Operations*: intercept, relay, answer, enable, disable, connect,
  displace, disconnect, stop and resume of the main thread, the end of the worker
  or of the session. *Hard*: the list is kept on both threads; an answer takes the
  pipe or the ring, its client's departure the pipe. *Correct when*: no fetch is
  known to the main thread alone, what a client answered is what the program
  gets, and no fetch waits for a client that is gone.
* **Module loader** (`.backup/quickjs.c`, js_link_module to js_evaluate_module).
  *State*: per module its status, cycle root, capability, count of what it waits
  for and the modules that wait for it; the stack of the walk. *Operations*:
  import, link, evaluate, a body that awaits ends or throws, the modules it made
  available run. *Hard*: cycles that wait, failures half way, a second import of a
  graph at any time. *Correct when*: a body runs once and after what it requests,
  an import is told the outcome of its graph, and settles.
* **Memory of the engine** (`.backup/quickjs.c`, JS_FreeValueRT, JS_RunGC, weak
  records). *State*: counts, the lists of the collector, weak records, jobs.
  *Operations*: what a program does with properties, maps, WeakRefs and
  registries, a collection, the end of the runtime. *Hard*: counts are wrong on
  purpose in the middle of a collection, freeing one object takes records of
  others with it. *Correct when*: what can be reached is not freed, what cannot is
  condemned, no weak record dangles and finalization callbacks come.
* **Breakpoints** (`domains/debugger.ts:123-180, 349-364`): the frontend's
  breakpoints against the native ones, through activation and removal.
* **Pipe RPC** (`T/pipe-rpc.ts`): ids to promises; every call settles once.
* **CDP server and dispatcher**, **Console and Runtime backlog**, **Target,
  Protocol, side-effect check**: request and answer, or a bounded queue of one
  thread.
* **Command line, configuration, run/eval/task/bin/serve, cache, pack, setup,
  REPL**: sequential, mostly I/O.
* **Rest of the engine** (parser, interpreter, built-ins): one thread that computes
  values.
* **Native modules, Node/Deno/Web APIs**: submodules, not in this tree.

`PROJECT.json` lists each with its sources and status, and under `hazards` the
40 places where this code can go wrong in a way a test would hardly reach, with
the properties that watch them.

## Plan

Done so far, in this order: the pause protocol (a mistake freezes the user's
program), the session and its abstraction, the bridge that composes sessions,
the object store, the test runner, the response bodies, fetch interception, the
module loader and the memory of the engine. Of each, all safety properties are
proved.

Next:

1. *Breakpoints*: the frontend's set against the native table (by name, line),
   with the two names of a CommonJS file, activation during which the set
   changes, and the clients that come and go.
2. *PipeRpc*: ids, transferable results, disposal during onClose; the abstract
   specification is "a call settles exactly once".
3. *Promise jobs and generators of the engine*: the order of jobs, and the states
   of a generator that is resumed while it runs.
4. *Tasks* (the dependency order of `cno task` as a pure function) and *Setup*
   (downloads and moves against a file system that may fail at any step).

## Modules and the code

`PROJECT.json` maps every definition to its lines. In all modules JavaScript's
run-to-completion is kept: an action is one turn of an event loop, a macrotask
or one continuation of a promise, and continuations that are ready run before
the next macrotask of the same thread. Faulty variants (the operators whose
comment says so) stand beside the definitions they replace; each property is
known to fail under at least one of them. Names that begin with `Max` are
bounds, except the caps of the code named at the constants.

### PauseProtocol

| state | code |
| --- | --- |
| `mainState`, `armed`, `lastStepMode`, `interrupted` | PauseController and the native debugger |
| `reqQ`, `resQ` | the two rings of the debug channel |
| `toMain` | the pipe to the main thread, served while it runs |
| `paused`, `enabled`, `pending`, `flushTimer`, `graceTimer`, `resuming` | DebuggerDomain |
| `epPaused`, `nextId` | WorkerEndpoint, ChannelClient |
| `conn`, `conns`, `view` | the connection that owns the sink, and what its client last saw |

`Break`, `BreakInternal` and `SkipBreak` are onBreak at a user frame, at an
internal one, and without a client or a match; `Serve*` is serviceWhilePaused
and the pipe's handler; `Poll` drains the response ring in the worker, with
everything onPaused does; `ContinueResume` is the part of doResume after its
await; `Connect` includes the displacement of the previous socket. The native
rings are external: a push on a full ring fails, a blocked wait ends with the
channel. Frames, breakpoints and scripts are abstracted away.

### InspectorSession and InspectorLife

A session is named by its generation. `phase[g]` is where the attach coroutine of
session g stands, `waiter[w]` what a call awaits and how it was settled, `proc[g]`
and `pipe[g]` the worker thread and what it posted. `Call` are the methods of the
API, `Loop` the handlers of the main thread, `Worker` what worker/bootstrap.ts
and worker/connection.ts post. A handler only resolves or rejects the promises of
those who wait. Attach goes on in steps of its own: `OnConnected` and
`OnRuntimeReady` leave it at "gotClient" or "gotDebugger", `AfterClient` and
`AfterDebugger` are its code after the await (218-233), `Unwind` its catch block. In
between, callers whose own wait is over may call detach or anything else; `MayCall`
says so, generously, as it does not ask whether their wait ended with this message
and began before attach's. The next message comes when all coroutines have gone on
(`Turn`): the host is assumed to run the ready continuations to the end. `OnReady`
and the code after its await are one step, since nobody but attach awaits `ready`.

`InspectorLife` is the promise: sessions follow one another, and one that is over
has left no thread. `SessionsFollowLife` states that InspectorSession implements it,
with the joined threads as the witness. A session counts as stopping there from the
moment its worker was told to stop (`signalled`) until it is over, although attach
may set `state` to active again, see the [divergences](#divergences).

### InspectorBridge

One step per await of ensureOpen, close and dispose, and the sessions of the
Inspectors move as InspectorLife has them. `opening` and `closing` are the two
promises with what each captured (the number of the opening a close waits for,
the Inspector it detaches). A worker that fails empties the url, so an open right
after it makes a new Inspector while the old worker still stops: LiveIsCurrent
speaks of Inspectors that attach or are active, and the old worker may hold the
port for that time; dispose does not wait for it. Names it would share with
InspectorSession begin with `Bridge`, as InspectorProofs extends both.

### ObjectStore

Ids are numbers, so the oldest key of a Map is its least. A handler that
serializes several values (`Begin`, then `Serialize` per object) can be
interleaved with `Log` only, as a getter of the program may log; evaluations
await (`Evaluate`, `Settle`) and stops may begin at any serialization boundary the
main thread allows. Descriptions, previews and the table of compiled scripts
(evaluator.ts:312-352, a Map of its own) are left out.

### NetworkBodies

Bytes are positions, so a record `from..to` stands for a piece of the body and the
properties can tell a prefix, a gap and a tail from the whole. `Streams`,
`Discards`, `Exceeds` and `Buffers` are the four ways through
handleFetchBodyData; `Finish` hands over the body and runs the sweep;
`StartStreaming` is the call's arrival on the main thread and `OnReply` its
answer's. `OnRequest`, `OnData` and `OnDone` are the worker's handlers with their
sweeps. `lost` is a history variable: the requests of which the main thread
knowingly discarded bytes. It includes a completed body that makes room for a
later victim of the same chunk (`Displaced`), which takes three requests to happen:
the proof, not the run with two, showed that `lost` has to say so. `Bytes` counts the
bytes a map holds as the pairs of a request and a position. The cap is one for a behaviour: the code reads the
environment variable at every chunk, and a program that lowers it while bytes are
held is not considered. Responses with headers only, and serve requests, change none
of this state, or a copy of it under another name.

### TestRunner

`run[f].pc` is where runOne(f) awaits: `racing` (report, exit, timeout), `grace`
(the 100 ms after an exit), and the three ends of settleChild. A child may write
any piece, leave the pipe to a daemon, hang or die; a piece is a part of a line, a
line that says pass or fail, or junk. Assumed of the environment: wait() settles
only when the child is gone, and a killed child ends. Discovery, flags and the
child's own side are not modelled.

### FetchIntercept

`fetch[r]` is "waits" while its resolver is in Hooks.pendingIntercepts, `pending` is
FetchDomain's map of the worker. `Fetch` is onRequest with safeEmit: the event may be
lost, the resolver is registered in either case. `Receive` is onInterceptRequest with
its pattern match as a choice, `Answer` the three commands that settle a request,
`Enable` and `Disable` the domain's, `Connect`, `Close` and `Detaches` the sockets of
worker/connection.ts. Answers go where WorkerEndpoint.notify sends them: to the ring
while it believes the main thread is stopped (dropped when the ring is full, which
`lost` records), else to the pipe. `ServePipe` and `ServeRing` are the main thread's
two readers; a stop (`Stop` to the resume at the end of the ring) lets it read the
ring only. Connections are numbered so that the properties can say which client a
fetch was made under; the code carries no such number. `since`, `told` and `given` are
history. Patterns, contents and bodyCache are left out.

### ModuleEvaluation

A frame of `frames` is a call of js_inner_module_linking or _evaluation that has not
returned, and a step is what such a call does for one request, so the recursion of
the code is a sequence of steps in which nothing else runs. `stack` is the stack_prev
chain, each entry with its dfs_ancestor_index; a place on it stands for dfs_index.
`turn` is what the engine is doing: between turns (`idle`) a program may import
(`Import`) and bodies that await settle (`BodyThrows`, `BodyEnds`). `Gather` is one
parent of gather_available_ancestors, `Run` one module of exec_list. The least set of
`Condemned` is what js_async_module_execution_rejected reaches by calling itself. The
modules are loaded: js_resolve_module and the host are not modelled.

### CycleCollector

`rc` is the count, `edges` and `records` are what objects hold, `local`, `kept` and
`jobs` what the program, weakref_kept_objects and the job queue hold. A step of the
program is one operation; `FreeZero` frees one object of gc_zero_ref_count_list with
all it holds; `GcDecref`, `GcScan` and `FreeCycle` are the three passes, each of the
first two in one step, the sweep an object at a time. Lists are sets, so an order the
code would not take is taken too. Classes are not told apart, an edge stands for any
property or internal slot, an entry of a map is set once (replacing it is a removal
and an entry), unregister tokens are left out, and a registration's value stands for
the held value; kept targets are a set, although the code may keep one twice.

## Runs

Each run finishes within about two minutes on two workers. Deadlock is not checked
where a bound on the environment, or the end of the program, stops the system; it
is checked in `object_store`, where one can always log or resume.

| run | states | what it asks |
| --- | --- | --- |
| `pause` | 1,197,338 | PauseHasAnOwner, HeldPauseIsOffered and NeverStranded with rings of two slots |
| `inspector_session` | 172,252 | six properties of two sessions and two callers, InspectorLife among them |
| `inspector_bridge` | 27,077 | three Inspectors, three closes, two openers: safety and that all promises settle |
| `object_store` | 988,720 | a store of three, answers of four objects, six ids |
| `network_bodies` | 3,383,882 | two requests against a preview of two bytes and a cap of one or three, both sweeps |
| `fetch_intercept` | 895,286 | two fetches, two clients, two stops, a ring of two slots |
| `test_runner` | 1,285,000 | two files, two workers, two pieces, all flags |
| `module_evaluation` | 583,196 | every graph of three modules with up to two requests each, two imports |
| `cycle_collector` | 559,640 | three objects with three links of any kind |
| `pause_teardown`, `network_oversized`, `module_imports` | | a documented statement the code refutes, see below |

Why the bounds are enough:

* *Pause*: two connections are what displacement needs; the second stop can race
  the resume of the first, and the third its epilogue; three commands allow a
  resume, a pause and an enable or disable between them. Two slots fill, so the
  paths of a failed push are taken. One step code stands for three, which the
  protocol carries alike.
* *Session*: an old session only ever meets the next one; two callers suffice for
  one that waits and one that detaches, be it before attach goes on; two messages in flight are a message and
  the one that contradicts it.
* *Bridge*: a close captures one opening and a second open follows it; the third
  Inspector appears while the first still stops.
* *Object store*: an answer of four exceeds the cap of three, so it evicts its own
  first object, the case the theorem's precondition excludes and the code's
  constants nearly reach (500 accessors and a prototype are 1001 ids).
* *Bodies*: three bytes against a preview of two make truncation; a cap of three
  (above the preview, as the tiers have it) makes the eviction of another request,
  a cap of one (below it, as CNO_INSPECTOR_PENDING_BODY_MAX_BYTES allows) a chunk
  that does not fit after all evictions; one completed body makes their eviction
  happen; an interval and an age of one let both sweeps run on entries that are
  young and old within three ticks;
  enable is free and two commands are a stream request and a disable, or two of
  either. The two requests are interchangeable, hence the symmetry.
* *Interception*: displacement needs two clients, and a fetch made under one can
  meet the release meant for the other; two answers and a resume exceed a ring of
  two, so answers are lost and the resume is refused; the second stop begins while
  the resume of the first is awaited.
* *Modules*: three modules contain every cycle with an entry outside it, a chain in
  which the middle one is both waited for and waiting, and a module requested twice;
  the second import is the one that meets a graph that waits, failed or is done.
  At most one module cannot be linked: the walk stops at the first.
* *Memory*: three objects make a cycle with something hanging on it, a map with a
  key and a value, a registry with a target and a held value; three links hold a
  cycle of two and a record. The objects are interchangeable, hence the symmetry.
* *Tests*: with two files a queue, a running file and a finished one coexist, and
  two workers compete for the port; a report split into two pieces and one
  followed by junk both need two.

Fairness. Pause: both event loops and the native waits go on, timers fire; no
stop, client, command or exit is owed, so nothing depends on a client that
behaves. Session: handlers of messages that arrived run, coroutines go on, a
timeout fires, and a worker told to stop exits. The last is an assumption: detach only
signals the worker (inspector.ts:363-367), and only forceStop and the end of the pipe
join it, so one that ignored the signal would leave CallsSettle false. Bridge: promises
settle, modules load or fail, an attach that is not ready times out, a stopping
session ends (InspectorSession's CallsSettle). Tests: timers fire, workers go
on, a killed child ends and its exit is noticed; that a child ends by itself, or
that its bytes arrive, is not assumed. Interception: both event loops read what
they were sent, a stopped main thread reads its ring, timers fire; no client is
owed an answer. Modules: the engine finishes a turn, and a body that awaits goes on
in the end: a module that never does is not the engine's. NetworkBodies and
CycleCollector state no liveness (CallbackComes is an action property).

What the properties say, beyond their names: `NeverStranded` allows one escape,
a reply that found its ring full (`ReplyLost`). With a full response ring a
reply is dropped, and doResume, which awaits it, never finishes; what dc.reply
does then is decided by the native module. `BytesAccounted` is the hazard the
comment in ensureFetchBodyCapacity warns of. `FinishedIsReclaimable` allows
exactly one leftover, a streaming mark set by a call that arrived after the
request's end. `WholeUnlessLost` and `StreamHasNoGap` speak of requests of which
the main thread gave nothing up; what happens to the others is the first
divergence below. `GreenMeansPassed` is the promise of the exit code;
`HeardIsBelieved` that the verdict on a file of which a report was read is that
report, whatever the exit or a failed wait says, unless the timeout or an error of
the pipe came first. `AnswerIsNotOvertaken` speaks of answers that were put on a transport:
with the main thread stopped and the ring full notify drops them, and such a
fetch waits until its client leaves, which `WaitsForItsClient` counts as waiting
for the client. Its run also takes for granted that every stop is resumed; a resume
whose reply is lost on a full ring belongs to the pause protocol. `HooksFollowSession`
and `DebuggerWaitHasAClient` speak of `state` together with `signalled`: hooks are
installed only while the session attaches or is active and was not told to stop, and
an active session without them was told to stop. `CondemnsGarbage` says the collector leaves an entry's value
while the key is reachable, even if the map is not: it does not ask for the map.
`ImportSettlesOrMeetsFlagged` is what remains of the last divergence below.

## Divergences

Each is a run that ends in a counterexample; `PROJECT.json` quotes the lines. The
test file of `network_oversized` contains NUL bytes: `grep -a` shows its lines.

* `pause_teardown`: connection.ts drops the sink first so that "teardown events
  must not reach the new client", but the resume of a displaced session awaits a
  reply and sends Debugger.resumed to the new client.
* `network_oversized`: the beginning of an oversized body is cached as the whole
  body, against cdp-network-domain.test.ts:166.
* `module_imports`: "awaiting each import settles its top-level await before the next
  module evaluates" (cli-stage.test.ts:910). When a body that awaited ends, the
  modules executed for it that do not await themselves keep async_evaluation. A
  later import of one of them makes a promise that nothing settles. Chain a, b, c
  with c awaiting: import a, let it finish, import b.

One more is in the model and is not a run of its own: a stopped session can be called
active. A program calls attach and, before attach has come to its own wait,
waitForConnection; a client connects, and the handler resolves the two waits in that
order (inspector.ts:167; 182 does the same for the debugger). The caller goes on first
and detaches: beginStop sets stopping, tears the hooks down, empties the url and
signals the worker. Then attach goes on. `isCurrent` at 232, which should throw
'Inspector stopped while attaching', holds, as isCurrentSession (334-339) compares
generation and worker and lets `stopping` pass, and 233 sets `state` to active. Until
the worker's pipe closes, the session has no hooks, a second detach stops it once more,
and, `everConnected` being left true and `disconnectError` null (267-273), a
waitForDebugger waits without a client. So `state` alone does go from stopping to
active, and what the run and the proofs establish is the rest: the hooks stay
gone, the session ends, its worker is joined and whoever waits is settled then. Neither
kernel.ts nor bridge.ts gets there: the kernel's Inspector is not published before its
attach is over, and the bridge's wait for no client.

Seen while modelling and not run. In the inspector: an evaluate routed by the native
pause state before the worker drained the Paused event, or after the stop it was
meant for is over (domains/runtime.ts:69), runs on the event loop with the frame
offset of a stop; a connection message in flight when a stop began sets `connected`
again, so that a wait made while stopping succeeds (against cdp-lifetime.test.ts:151);
a download longer than two minutes is forgotten by the sweep although it receives
bytes all the time, because bytes buffered on the main thread do not touch `lastSeen`
(cdp-network-domain.test.ts:735, network.ts:1257); a client that displaces another can be
told Fetch.requestPaused of a fetch that the old client's "disconnected" then
releases (hooks.ts:383-384); a detach leaves breakpointsActive as the last client set it.
onPaused without a client and the expired hold resume without releasing the
'backtrace' group (docs/inspector.md:78-80); scope objects of a deep stop can be
evicted while it is shown, by those of its own frames or by later requests (same
lines); a comment in debugger.ts:382 still speaks of a pipe where the call now takes
the ring; a truncated placeholder reaped after 30 s clears the dropped mark of a
request that still runs, so the tail of its body is buffered again (hooks.ts:856-862).
In the test runner: the timeout of a test never looks at the report it may already
hold (test.ts:507, against 534). In the engine: js_resolve_module marks a module as
resolved before its dependencies are loaded; an entry of a map that died with its
cycle leaves a value without references to the next collection; a collection in the
middle of a job empties the list of kept WeakRef targets (tests/webapi/basic.test.ts:35
says "immediate deref keeps temporary targets alive in same job").

## Proofs

`tlapm` checks the eight proof modules without omitted steps. The theorems hold
for every value of the constants, from the named assumptions in the modules
(bounds are natural numbers, the ring has a slot, the store and the number of
Inspectors are positive, the step code for none is none of the others, the graphs are
functions to lists of finitely many modules).

* **PauseProtocolProofs**. `TypeCorrect` splits the state into scalars and
  queues, since most actions touch one kind. TransportFollowsDomain is inductive
  with the types: the two flags are written in the same turns. PauseHasAnOwner is
  inductive too; the work is in showing that every path that clears `paused` in
  the worker puts a resume in the ring of a stopped main thread (`LeavingResumes`,
  `GraceResumes`, `PollResumes`), that a failed push of the Paused event makes the
  main thread go on (`BreakAnnounces`), and that a resume is served only by the
  main thread it ends. HeldPauseIsOffered (`OfferNext`) needs the types,
  PauseHasAnOwner and `TimersFit` (the settle timer is armed only while Debugger
  is enabled, the grace timer only while it is not; `TimersNext`).
* **InspectorProofs**.
  *Sessions*: the five safety properties are not inductive alone.
  The invariant adds `WorkerIsCurrent` (a worker is that of the current
  generation unless idle), `ThreadsFit` (only the current session has a running
  thread or messages), `PhasesFit` (only an attach of the current, attaching session
  awaits the readiness or a client, and where the attach of an attaching or active
  session stands), `SignalsFit` (whose worker was told to stop) and `LeftIsKnown` (a
  client that left has left an error for those who wait for it): without them a late
  message or a late unwinding attach could act on a session it does not belong to.
  `EndsFits` is the last line of attach: it makes active only the current session, which
  attaches or was told to stop. `SessionsCorrect` is the refinement of InspectorLife:
  Init implies LifeInit, and every step is Start, Activate, Stop, End or a stutter; an
  attach that ends in a session told to stop is a stutter.
  *The bridge*: the invariant (`BridgeIsSound`) ties what lives to the promises:
  `AttachHasOpening`, `OpeningFits` (while the tree loads nothing lives),
  `ClosingEmpties` (a close or a dispose leaves nothing live from its call on),
  `ClosedStaysIdle`, `KernelDisposes`. `CloseIsComplete` is an action property
  from the same invariant.
* **ObjectStoreProofs**. `Adds`, `Releases` and `GroupReleases` say once what the
  operations of the store do to both maps; `RecentIsSpared` is the heart: as
  eviction takes the least id, an id among the last MaxStore minted survives, and
  `MintedSince` relates an answer's ids to the number at its beginning.
  `StaleCorrect` follows from ids being greater than all before.

* **TestRunnerProofs**: all four safety properties. For a file the invariant says
  what the reader, the verdict and the place of runOne can be together, and that a
  message heard is the first line written (`FirstLine`, kept by lemmas on what
  reading and writing do to the pieces); for the pool that the queue is fresh and
  without repetition (`QueueFresh`), that a worker leaves only an empty queue
  (`LeftMeansEmpty`), that only `Width` workers ever have a file (`Narrow`), and that
  every file is queued, with a worker or among the results unless one failed
  (`Accounted`), from which the exit code follows.
* **FetchInterceptProofs**: all three. EveryWaitIsOwned is kept by showing once, for
  every step of the worker, what it adds to the wires (`Relay`): a request leaves
  `pending` only with its answer under way. HeldForItsClient needs that a request
  is in one place only (`Places`), that connections are announced in rising order
  (`Announced`), and that an answer or a release ahead of that announcement meets
  no fetch made after it. AnswerIsNotOvertaken needs `Leads`: nothing follows a
  resume in the ring, and an answer is ahead of every "disconnected" that could
  overtake it.
* **ModuleEvaluationProofs**: all but liveness, for every finite graph. The invariant has
  three layers, each kept with the help of those before it.
  *Where the engine is* (`Inv`): the stack has what is linked or evaluated and the
  calls follow it (`Stacked`), whose code has not been called (`NotStarted`), and that
  those who wait or are condemned were reached (`Reached`); RunsOnce follows.
  *The walk* (`TreeInv`): calls request each other, a module whose call has returned
  leads back to its caller and its low index reaches below it (`Tree`), so that what
  `Return` and `LinkModule` pop is a cycle; what is linked requests what is linked.
  *The waiting* (`WaitInv`): a pending count is at least the number of times
  unfinished modules, and what is still to be gathered, will count it down
  (`Counted`, by cardinalities of sets of marks); who waits has the greater stamp, so
  that waiting has no cycle (`Stamped`); who has returned and waits is condemned
  with its caller (`Walk`) and a member of a cycle with its root (`Waiting`); and what
  became of each request dealt with (`Ordered`): of an open cycle, of the same cycle,
  settled, or waited for.
  The heart of StartsAfterItsRequests is `NobodyAwaited`: when a count is zero no
  unfinished module has this one as a parent, so the last case of `Ordered` is out.
  PromiseTellsOutcome takes the least closed set on both sides: the settled modules
  are closed under requests (`SettledOn`), so they hold the graph; a failure reaches
  only modules whose graph has the body that threw (`Outcome`).
* **CycleCollectorProofs**: all five. The invariant gives counts a meaning in each
  pass (all the references there are; in the middle one, those the program and the
  engine itself hold), says that nothing refers to memory that was freed (`Gone`), and that
  what the collector leaves does not lead to what it condemned (`Closed`), with the
  lists of each pass (`Passes`). The lemmas `RefsSplit`, `EdgeAdded`, `RecordRemoved` and their
  kin count references of finite sets without induction. That a scan condemns all
  garbage (`ScanCondemns`) takes the closed sets on both sides: what is retained is
  the least one, and what the scan rescues is one.

* **NetworkBodiesProofs**: all six, for every set of requests and all limits. Each
  layer of the invariant (`Inductive`) is kept with the help of those before it.
  *The count* (`Accounted`): no request has two entries in a map, and the counter is
  the number of bytes in the buffers and within the cap. What the loops over a map
  leave is proved by following them to the least number at which they would go wrong
  (`LeastNumber`, `StepsMakeFunction`, `StepsStay`), which needs no rule of induction;
  the bytes of disjoint parts add up as cardinalities (`BytesSplit`). From there on
  the steps of the main thread are known only by what they leave (`Chunked`,
  `Finished`, `Handed`).
  *What is kept* (`Phases`, `KeptWhole`): only of open requests; of one of which nothing
  is lost, all bytes so far, in one place. FinishedIsReclaimable follows.
  *Who knows of whom* (`AnnouncedOnce`, `StreamedIfAsked`): one message announces a
  request and finds a client that has heard nothing of it, so that a request the worker
  has forgotten it never knows again (`Past`, `PastStays`), and a stream was asked for by the
  client that gets it unless its request is past. EventsFollowAnnouncement follows.
  *The stream* (`Chained`): the bytes the client has, those in the messages in flight in
  their order, and the next chunk fit together without a gap; a message at the end
  of the pipe prolongs the chain, one taken from its front hands a link over
  (`ChainStays`, `TakesWell`). StreamHasNoGap follows.
  *The end* (`Delivered`): a Done message brings the whole body or comes after a
  stream or for a client that has gone, whence WholeUnlessLost.

Only model-checked: liveness (NeverStranded, WaitsForItsClient, CallsSettle,
PromisesSettle, RunEnds, ImportSettlesOrMeetsFlagged), which needs ENABLED; and the
statements that fail. Proved and in no
run are TransportFollowsDomain, FinishedMayExit (that a process may exit once its
kernel session is finished, kernel.ts:160, `ExitIsAllowed`), StoreBounded,
StaleStaysStale and the type invariants, except that of NetworkBodies, which its run
checks for the limits on the completed and the cached bodies.

## What is not modelled

The list with reasons is in `PROJECT.json`. In short: what is not in this tree
(the native modules, the Web and Node APIs: the debug channel, the pipe, processes
and timers are modelled from how the code uses them, marked external); what runs
once and in sequence (command line, configuration, most commands); what has state
but is left for the next steps of the plan (breakpoints, the map of pending calls,
the script table, promise jobs, setup); and, inside modelled components, formatting
and payloads: descriptions of objects, headers, timing, stack frames, the text of
reports.

Of the engine, two parts are modelled, about 1,500 lines of its 66,000. The rest is a
parser, an interpreter and built-in functions: they compute values in one thread
and keep no protocol between calls, so that a model could only repeat the code.
A measure that counts lines of this one file therefore stays low, whatever is
modelled of the 15,000 lines around it, of which the maps name some 2,600.
