---------------------------- MODULE FetchIntercept ----------------------------
(***************************************************************************)
(* Fetch interception: a fetch of the program waits on the main thread     *)
(* (main/hooks.ts) until the worker's FetchDomain (domains/fetch.ts)       *)
(* answers for it, by itself or for the DevTools client that was told.     *)
(*                                                                         *)
(* Which fetches wait is kept twice, as resolvers on the main thread and   *)
(* as ids in the worker, and answers take one of two ways: the pipe, which *)
(* a running main thread serves, or the request ring of the debug channel, *)
(* which it serves while it is stopped (transport/worker-endpoint.ts).     *)
(* Clients come, displace each other and leave (worker/connection.ts); the *)
(* worker may die and the main thread may end the session.                 *)
(***************************************************************************)
EXTENDS Naturals, Sequences, FiniteSets

CONSTANTS
    Requests,
    RingCap,    \* slots of the request ring
    MaxConns,   \* bound: DevTools connections
    MaxBreaks   \* bound: stops of the main thread

ASSUME RingAssumption == RingCap \in Nat \ {0}
ASSUME BoundsAssumption == MaxConns \in Nat /\ MaxBreaks \in Nat

VARIABLES
    \* the main thread
    hooked,     \* the hooks are installed: the session has not been torn down
    fetch,      \* what became of a fetch; it "waits" while its resolver is in pendingIntercepts
    known,      \* the last connection the main thread has heard of, 0 if none
    attached,   \* Inspector.connected
    stopped,    \* inside serviceWhilePaused
    \* between the threads
    toWorker,   \* pipe: the intercepted requests
    toMain,     \* pipe: answers, connections and the end of the pipe
    ring,       \* debug channel: answers and other requests, and the resume
    \* the debug worker
    alive,
    conn,       \* the connection that has the sink, 0 if none
    conns,      \* connections accepted so far
    sockets,    \* connections whose socket is open
    enabled,    \* FetchDomain.enabled
    pending,    \* FetchDomain.pending, in the order of insertion
    paused,     \* WorkerEndpoint.paused
    resuming,   \* a doResume is under way
    \* what the properties speak of
    since,      \* of a fetch: `known` when it was made
    told,       \* requests the attached client was told are paused and has not answered
    given,      \* of a request: the connection that answered, 0 if none
    lost,       \* requests whose answer found the ring full
    breaks

mainVars == <<hooked, fetch, known, attached, stopped>>
wires == <<toWorker, toMain, ring>>
clientVars == <<conn, conns, sockets>>
domainVars == <<enabled, pending>>
workerVars == <<alive, clientVars, domainVars, paused, resuming>>
ghosts == <<since, told, given, lost>>
vars == <<mainVars, wires, workerVars, ghosts, breaks>>

Connected == conn # 0

Init ==
    /\ hooked = TRUE /\ fetch = [r \in Requests |-> "new"] /\ known = 0
    /\ attached = FALSE /\ stopped = FALSE
    /\ toWorker = <<>> /\ toMain = <<>> /\ ring = <<>>
    /\ alive = TRUE /\ conn = 0 /\ conns = 0 /\ sockets = {}
    /\ enabled = FALSE /\ pending = <<>> /\ paused = FALSE /\ resuming = FALSE
    /\ since = [r \in Requests |-> 0] /\ told = {} /\ given = [r \in Requests |-> 0]
    /\ lost = {} /\ breaks = 0

-----------------------------------------------------------------------------
(* The main thread. *)

\* setFetchInterceptHook: the event is sent, or lost in safeEmit, and the
\* resolver is registered in either case.
Fetch(r) ==
    /\ hooked /\ ~stopped /\ fetch[r] = "new"
    /\ fetch' = [fetch EXCEPT ![r] = "waits"] /\ since' = [since EXCEPT ![r] = known]
    /\ toWorker' = IF alive THEN Append(toWorker, r) ELSE toWorker
    /\ UNCHANGED <<hooked, known, attached, stopped, toMain, ring, workerVars, told, given, lost, breaks>>

\* releasePendingIntercepts
Released == [r \in Requests |-> IF fetch[r] = "waits" THEN "released" ELSE fetch[r]]

\* resolveIntercept: only a request that still waits is resolved.
Resolved(m) ==
    IF fetch[m.of] = "waits"
    THEN [fetch EXCEPT ![m.of] = IF m.null THEN "released" ELSE "answered"] ELSE fetch

\* Faulty variant of TornDown: the resolvers are dropped with the session.
Forgotten == fetch

\* Hooks.teardown, of a detach or of the end of the pipe.
TornDown == Released

ServePipe ==
    /\ ~stopped /\ toMain # <<>>
    /\ LET m == Head(toMain) IN
       /\ fetch' = IF ~hooked THEN fetch
                   ELSE IF m.kind = "result" THEN Resolved(m)
                   ELSE IF m.kind = "disconnected" THEN Released
                   ELSE IF m.kind = "closed" THEN TornDown
                   ELSE fetch
       /\ known' = IF m.kind = "connected" THEN m.of ELSE known
       /\ attached' = (m.kind = "connected" \/ (attached /\ m.kind = "result"))
       /\ hooked' = (hooked /\ m.kind # "closed")
    /\ toMain' = Tail(toMain)
    /\ UNCHANGED <<stopped, toWorker, ring, workerVars, ghosts, breaks>>

\* The program calls for the end of the session.
Detach ==
    /\ hooked /\ ~stopped
    /\ hooked' = FALSE /\ fetch' = TornDown /\ attached' = FALSE
    /\ UNCHANGED <<known, stopped, wires, workerVars, ghosts, breaks>>

\* onBreak with a client attached.
Stop ==
    /\ hooked /\ ~stopped /\ attached /\ alive /\ breaks < MaxBreaks
    /\ stopped' = TRUE /\ breaks' = breaks + 1
    /\ UNCHANGED <<hooked, fetch, known, attached, wires, workerVars, ghosts>>

\* ChannelServer.service; waitRequest throws once the channel is stopped.
ServeRing ==
    /\ stopped
    /\ IF alive
       THEN /\ ring # <<>> /\ ring' = Tail(ring)
            /\ fetch' = IF Head(ring).kind = "result" THEN Resolved(Head(ring)) ELSE fetch
            /\ stopped' = (Head(ring).kind # "resume")
       ELSE ring' = <<>> /\ stopped' = FALSE /\ UNCHANGED fetch
    /\ UNCHANGED <<hooked, known, attached, toWorker, toMain, workerVars, ghosts, breaks>>

-----------------------------------------------------------------------------
(* The worker.  WorkerEndpoint.notify sends over the ring while paused, and *)
(* over the pipe otherwise; that the ring was full is not looked at.       *)

Answers(rs, null) == [i \in DOMAIN rs |-> [kind |-> "result", of |-> rs[i], null |-> null]]
Room == IF Len(ring) < RingCap THEN RingCap - Len(ring) ELSE 0
Entering(msgs) == SubSeq(msgs, 1, IF Len(msgs) < Room THEN Len(msgs) ELSE Room)
Refusals(msgs) == {msgs[i].of : i \in {j \in DOMAIN msgs : j > Room /\ msgs[j].kind = "result"}}

\* `last` is what the same turn puts on the pipe after the messages.
Notify(msgs, last) ==
    IF paused
    THEN /\ ring' = ring \o Entering(msgs) /\ lost' = lost \cup Refusals(msgs)
         /\ toMain' = toMain \o last
    ELSE toMain' = toMain \o msgs \o last /\ UNCHANGED <<ring, lost>>

\* Faulty variant of Unwanted: a request nobody asked for is ignored.
Ignored(r) == UNCHANGED <<toMain, ring, lost>>

Unwanted(r) == Notify(Answers(<<r>>, TRUE), <<>>)

\* onInterceptRequest: not enabled, or no pattern matches, or the client is told.
Receive ==
    /\ alive /\ toWorker # <<>> /\ toWorker' = Tail(toWorker)
    /\ LET r == Head(toWorker) IN
       \/ Unwanted(r) /\ UNCHANGED <<pending, told>>
       \/ /\ enabled
          /\ pending' = Append(pending, r) /\ told' = told \cup {r}
          /\ UNCHANGED <<toMain, ring, lost>>
    /\ UNCHANGED <<mainVars, alive, clientVars, enabled, paused, resuming, since, given, breaks>>

\* The Paused event: held for a client, or answered by a resume.
SeePause ==
    /\ alive /\ stopped /\ ~paused /\ ~resuming /\ ring = <<>>
    /\ IF Connected THEN paused' = TRUE /\ UNCHANGED ring
       ELSE ring' = <<[kind |-> "resume"]>> /\ UNCHANGED paused
    /\ UNCHANGED <<mainVars, toWorker, toMain, alive, clientVars, domainVars, resuming, ghosts, breaks>>

\* Faulty variant of Leaving: what the ring still holds is dropped.
LeavingAtOnce == <<[kind |-> "resume"]>>

Leaving == Append(ring, [kind |-> "resume"])

\* doResume after its await: setPaused(false) and beginResume.
Resume ==
    /\ alive /\ paused /\ resuming
    /\ paused' = FALSE /\ resuming' = FALSE
    /\ ring' = Leaving
    /\ UNCHANGED <<mainVars, toWorker, toMain, alive, clientVars, domainVars, ghosts, breaks>>

WorkerExit ==
    /\ alive /\ alive' = FALSE
    /\ toMain' = Append(toMain, [kind |-> "closed"])
    /\ told' = {}
    /\ UNCHANGED <<mainVars, toWorker, ring, clientVars, domainVars, paused, resuming,
                   since, given, lost, breaks>>

-----------------------------------------------------------------------------
(* Connections and commands. *)

\* doResume up to its await: a release of the backtrace, over the ring.  Calls of
\* doResume that overlap are one here.
Inspects == IF paused THEN <<[kind |-> "inspect"]>> ELSE <<>>

\* releaseSession: the pause is resumed, every paused request is released, and
\* the main thread is told.
ReleaseSession(then) ==
    /\ resuming' = (resuming \/ paused)
    /\ enabled' = FALSE /\ pending' = <<>>
    /\ Notify(Inspects \o Answers(pending, TRUE), <<[kind |-> "disconnected"]>> \o then)

\* A new client takes the sink from the one that has it.
Connect ==
    /\ alive /\ conns < MaxConns
    /\ conns' = conns + 1 /\ conn' = conns' /\ sockets' = sockets \cup {conns'}
    /\ LET hello == <<[kind |-> "connected", of |-> conns']>> IN
       IF Connected THEN ReleaseSession(hello)
       ELSE toMain' = toMain \o hello /\ UNCHANGED <<ring, lost, resuming, domainVars>>
    /\ told' = {}
    /\ UNCHANGED <<mainVars, toWorker, alive, paused, since, given, breaks>>

\* Faulty variant of Detaches: a socket that was replaced detaches its successor.
AnySocket(c) == c \in sockets

Detaches(c) == c = conn

\* onclose or onerror of a socket, which may have been displaced before.
Close(c) ==
    /\ alive /\ c \in sockets /\ sockets' = sockets \ {c}
    /\ IF Detaches(c) THEN ReleaseSession(<<>>)
       ELSE UNCHANGED <<toMain, ring, lost, resuming, domainVars>>
    /\ IF c = conn THEN conn' = 0 /\ told' = {} ELSE UNCHANGED <<conn, told>>
    /\ UNCHANGED <<mainVars, toWorker, alive, conns, paused, since, given, breaks>>

Command == alive /\ Connected

Enable ==
    /\ Command /\ ~enabled /\ enabled' = TRUE
    /\ UNCHANGED <<mainVars, wires, alive, clientVars, pending, paused, resuming, ghosts, breaks>>

Disable ==
    /\ Command /\ enabled /\ enabled' = FALSE
    /\ pending' = <<>> /\ told' = {} /\ Notify(Answers(pending, TRUE), <<>>)
    /\ UNCHANGED <<mainVars, toWorker, alive, clientVars, paused, resuming, since, given, breaks>>

\* continueRequest, fulfillRequest, failRequest and continueResponse: settle.
Answer(r) ==
    /\ Command /\ r \in told /\ told' = told \ {r}
    /\ \E i \in DOMAIN pending :
           pending[i] = r /\ pending' = SubSeq(pending, 1, i - 1) \o SubSeq(pending, i + 1, Len(pending))
    /\ given' = [given EXCEPT ![r] = conn]
    /\ Notify(Answers(<<r>>, FALSE), <<>>)
    /\ UNCHANGED <<mainVars, toWorker, alive, clientVars, enabled, paused, resuming, since, breaks>>

\* Any inspect call of the client, which takes a slot while paused.
Inspect ==
    /\ Command /\ paused /\ Room > 0
    /\ Notify(Inspects, <<>>)
    /\ UNCHANGED <<mainVars, toWorker, workerVars, since, told, given, breaks>>

\* Debugger.resume and the steps.
AskResume ==
    /\ Command /\ paused /\ ~resuming /\ resuming' = TRUE
    /\ Notify(Inspects, <<>>)
    /\ UNCHANGED <<mainVars, toWorker, alive, clientVars, domainVars, paused,
                   since, told, given, breaks>>

\* The bounded hold of a stop the client never asked to see has expired.
GraceTimer ==
    /\ Command /\ paused /\ ~resuming /\ paused' = FALSE
    /\ ring' = Leaving
    /\ UNCHANGED <<mainVars, toWorker, toMain, alive, clientVars, domainVars, resuming, ghosts, breaks>>

-----------------------------------------------------------------------------
Main == (\E r \in Requests : Fetch(r)) \/ ServePipe \/ Detach \/ Stop \/ ServeRing
Worker == Receive \/ SeePause \/ Resume \/ GraceTimer \/ WorkerExit
Client ==
    \/ Connect \/ (\E c \in 1..MaxConns : Close(c))
    \/ Enable \/ Disable \/ (\E r \in Requests : Answer(r)) \/ Inspect \/ AskResume

Next == Main \/ Worker \/ Client

Spec == Init /\ [][Next]_vars

\* Both event loops and the native waits go on; nobody owes a command, a stop or an end.
FairSpec ==
    /\ Spec
    /\ WF_vars(ServePipe) /\ WF_vars(ServeRing)
    /\ WF_vars(Receive) /\ WF_vars(SeePause) /\ WF_vars(Resume)

-----------------------------------------------------------------------------
(* Properties. *)

Answered == [kind : {"result"}, of : Requests, null : BOOLEAN]

TypeOK ==
    /\ hooked \in BOOLEAN /\ known \in 0..MaxConns /\ attached \in BOOLEAN /\ stopped \in BOOLEAN
    /\ fetch \in [Requests -> {"new", "waits", "released", "answered"}]
    /\ toWorker \in Seq(Requests)
    /\ toMain \in Seq(Answered \cup [kind : {"connected"}, of : 1..MaxConns]
                               \cup [kind : {"disconnected", "closed"}])
    /\ ring \in Seq(Answered \cup [kind : {"inspect", "resume"}])
    /\ alive \in BOOLEAN /\ conn \in 0..MaxConns /\ conns \in 0..MaxConns
    /\ sockets \subseteq 1..MaxConns
    /\ enabled \in BOOLEAN /\ pending \in Seq(Requests)
    /\ paused \in BOOLEAN /\ resuming \in BOOLEAN
    /\ since \in [Requests -> Nat] /\ told \subseteq Requests
    /\ given \in [Requests -> 0..MaxConns] /\ lost \subseteq Requests /\ breaks \in Nat

\* A request the attached client was told is paused is: no displaced socket that
\* closes late, no answer for another request and no release meant for another
\* client lets it go, if it was made since the main thread knows this client.
HeldForItsClient ==
    \A r \in told : hooked /\ since[r] = conn => fetch[r] = "waits"

\* What a client answered is what the program gets: its own departure, sent after
\* the answer and perhaps by another way, does not overtake it.
AnswerIsNotOvertaken ==
    \A r \in Requests :
        given[r] # 0 /\ given[r] = since[r] /\ fetch[r] = "released" => r \in lost \/ ~hooked \/ ~alive

\* Two threads keep the list of the fetches that wait: none is on the main
\* thread's alone.  It is known to the worker, or will be; or what will let it go
\* is on its way, unless the ring was full.
Coming(q, r) == \E i \in DOMAIN q : q[i].kind = "result" /\ q[i].of = r
EveryWaitIsOwned ==
    \A r \in Requests : fetch[r] = "waits" =>
        \/ \E i \in DOMAIN toWorker : toWorker[i] = r
        \/ \E i \in DOMAIN pending : pending[i] = r
        \/ Coming(toMain, r) \/ Coming(ring, r) \/ r \in lost
        \/ \E i \in DOMAIN toMain : toMain[i].kind = "closed"

\* A fetch that waits for ever waits for the attached client, which was told of it
\* or holds the program stopped: not for a client that has left or disabled the
\* domain, not for a worker that died, not for an event that was lost.
WaitsForItsClient ==
    \A r \in Requests :
        []<>(fetch[r] # "waits") \/ <>[](alive /\ Connected /\ (r \in told \/ paused \/ r \in lost))
=============================================================================
