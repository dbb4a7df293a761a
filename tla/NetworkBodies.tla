--------------------------- MODULE NetworkBodies ---------------------------
(***************************************************************************)
(* The bodies of fetch requests on their way to DevTools: Hooks on the     *)
(* main thread (main/hooks.ts) buffers, cuts, streams and reaps them, and  *)
(* NetworkDomain in the worker (domains/network.ts) announces requests,    *)
(* relays streamed bytes and caches finished bodies.  One pipe carries the *)
(* events and the replies, another the streamResourceContent calls.        *)
(*                                                                         *)
(* Bytes are known by their position: a record with `from` and `to` stands *)
(* for the bytes from..to-1 of its request.  A JavaScript Map is the       *)
(* sequence of its entries in the order of insertion.  The serve source is *)
(* a copy of the fetch source and is not modelled.                         *)
(***************************************************************************)
EXTENDS Naturals, Sequences, FiniteSets

CONSTANTS
    Requests,
    Preview,      \* inspectorPreviewBodyBytes
    Caps,         \* what maxPendingBodyBytes may be: the tier's, or of the environment
    MaxCompleted, \* MAX_COMPLETED_BODIES
    MaxCached,    \* MAX_CACHED_BODIES
    Interval,     \* of both cleanups (30 s)
    Stale,        \* age at which both forget (120 s)
    MaxBody,      \* bound: bytes of a body
    MaxTime,      \* bound: the clock
    MaxPipe,      \* bound: events on their way
    MaxCommands   \* bound: disables and stream requests

ASSUME LimitsAssumption ==
    /\ IsFiniteSet(Requests)
    /\ Preview \in Nat /\ Caps \subseteq Nat
    /\ MaxCompleted \in Nat \ {0} /\ MaxCached \in Nat \ {0}
ASSUME TimesAssumption == Interval \in Nat \ {0} /\ Stale \in Nat /\ Interval <= Stale
ASSUME BoundsAssumption ==
    MaxBody \in Nat /\ MaxTime \in Nat /\ MaxPipe \in Nat /\ MaxCommands \in Nat

VARIABLES
    cap,        \* maxPendingBodyBytes
    now,        \* the clock of both threads
    fetch,      \* per request, of the program: its phase and the bytes that came
    buffers,    \* fetchBodyBuffers, with createdAt
    held,       \* fetchBodyBufferBytes
    completed,  \* completedFetchBodies, with createdAt
    live,       \* liveStreamedFetchRequests
    dropped,    \* droppedFetchBodyRequests
    registered, \* streamRegisteredAt, 0 for none
    mainSweep,  \* lastBufferCleanupTime
    lost,       \* requests of which the main thread discarded bytes
    pipe,       \* events and replies to the worker
    calls,      \* streamResourceContent calls to the main thread
    enabled,
    announced,
    lastSeen,   \* 0 for none
    pending,    \* pendingBodies: "none", "live", "open", "cut"
    streamed,   \* streamedBodies
    cache,      \* responseBodyCache
    workSweep,  \* lastCleanupTime
    seen,       \* per request, the events the client saw: "none", "sent", "over", "stray"
    stream,     \* per request, the bytes the client put together, and if one is missing
    commands    \* how many disables and stream requests there were

mainVars == <<buffers, held, completed, live, dropped, registered, mainSweep, lost>>
workVars == <<announced, lastSeen, pending, streamed, cache, workSweep>>
clientVars == <<seen, stream>>
vars == <<cap, now, fetch, mainVars, pipe, calls, enabled, workVars, clientVars, commands>>

NoStream == [on |-> FALSE, from |-> 0, to |-> 0, gap |-> FALSE]

Init ==
    /\ cap \in Caps /\ now = Interval /\ mainSweep = 0 /\ workSweep = 0
    /\ fetch = [r \in Requests |-> [phase |-> "new", body |-> 0]]
    /\ buffers = <<>> /\ held = 0 /\ completed = <<>>
    /\ live = {} /\ dropped = {} /\ registered = [r \in Requests |-> 0] /\ lost = {}
    /\ pipe = <<>> /\ calls = <<>> /\ commands = 0
    /\ enabled = FALSE /\ announced = {} /\ lastSeen = [r \in Requests |-> 0]
    /\ pending = [r \in Requests |-> "none"] /\ streamed = {} /\ cache = <<>>
    /\ seen = [r \in Requests |-> "none"]
    /\ stream = [r \in Requests |-> NoStream]

-----------------------------------------------------------------------------
(* Maps of byte ranges. *)

Size(e) == e.to - e.from
Ids(map) == {map[i].id : i \in DOMAIN map}
Get(map, r) == map[CHOOSE i \in DOMAIN map : map[i].id = r]

\* The bytes of the entries, each known by its request and number, and how many.
BytesOf(map) == UNION {{map[i].id} \X ((map[i].from + 1)..map[i].to) : i \in DOMAIN map}
Bytes(map) == Cardinality(BytesOf(map))

Without(map, ids) ==
    LET kept[i \in 0..Len(map)] ==
          IF i = 0 THEN <<>>
          ELSE IF map[i].id \in ids THEN kept[i - 1] ELSE Append(kept[i - 1], map[i])
    IN kept[Len(map)]

Put(map, e) ==
    IF e.id \in Ids(map) THEN [i \in DOMAIN map |-> IF map[i].id = e.id THEN e ELSE map[i]]
    ELSE Append(map, e)

Piece(r, a, b, t) == [id |-> r, from |-> a, to |-> b, at |-> t]
Old(t, age) == t + age < now

-----------------------------------------------------------------------------
(* Hooks: a chunk arrives. *)

Send(m) == pipe' = Append(pipe, m)
Data(r, a, b, n) == [kind |-> "data", id |-> r, at |-> now, from |-> a, to |-> b, size |-> n]

\* Faulty variant of Completed: evictOldestBody is not called.
Hoarded(map, e) == Put(map, [e EXCEPT !.at = now])

\* A body whose bytes are complete as far as they will be kept.
Completed(map, e) ==
    Put(IF Len(map) >= MaxCompleted THEN Tail(map) ELSE map, [e EXCEPT !.at = now])

\* dropFetchRequestBody: what there is of the victims becomes their whole body.
AllCompleted(map, victims) ==
    LET after[i \in 0..Len(victims)] ==
          IF i = 0 THEN map
          ELSE IF Size(victims[i]) > 0 THEN Completed(after[i - 1], victims[i]) ELSE after[i - 1]
    IN after[Len(victims)]

\* The requests whose completed body made room for another, be it in the same step.
Displaced(victims) ==
    (Ids(completed) \cup {victims[i].id : i \in {j \in DOMAIN victims : Size(victims[j]) > 0}})
        \ Ids(completed')

\* Faulty variant of Evictable: the request itself may be evicted.
AnyBuffer(map, r) == map

\* The buffers ensureFetchBodyCapacity may drop for `r`, oldest first.
Evictable(map, r) == Without(map, {r})

\* It drops the fewest that make room for `n` bytes, or all of them.
Victims(map, r, n) ==
    LET others == Evictable(map, r)
        enough == {k \in 0..Len(others) : held - Bytes(SubSeq(others, 1, k)) + n <= cap}
        fewest == IF enough = {} THEN Len(others)
                  ELSE CHOOSE k \in enough : \A j \in enough : k <= j
    IN SubSeq(others, 1, fewest)

\* Faulty variant of Drops: the request is not marked, and buffers again.
Forgets(ids) == dropped' = dropped

Drops(ids) == dropped' = dropped \cup ids

\* The request is streamed: its bytes are sent.
Streams(r, n) ==
    /\ r \in live
    /\ Send(Data(r, fetch[r].body, fetch[r].body + n, n))
    /\ UNCHANGED mainVars

\* Its body was given up: only the size is sent.
Discards(r, n) ==
    /\ r \notin live /\ r \in dropped
    /\ Send(Data(r, 0, 0, n)) /\ lost' = lost \cup {r}
    /\ UNCHANGED <<buffers, held, completed, live, dropped, registered, mainSweep>>

\* The body exceeds the preview: what there was is kept, this chunk is not.
Exceeds(r, n, b) ==
    /\ r \notin live \cup dropped /\ Size(b) + n > Preview
    /\ completed' = Completed(completed, b) /\ Drops({r})
    /\ lost' = lost \cup {r} \cup Displaced(<<b>>)
    /\ held' = held - Size(b)
    /\ buffers' = Put(buffers, [b EXCEPT !.to = b.from])
    /\ Send(Data(r, 0, 0, n))
    /\ UNCHANGED <<live, registered, mainSweep>>

\* The chunk is kept if dropping other buffers makes room, and else the body is
\* given up as well.
Buffers(r, n, b) ==
    /\ r \notin live \cup dropped /\ Size(b) + n <= Preview
    /\ LET all == Put(buffers, b)
           victims == Victims(all, r, n)
           rest == Without(all, Ids(victims))
           fits == held - Bytes(victims) + n <= cap
           gone == IF fits THEN victims ELSE Append(victims, b)
       IN /\ completed' = AllCompleted(completed, gone) /\ Drops(Ids(gone))
          /\ lost' = lost \cup (IF fits THEN {} ELSE {r}) \cup Displaced(gone)
          /\ IF fits
             THEN /\ buffers' = IF r \in Ids(rest) THEN Put(rest, [b EXCEPT !.to = @ + n]) ELSE rest
                  /\ held' = held - Bytes(victims) + n
                  /\ UNCHANGED pipe
             ELSE /\ buffers' = Without(rest, {r})
                  /\ held' = held - Bytes(gone)
                  /\ Send(Data(r, 0, 0, n))
    /\ UNCHANGED <<live, registered, mainSweep>>

Chunk(r, n) ==
    /\ fetch[r].phase = "open" /\ fetch[r].body + n <= MaxBody /\ Len(pipe) < MaxPipe
    /\ fetch' = [fetch EXCEPT ![r].body = @ + n]
    /\ LET b == IF r \in Ids(buffers) THEN Get(buffers, r)
                ELSE Piece(r, fetch[r].body, fetch[r].body, now)
       IN Streams(r, n) \/ Discards(r, n) \/ Exceeds(r, n, b) \/ Buffers(r, n, b)
    /\ UNCHANGED <<cap, now, calls, enabled, workVars, clientVars, commands>>

-----------------------------------------------------------------------------
(* Hooks: a request begins and finishes, and streaming is asked for. *)

Begin(r) ==
    /\ fetch[r].phase = "new" /\ Len(pipe) < MaxPipe
    /\ fetch' = [fetch EXCEPT ![r].phase = "open"]
    /\ Send([kind |-> "request", id |-> r, at |-> now])
    /\ UNCHANGED <<cap, now, mainVars, calls, enabled, workVars, clientVars, commands>>

\* What the Done event carries: a completed body, be it empty, before a buffer.
Body(r) ==
    IF r \in Ids(completed) THEN {Get(completed, r)}
    ELSE {e \in {buffers[i] : i \in DOMAIN buffers} : e.id = r /\ Size(e) > 0}

\* cleanupStaleBodyBuffers, on what is left without the finished request.
Sweep(bufs, comp, others) ==
    LET old == {r \in Ids(bufs) : LET e == Get(bufs, r)
                                 IN Old(e.at, Stale) \/ (Size(e) = 0 /\ Old(e.at, Interval))}
        bufsLeft == Without(bufs, old)
        ends == {r \in others : /\ registered[r] # 0 /\ Old(registered[r], Stale)
                                /\ r \notin Ids(bufsLeft)}
        aged == {r \in Ids(comp) : Old(Get(comp, r).at, Stale)}
    IN /\ buffers' = bufsLeft /\ held' = held - (Bytes(buffers) - Bytes(bufsLeft))
       /\ completed' = Without(comp, aged)
       /\ live' = (live \cap others) \ (old \cup ends)
       /\ dropped' = (dropped \cap others) \ (old \cup ends)
       /\ registered' = [r \in Requests |-> IF r \in others \ ends THEN registered[r] ELSE 0]
       /\ lost' = lost \cup old \cup aged \cup (ends \cap live)
       /\ mainSweep' = now

NoSweep(bufs, comp, others) ==
    /\ buffers' = bufs /\ completed' = comp
    /\ held' = held - (Bytes(buffers) - Bytes(bufs))
    /\ live' = live \cap others /\ dropped' = dropped \cap others
    /\ registered' = [r \in Requests |-> IF r \in others THEN registered[r] ELSE 0]
    /\ UNCHANGED <<mainSweep, lost>>

Finish(r) ==
    /\ fetch[r].phase = "open" /\ Len(pipe) < MaxPipe
    /\ fetch' = [fetch EXCEPT ![r].phase = "done"]
    /\ LET bufs == Without(buffers, {r})
           comp == Without(completed, {r})
       IN IF now - mainSweep < Interval THEN NoSweep(bufs, comp, Requests \ {r})
          ELSE Sweep(bufs, comp, Requests \ {r})
    /\ Send([kind |-> "done", id |-> r, at |-> now, body |-> Body(r)])
    /\ UNCHANGED <<cap, now, calls, enabled, workVars, clientVars, commands>>

\* Faulty variant of Taken: the completed body is forgotten, not handed over.
TakenBuffer(r) == IF r \in Ids(buffers) THEN Get(buffers, r) ELSE Piece(r, 0, 0, now)

\* takeFetchBodyBuffer: the bytes handed over.
Taken(r) ==
    IF r \in Ids(completed) THEN Get(completed, r)
    ELSE IF r \in Ids(buffers) THEN Get(buffers, r) ELSE Piece(r, 0, 0, now)

\* Faulty variant of Registers: the reaper is not told.
NotRegistered(r) == registered' = registered

Registers(r) == registered' = [registered EXCEPT ![r] = now]

\* enableStreamingForRequest, and the reply to its call.
StartStreaming ==
    /\ calls # <<>> /\ Len(pipe) < MaxPipe
    /\ LET r == Head(calls)
       IN /\ Send([kind |-> "reply", id |-> r, from |-> Taken(r).from, to |-> Taken(r).to])
          /\ completed' = Without(completed, {r})
          /\ buffers' = Without(buffers, {r})
          /\ held' = IF r \in Ids(buffers) THEN held - Size(Get(buffers, r)) ELSE held
          /\ live' = live \cup {r} /\ dropped' = dropped \ {r}
          /\ Registers(r)
    /\ calls' = Tail(calls)
    /\ UNCHANGED <<cap, now, fetch, mainSweep, lost, enabled, workVars, clientVars, commands>>

-----------------------------------------------------------------------------
(* NetworkDomain: the events. *)

\* Faulty variant of Known: an event of a request nobody announced is relayed.
Anything(r) == TRUE

Known(r) == r \in announced

\* cleanupStaleEntries at the time of an event: the requests it forgets, the
\* others having been heard of at `heard`.
Forgotten(heard, t) ==
    IF t - workSweep < Interval THEN {} ELSE {r \in Requests : heard[r] # 0 /\ heard[r] + Stale < t}
SweepTime(t) == IF t - workSweep < Interval THEN workSweep ELSE t

\* What is left of the maps keyed by request.
Keep(ann, heard, pend, strm, gone) ==
    /\ announced' = ann \ gone /\ streamed' = strm \ gone
    /\ lastSeen' = [r \in Requests |-> IF r \in gone THEN 0 ELSE heard[r]]
    /\ pending' = [r \in Requests |-> IF r \in gone THEN "none" ELSE pend[r]]

Saw(r, e) ==
    seen' = [seen EXCEPT ![r] = IF (e = "sent") = (@ = "none") THEN e ELSE "stray"]

OnRequest(m) ==
    LET heard == [lastSeen EXCEPT ![m.id] = m.at]
        gone == Forgotten(heard, m.at)
    IN /\ Keep(announced \cup {m.id}, heard, pending, streamed, gone)
       /\ workSweep' = SweepTime(m.at)
       /\ Saw(m.id, "sent")
       /\ UNCHANGED <<cache, stream>>

\* The bytes of a dataReceived event join those the client has.
Joined(s, m) ==
    IF m.from = m.to THEN s
    ELSE IF s.on /\ m.from = s.to THEN [s EXCEPT !.to = m.to] ELSE [s EXCEPT !.gap = TRUE]

\* The worker has no bytes to keep: the main thread sends them for streamed
\* requests only.  It notes a body as cut when the chunk would not have fitted.
OnData(m) ==
    LET r == m.id
        entry == IF pending[r] = "none" THEN IF r \in streamed THEN "live" ELSE "open" ELSE pending[r]
        fits == m.size <= Preview /\ 2 * m.size <= Preview
    IN IF ~Known(r) THEN UNCHANGED <<workVars, clientVars>>
       ELSE /\ lastSeen' = [lastSeen EXCEPT ![r] = m.at]
            /\ pending' = [pending EXCEPT ![r] = IF entry = "open" /\ ~fits THEN "cut" ELSE entry]
            /\ seen' = [seen EXCEPT ![r] = IF @ = "sent" THEN @ ELSE "stray"]
            /\ stream' = IF r \in streamed THEN [stream EXCEPT ![r] = Joined(@, m)] ELSE stream
            /\ UNCHANGED <<announced, streamed, cache, workSweep>>

\* The entry of a finished body, if there is one to cache.
Entry(m) ==
    IF m.body # {} THEN {[id |-> m.id, from |-> e.from, to |-> e.to, cut |-> FALSE] : e \in m.body}
    ELSE IF pending[m.id] \in {"open", "cut"}
         THEN {[id |-> m.id, from |-> 0, to |-> 0, cut |-> pending[m.id] = "cut"]}
    ELSE {}

\* cacheResponseBody and cacheUnavailableResponseBody: the oldest entries make room.
Cached(map, e) ==
    LET enough == {k \in 0..Len(map) :
                     \/ k = Len(map)
                     \/ LET rest == SubSeq(map, k + 1, Len(map))
                        IN Len(rest) < MaxCached /\ (e.cut \/ Bytes(rest) + Size(e) <= Preview)}
        fewest == CHOOSE k \in enough : \A j \in enough : k <= j
    IN Append(SubSeq(map, fewest + 1, Len(map)), e)

OnDone(m) ==
    LET r == m.id
        heard == [lastSeen EXCEPT ![r] = 0]
        pend == [pending EXCEPT ![r] = "none"]
        gone == Forgotten(heard, m.at)
    IN /\ Keep(announced \ {r}, heard, pend, streamed \ {r}, gone)
       /\ workSweep' = SweepTime(m.at)
       /\ IF Known(r)
          THEN /\ Saw(r, "over")
               /\ IF Entry(m) = {} THEN UNCHANGED cache ELSE \E e \in Entry(m) : cache' = Cached(cache, e)
          ELSE UNCHANGED <<seen, cache>>
       /\ stream' = [stream EXCEPT ![r] = NoStream]

\* The reply of a streamResourceContent call is the start of the client's bytes.
OnReply(m) ==
    /\ stream' = IF m.id \notin streamed THEN stream
                 ELSE IF stream[m.id].on THEN [stream EXCEPT ![m.id] = Joined(@, m)]
                 ELSE [stream EXCEPT ![m.id] =
                         [on |-> TRUE, from |-> m.from, to |-> m.to, gap |-> FALSE]]
    /\ UNCHANGED <<workVars, seen>>

Receive ==
    /\ pipe # <<>> /\ pipe' = Tail(pipe)
    /\ LET m == Head(pipe)
       IN IF m.kind = "reply" THEN OnReply(m)
          ELSE IF ~enabled THEN UNCHANGED <<workVars, clientVars>>
          ELSE CASE m.kind = "request" -> OnRequest(m)
                 [] m.kind = "data" -> OnData(m)
                 [] m.kind = "done" -> OnDone(m)
    /\ UNCHANGED <<cap, now, fetch, mainVars, calls, enabled, commands>>

-----------------------------------------------------------------------------
(* NetworkDomain: the commands. *)

Commands == commands < MaxCommands /\ commands' = commands + 1

Enable ==
    /\ ~enabled /\ enabled' = TRUE
    /\ UNCHANGED <<cap, now, fetch, mainVars, pipe, calls, workVars, clientVars, commands>>

\* Network.disable, or the client leaves: clearState.
Disable ==
    /\ Commands /\ enabled /\ enabled' = FALSE
    /\ announced' = {} /\ streamed' = {} /\ cache' = <<>>
    /\ lastSeen' = [r \in Requests |-> 0]
    /\ pending' = [r \in Requests |-> "none"]
    /\ seen' = [r \in Requests |-> "none"]
    /\ stream' = [r \in Requests |-> NoStream]
    /\ UNCHANGED <<cap, now, fetch, mainVars, pipe, calls, workSweep>>

\* Network.streamResourceContent.
Ask(r) ==
    /\ Commands /\ enabled /\ Known(r)
    /\ streamed' = streamed \cup {r}
    /\ pending' = [pending EXCEPT ![r] = "none"]
    /\ calls' = Append(calls, r)
    /\ UNCHANGED <<cap, now, fetch, mainVars, pipe, enabled, announced, lastSeen, cache, workSweep, clientVars>>

Tick ==
    /\ now < MaxTime /\ now' = now + 1
    /\ UNCHANGED <<cap, fetch, mainVars, pipe, calls, enabled, workVars, clientVars, commands>>

-----------------------------------------------------------------------------
Next ==
    \/ \E r \in Requests :
         \/ Begin(r) \/ Finish(r) \/ Ask(r)
         \/ \E n \in 1..2 : Chunk(r, n)
    \/ StartStreaming \/ Receive \/ Enable \/ Disable \/ Tick

Spec == Init /\ [][Next]_vars

-----------------------------------------------------------------------------
(* Properties. *)

\* The entries of the maps, and the messages of the pipe.
Pieces == {e \in [id : Requests, from : Nat, to : Nat, at : Nat] : e.from <= e.to}
Bodies == [id : Requests, from : Nat, to : Nat, cut : BOOLEAN]
Messages ==
    [kind : {"request"}, id : Requests, at : Nat]
    \cup [kind : {"data"}, id : Requests, at : Nat, from : Nat, to : Nat, size : Nat]
    \cup [kind : {"done"}, id : Requests, at : Nat, body : SUBSET Pieces]
    \cup [kind : {"reply"}, id : Requests, from : Nat, to : Nat]

\* Every variable keeps the shape the code gives it, and no map outgrows its cap.
TypeOK ==
    /\ cap \in Caps /\ now \in Nat /\ mainSweep \in Nat /\ workSweep \in Nat /\ held \in Nat
    /\ fetch \in [Requests -> [phase : {"new", "open", "done"}, body : 0..MaxBody]]
    /\ buffers \in Seq(Pieces) /\ completed \in Seq(Pieces) /\ Len(completed) <= MaxCompleted
    /\ live \subseteq Requests /\ dropped \subseteq Requests /\ lost \subseteq Requests
    /\ registered \in [Requests -> Nat] /\ lastSeen \in [Requests -> Nat]
    /\ pipe \in Seq(Messages) /\ Len(pipe) <= MaxPipe /\ calls \in Seq(Requests)
    /\ enabled \in BOOLEAN /\ announced \subseteq Requests /\ streamed \subseteq Requests
    /\ pending \in [Requests -> {"none", "live", "open", "cut"}]
    /\ cache \in Seq(Bodies) /\ Len(cache) <= MaxCached
    /\ seen \in [Requests -> {"none", "sent", "over", "stray"}]
    /\ stream \in [Requests -> [on : BOOLEAN, from : Nat, to : Nat, gap : BOOLEAN]]
    /\ commands \in 0..MaxCommands

\* hooks.ts, ensureFetchBodyCapacity: the counter is the sum of the buffers at
\* all times and never above the cap, whatever is evicted, cut, taken or reaped.
BytesAccounted == held = Bytes(buffers) /\ held <= cap

\* In the order in which a session sees them, the events of a request begin with
\* requestWillBeSent and end with one loadingFinished or loadingFailed.
EventsFollowAnnouncement == \A r \in Requests : seen[r] # "stray"

\* The reply of streamResourceContent and the dataReceived events that follow it
\* are the body without gap or repetition, unless the main thread gave bytes up.
StreamHasNoGap ==
    \A r \in Requests \ lost : stream[r].on => stream[r].from = 0 /\ ~stream[r].gap

\* What is cached as a body is the whole body, unless the main thread gave bytes up.
Whole(e) == e.from = 0 /\ e.to = fetch[e.id].body
WholeUnlessLost ==
    \A i \in DOMAIN cache : cache[i].id \notin lost /\ ~cache[i].cut => Whole(cache[i])

\* A finished request leaves nothing on the main thread but a streaming mark of a
\* call that came late, and the reaper knows of that one.
FinishedIsReclaimable ==
    \A r \in Requests : fetch[r].phase = "done" =>
        /\ r \notin Ids(buffers) \cup Ids(completed) \cup dropped
        /\ r \in live => registered[r] # 0

\* cdp-network-domain.test.ts: an oversized body reports unavailable rather than a
\* wrong body: what getResponseBody answers is the whole body or the placeholder.
NeverAWrongBody == \A i \in DOMAIN cache : cache[i].cut \/ Whole(cache[i])
=============================================================================
