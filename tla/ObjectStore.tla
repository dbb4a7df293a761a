----------------------------- MODULE ObjectStore -----------------------------
(***************************************************************************)
(* The objects the main thread keeps alive for the frontend                *)
(* (inspector/main/object-store.ts) and the handlers that mint, look up    *)
(* and release their ids: evaluation (evaluator.ts), properties            *)
(* (rpc-handlers.ts, remote-object.ts), the console (hooks.ts) and the     *)
(* frames of a stop (pause-controller.ts).                                 *)
(*                                                                         *)
(* An id is its number, so a Map in insertion order is a function here:    *)
(* its oldest key is the least one.  A handler that serializes several     *)
(* objects adds them one step at a time, because reading an object may run *)
(* code of the program, which may log; nothing else comes between.         *)
(***************************************************************************)
EXTENDS Naturals, FiniteSets

CONSTANTS
    MaxStore,      \* MAX_STORE_SIZE
    ClientGroups,  \* names the frontend gives in objectGroup
    MaxAnswer,     \* bound: objects of one answer, or of the frames of one stop
    MaxAwaits,     \* bound: evaluations in flight per group
    MaxIds         \* bound: ids ever minted

ASSUME StoreAssumption == MaxStore \in Nat \ {0}
ASSUME AnswerAssumption == MaxAnswer \in Nat
ASSUME AwaitsAssumption == MaxAwaits \in Nat
ASSUME IdsAssumption == MaxIds \in Nat

Groups == {"backtrace", "runtime", "console"} \cup ClientGroups

VARIABLES
    store,     \* the live ids and the group of each
    groups,    \* the groups that exist and the ids of each
    objSeq,    \* the last number given
    handler,   \* what the main thread is serializing: the group it adds to, how
               \* many objects are left, the ids so far, objSeq when it began
    awaiting,  \* per group, evaluations whose promise has not settled
    paused,    \* the main thread serves the requests of a stop
    scopes,    \* ids of the frames shown that nobody asked to release
    since      \* objSeq when these frames were begun

storeVars == <<store, groups, objSeq>>
pauseVars == <<paused, scopes, since>>
vars == <<storeVars, handler, awaiting, pauseVars>>

Live == DOMAIN store
Idle == [of |-> "none", group |-> "runtime", left |-> 0, ids |-> {}, from |-> 0]

Init ==
    /\ store = [id \in {} |-> "runtime"] /\ groups = [g \in {} |-> {}] /\ objSeq = 0
    /\ handler = Idle /\ awaiting = [g \in Groups |-> 0]
    /\ paused = FALSE /\ scopes = {} /\ since = 0

-----------------------------------------------------------------------------
(* The store. *)

NewId == objSeq + 1

Full == Cardinality(Live) >= MaxStore

\* Faulty variant of Oldest: the last one in.
Newest == CHOOSE id \in Live : \A other \in Live : other <= id

\* The id evictOldest releases.
Oldest == CHOOSE id \in Live : \A other \in Live : id <= other

\* Faulty variant of GroupsWithout: the emptied groups linger.
GroupsEmptied(ids) == [g \in DOMAIN groups |-> groups[g] \ ids]

\* The groups once ids are released: those left empty are dropped.
GroupsWithout(ids) ==
    [g \in {g \in DOMAIN groups : ~(groups[g] \subseteq ids)} |-> groups[g] \ ids]

\* release, of ids that may be stale.
Release(ids) ==
    /\ store' = [id \in Live \ ids |-> store[id]]
    /\ groups' = GroupsWithout(ids \cap Live)
    /\ UNCHANGED objSeq

ReleaseGroup(g) ==
    /\ store' = IF g \in DOMAIN groups THEN [id \in Live \ groups[g] |-> store[id]] ELSE store
    /\ groups' = [h \in DOMAIN groups \ {g} |-> groups[h]]
    /\ UNCHANGED objSeq

Evicted == IF Full THEN {Oldest} ELSE {}

Add(g) ==
    LET left == GroupsWithout(Evicted)
    IN  /\ objSeq' = objSeq + 1
        /\ store' = [id \in (Live \ Evicted) \cup {NewId} |-> IF id = NewId THEN g ELSE store[id]]
        /\ groups' = [h \in DOMAIN left \cup {g} |->
                        (IF h \in DOMAIN left THEN left[h] ELSE {})
                          \cup (IF h = g THEN {NewId} ELSE {})]

-----------------------------------------------------------------------------
(* What the main thread serializes. *)

\* A handler begins to serialize n objects into group g.
Begin(of, g, n) ==
    /\ handler = Idle /\ objSeq + n <= MaxIds
    /\ handler' = [of |-> of, group |-> g, left |-> n, ids |-> {}, from |-> objSeq]

Serialize ==
    /\ handler.left > 0 /\ Add(handler.group)
    /\ handler' = [handler EXCEPT !.left = @ - 1, !.ids = @ \cup {NewId}]
    /\ UNCHANGED <<awaiting, pauseVars>>

Reply ==
    /\ handler.of = "answer" /\ handler.left = 0 /\ handler' = Idle
    /\ UNCHANGED <<storeVars, awaiting, pauseVars>>

\* console.*, called by the program, by an expression or by a getter that is
\* read while a handler serializes; one step per argument that is an object.
Log ==
    /\ objSeq + handler.left < MaxIds /\ Add("console")
    /\ UNCHANGED <<handler, awaiting, pauseVars>>

\* evaluate, callFunctionOn, awaitPromise, runScript: the group is the one
\* given, the one of the object, or the default, chosen before the await.
Evaluate(g) ==
    /\ handler = Idle /\ ~paused /\ awaiting[g] < MaxAwaits
    /\ awaiting' = [awaiting EXCEPT ![g] = @ + 1]
    /\ UNCHANGED <<storeVars, handler, pauseVars>>

\* Its promise settled with a primitive, or with an object that goes to its
\* group, or it threw and the error goes to "runtime".
Settle(g) ==
    /\ handler = Idle /\ ~paused /\ awaiting[g] > 0
    /\ awaiting' = [awaiting EXCEPT ![g] = @ - 1]
    /\ \/ UNCHANGED handler
       \/ \E h \in {g, "runtime"} : Begin("answer", h, 1)
    /\ UNCHANGED <<storeVars, pauseVars>>

\* evaluateSync, callFunctionOnSync: answered while the program is stopped.
EvaluateSync(g) ==
    /\ paused /\ Begin("answer", g, 1)
    /\ UNCHANGED <<storeVars, awaiting, pauseVars>>

\* queryObjects serializes an empty array, running or stopped.
QueryObjects(g) ==
    /\ Begin("answer", g, 1) /\ UNCHANGED <<storeVars, awaiting, pauseVars>>

\* getProperties of a live id: at most two objects per property, and the
\* prototype, in the group of the object; a stale id has no properties.
GetProperties(id) ==
    /\ \E n \in 0..MaxAnswer :
         Begin("answer", IF id \in Live THEN store[id] ELSE "runtime", IF id \in Live THEN n ELSE 0)
    /\ UNCHANGED <<storeVars, awaiting, pauseVars>>

ReleaseObject(id) ==
    /\ handler = Idle /\ Release({id})
    /\ scopes' = scopes \ {id}
    /\ UNCHANGED <<handler, awaiting, paused, since>>

\* releaseObjectGroup, and the end of the session for "backtrace".
ReleaseObjectGroup(g) ==
    /\ handler = Idle /\ ReleaseGroup(g)
    /\ scopes' = IF g \in DOMAIN groups THEN scopes \ groups[g] ELSE scopes
    /\ UNCHANGED <<handler, awaiting, paused, since>>

-----------------------------------------------------------------------------
(* A stop. *)

\* onBreak releases the frames of the last stop and begins to build the new
\* ones: a local, a global, perhaps a closure scope and a `this` per frame.
Break ==
    /\ ~paused /\ ReleaseGroup("backtrace")
    /\ \E n \in 2..MaxAnswer : Begin("break", "backtrace", n)
    /\ UNCHANGED <<awaiting, pauseVars>>

\* No user frame, or the event was dropped: the program goes on and the
\* objects stay.
NotShown ==
    /\ handler.of = "break" /\ handler.left = 0 /\ handler' = Idle
    /\ UNCHANGED <<storeVars, awaiting, pauseVars>>

Shown ==
    /\ handler.of = "break" /\ handler.left = 0 /\ handler' = Idle
    /\ paused' = TRUE /\ scopes' = handler.ids /\ since' = handler.from
    /\ UNCHANGED <<storeVars, awaiting>>

\* serviceWhilePaused returns; what is released was asked for before.
Resume ==
    /\ paused /\ handler = Idle
    /\ paused' = FALSE /\ scopes' = {} /\ since' = 0
    /\ UNCHANGED <<storeVars, handler, awaiting>>

Next ==
    \/ Serialize \/ Reply \/ Log \/ Break \/ NotShown \/ Shown \/ Resume
    \/ \E g \in Groups : Evaluate(g) \/ Settle(g) \/ EvaluateSync(g)
                           \/ QueryObjects(g) \/ ReleaseObjectGroup(g)
    \/ \E id \in 1..MaxIds : GetProperties(id) \/ ReleaseObject(id)

Spec == Init /\ [][Next]_vars

-----------------------------------------------------------------------------

\* The shape of every variable, and no id beyond the last number given.
TypeOK ==
    /\ objSeq \in Nat
    /\ Live \subseteq 1..objSeq /\ store \in [Live -> Groups]
    /\ DOMAIN groups \subseteq Groups /\ groups \in [DOMAIN groups -> SUBSET (1..objSeq)]
    /\ handler \in [of : {"none", "answer", "break"}, group : Groups, left : 0..MaxAnswer \cup {1},
                    ids : SUBSET (1..objSeq), from : 0..objSeq]
    /\ awaiting \in [Groups -> 0..MaxAwaits]
    /\ paused \in BOOLEAN /\ scopes \in SUBSET (1..objSeq) /\ since \in 0..objSeq

\* "group membership must match the store exactly", with no emptied group left
\* (cdp-lifetime.test.ts:97, :39), whatever is added, evicted or released: the
\* two maps of ObjectStore are updated apart, at every call.
GroupsMatch ==
    /\ DOMAIN groups = {store[id] : id \in Live}
    /\ \A g \in DOMAIN groups : groups[g] = {id \in Live : store[id] = g}

\* The store never holds more than its cap (add evicts before it inserts).
StoreBounded == Cardinality(Live) <= MaxStore

\* Eviction takes the oldest first, so it spares an answer under construction:
\* while at most MaxStore ids were minted since it began, every id it hands out
\* resolves, and so does every scope of the stop shown that nobody released.
RecentResolve ==
    /\ objSeq - handler.from <= MaxStore => handler.ids \subseteq Live
    /\ objSeq - since <= MaxStore => scopes \subseteq Live

\* An id that was released or evicted never resolves again, so a frontend that
\* kept it can only be told that it is gone, never shown another object.
StaleStaysStale == [][\A id \in 1..objSeq : id \notin Live => id \notin DOMAIN store']_vars
=============================================================================
