--------------------------- MODULE InspectorBridge ---------------------------
(***************************************************************************)
(* The bridge through which node:inspector opens and closes the inspector  *)
(* (inspector/bridge.ts) and the kernel session that owns both             *)
(* (openKernelRuntime in kernel.ts).                                       *)
(*                                                                         *)
(* An Inspector object is attached once here, and goes through the states  *)
(* InspectorLife gives it.  Continuations of promises are steps of their   *)
(* own; a macrotask (a worker message, a timer) waits for all of them,     *)
(* while calls of the API may come between any two.                        *)
(***************************************************************************)
EXTENDS Naturals, FiniteSets

CONSTANTS
    MaxInspectors,  \* bound: Inspector objects
    MaxCloses,      \* bound: closing promises
    Openers         \* the calls of open, waitForConnection, waitForDebugger

ASSUME InspectorsAssumption == MaxInspectors \in Nat \ {0}
ASSUME ClosesAssumption == MaxCloses \in Nat

Inspectors == 1..MaxInspectors

VARIABLES
    life,      \* per Inspector, its state; "new" before it exists
    current,   \* the inspector of the kernel session, 0 for null
    opening,   \* the opening promise: what it awaits, its number and its Inspector
    closing,   \* the closing promise: what it awaits, its number, and the
               \* Inspector and the opening promise it captured (0 for none)
    opener,    \* per call of ensureOpen, what it awaits or how it was settled
    disposed,
    kernel,    \* KernelRuntime: "open", "disposing" and "closed"
    awaited,   \* the closing promise close() of the kernel awaits, 0 for none
    finished,
    exitable   \* Inspectors whose pipe does not keep the process alive

bridgeVars == <<current, opening, closing, disposed>>
kernelVars == <<kernel, awaited, finished>>
allVars == <<life, bridgeVars, opener, kernelVars, exitable>>

Live == {i \in Inspectors : life[i] \in {"attaching", "active"}}
IsOver(i) == IF i = 0 THEN TRUE ELSE life[i] = "idle"
Free == {i \in Inspectors : life[i] = "new"}

\* The session starts with the Inspector of --inspect, attached, or with none.
BridgeInit ==
    /\ current \in {0, 1}
    /\ life = [i \in Inspectors |-> IF i = current THEN "active" ELSE "new"]
    /\ opening = [at |-> "none", number |-> 0, of |-> 0]
    /\ closing = [at |-> "none", number |-> 0, of |-> 0, pending |-> 0]
    /\ opener = [w \in Openers |-> "free"]
    /\ disposed = FALSE /\ kernel = "open" /\ awaited = 0
    /\ finished = FALSE /\ exitable = {}

-----------------------------------------------------------------------------
(* ensureOpen. *)

\* Faulty variant of HasUrl: every open makes an Inspector of its own.
NoUrl == FALSE

\* inspectorUrl of the current Inspector.
HasUrl == current # 0 /\ life[current] = "active"

\* Past the wait for a closing promise: the call fails, shares the opening
\* promise, finds an Inspector, or starts to open one.
Enter(w) ==
    IF disposed THEN opener' = [opener EXCEPT ![w] = "failed"] /\ UNCHANGED opening
    ELSE IF opening.at = "none" /\ HasUrl THEN opener' = [opener EXCEPT ![w] = "ok"] /\ UNCHANGED opening
    ELSE /\ opener' = [opener EXCEPT ![w] = "opening"]
         /\ opening' = IF opening.at # "none" THEN opening
                       ELSE [at |-> "loading", number |-> opening.number + 1, of |-> 0]

Open(w) ==
    /\ opener[w] = "free"
    /\ IF ~disposed /\ closing.at # "none"
       THEN opener' = [opener EXCEPT ![w] = "closing"] /\ UNCHANGED opening
       ELSE Enter(w)
    /\ UNCHANGED <<life, current, closing, disposed, kernelVars, exitable>>

OpenResumes(w) ==
    /\ opener[w] = "resumed" /\ Enter(w)
    /\ UNCHANGED <<life, current, closing, disposed, kernelVars, exitable>>

-----------------------------------------------------------------------------
(* The opening promise. *)

\* Faulty variant of Cancelled: only a disposed bridge gives the opening up.
OnlyDisposed == disposed

\* Faulty variant of Cancelled: a disposed bridge is told by its closing promise.
OnlyClosing == closing.at # "none"

Cancelled == disposed \/ closing.at # "none"

\* The inspector tree could not be loaded.
LoadFails ==
    /\ opening.at = "loading" /\ opening' = [opening EXCEPT !.at = "failed"]
    /\ UNCHANGED <<life, current, closing, disposed, opener, kernelVars, exitable>>

\* It is loaded: unless a close came first, an Inspector is made, published and
\* attached; attach may throw at once.
Loaded ==
    /\ opening.at = "loading"
    /\ IF Cancelled
       THEN opening' = [opening EXCEPT !.at = "failed"] /\ UNCHANGED <<life, current>>
       ELSE \E i \in Free, state \in {"attaching", "idle"} :
              /\ \A j \in Free : i <= j
              /\ life' = [life EXCEPT ![i] = state] /\ current' = i
              /\ opening' = [opening EXCEPT !.at = "attaching", !.of = i]
    /\ UNCHANGED <<closing, disposed, opener, kernelVars, exitable>>

\* detach of i: what it does to the Inspector; it settles when that is idle.
Detached(i) == IF i \in Live THEN [life EXCEPT ![i] = "stopping"] ELSE life

\* onOpen of the kernel.
OnOpen(i) == IF finished /\ life[i] # "idle" THEN exitable \cup {i} ELSE exitable

\* attach has settled: the opening succeeds, or its Inspector is detached.
\* An attach that succeeded left its session active until now.
AttachSettles ==
    LET i == opening.of IN
    /\ opening.at = "attaching" /\ life[i] # "attaching"
    /\ IF life[i] = "active" /\ ~Cancelled /\ current = i
       THEN /\ opening' = [opening EXCEPT !.at = "ok"]
            /\ exitable' = OnOpen(i) /\ UNCHANGED life
       ELSE /\ opening' = [opening EXCEPT !.at = "detaching"]
            /\ life' = Detached(i) /\ UNCHANGED exitable
    /\ UNCHANGED <<current, closing, disposed, opener, kernelVars>>

\* publish(null), for the Inspector that was published.
Unpublish(i) == IF current = i THEN 0 ELSE current

CleanupSettles ==
    /\ opening.at = "detaching" /\ IsOver(opening.of)
    /\ opening' = [opening EXCEPT !.at = "failed"] /\ current' = Unpublish(opening.of)
    /\ UNCHANGED <<life, closing, disposed, opener, kernelVars, exitable>>

\* What the calls that share the opening promise get.
Outcome == opening.at

\* The promise settles, with the calls that share it.
OpeningSettles ==
    /\ opening.at \in {"ok", "failed"}
    /\ opener' = [w \in Openers |-> IF opener[w] = "opening" THEN Outcome ELSE opener[w]]
    /\ opening' = [opening EXCEPT !.at = "none", !.of = 0]
    /\ UNCHANGED <<life, current, closing, disposed, kernelVars, exitable>>

-----------------------------------------------------------------------------
(* close and dispose. *)

\* The opening promise close captures.
PendingOpening == IF opening.at = "none" THEN 0 ELSE opening.number

\* What close does when it has something to close.
BeginClose ==
    IF closing.at # "none" \/ (current = 0 /\ opening.at = "none")
    THEN UNCHANGED <<closing, life>>
    ELSE /\ closing.number < MaxCloses
         /\ closing' = [at |-> "detaching", number |-> closing.number + 1, of |-> current, pending |-> PendingOpening]
         /\ life' = IF current = 0 THEN life ELSE Detached(current)

Close ==
    /\ closing.at = "none" /\ BeginClose
    /\ UNCHANGED <<current, opening, disposed, opener, kernelVars, exitable>>

DetachSettles ==
    /\ closing.at = "detaching" /\ IsOver(closing.of)
    /\ closing' = [closing EXCEPT !.at = "pending"]
    /\ UNCHANGED <<life, current, opening, disposed, opener, kernelVars, exitable>>

\* Faulty variant of Ended: only a later opening tells that this one settled.
Replaced(number) == opening.number # number

\* The captured opening promise has settled.
Ended(number) == opening.at = "none" \/ opening.number # number

PendingSettles ==
    /\ closing.at = "pending" /\ Ended(closing.pending)
    /\ closing' = [closing EXCEPT !.at = "ended"] /\ current' = Unpublish(closing.of)
    /\ UNCHANGED <<life, opening, disposed, opener, kernelVars, exitable>>

Resumed == [w \in Openers |-> IF opener[w] = "closing" THEN "resumed" ELSE opener[w]]

\* The promise settles, and the opens that waited for it go on.
ClosingSettles ==
    /\ closing.at = "ended" /\ closing' = [closing EXCEPT !.at = "none"]
    /\ opener' = Resumed
    /\ UNCHANGED <<life, current, opening, disposed, kernelVars, exitable>>

-----------------------------------------------------------------------------
(* The kernel session. *)

\* allowProcessExit of the current Inspector, which has a worker unless it is idle.
AllowExit == IF current # 0 /\ life[current] # "idle" THEN exitable \cup {current} ELSE exitable

\* finish: the entry module has been evaluated.
Finish ==
    /\ kernel = "open" /\ ~finished /\ finished' = TRUE
    /\ exitable' = AllowExit
    /\ UNCHANGED <<life, bridgeVars, opener, kernel, awaited>>

\* close of the kernel: the bridge is disposed.
KernelClose ==
    /\ kernel = "open" /\ kernel' = "disposing" /\ disposed' = TRUE
    /\ BeginClose
    /\ awaited' = IF closing'.at = "none" THEN 0 ELSE closing'.number
    /\ UNCHANGED <<current, opening, opener, finished, exitable>>

\* The dispose promise has settled: the runtime is cleaned up.
KernelSettles ==
    /\ kernel = "disposing" /\ (awaited = 0 \/ closing.at = "none" \/ closing.number # awaited)
    /\ kernel' = "closed"
    /\ UNCHANGED <<life, bridgeVars, opener, awaited, finished, exitable>>

-----------------------------------------------------------------------------
(* The sessions of the Inspectors, as InspectorLife has them. *)

\* No continuation is ready to run.
BridgeTurn ==
    /\ ~(opening.at = "attaching" /\ life[opening.of] # "attaching")
    /\ ~(opening.at = "detaching" /\ IsOver(opening.of))
    /\ opening.at \notin {"ok", "failed"}
    /\ ~(closing.at = "detaching" /\ IsOver(closing.of))
    /\ ~(closing.at = "pending" /\ Ended(closing.pending))
    /\ closing.at # "ended"
    /\ \A w \in Openers : opener[w] # "resumed"

Moves(i, from, to) ==
    /\ BridgeTurn /\ life[i] \in from /\ life' = [life EXCEPT ![i] = to]
    /\ UNCHANGED <<bridgeVars, opener, kernelVars, exitable>>

\* The worker is ready, and attach ends.
Ready(i) == Moves(i, {"attaching"}, "active")

\* The worker failed, or the readiness timer fired.
Fails(i) == Moves(i, {"attaching", "active"}, "stopping")

\* The worker's thread has ended.
Exits(i) == Moves(i, {"attaching", "active", "stopping"}, "idle")

-----------------------------------------------------------------------------
Opening == LoadFails \/ Loaded \/ AttachSettles \/ CleanupSettles \/ OpeningSettles
Closing == DetachSettles \/ PendingSettles \/ ClosingSettles

BridgeNext ==
    \/ \E w \in Openers : Open(w) \/ OpenResumes(w)
    \/ Opening \/ Close \/ Closing
    \/ Finish \/ KernelClose \/ KernelSettles
    \/ \E i \in Inspectors : Ready(i) \/ Fails(i) \/ Exits(i)

\* Promises settle, modules load, an attach that is not ready in time fails, and
\* a worker that was told to stop does.
BridgeFairness ==
    /\ WF_allVars(Opening) /\ WF_allVars(Closing) /\ WF_allVars(KernelSettles)
    /\ \A w \in Openers : WF_allVars(OpenResumes(w))
    /\ \A i \in Inspectors : WF_allVars(life[i] = "attaching" /\ Fails(i))
                             /\ WF_allVars(life[i] = "stopping" /\ Exits(i))

BridgeSpec == BridgeInit /\ [][BridgeNext]_allVars
BridgeFairSpec == BridgeSpec /\ BridgeFairness

-----------------------------------------------------------------------------
(* Properties. *)

\* Every variable keeps the shape the code gives it.
BridgeTypeOK ==
    /\ life \in [Inspectors -> {"new", "attaching", "active", "stopping", "idle"}]
    /\ current \in 0..MaxInspectors
    /\ opening \in [at : {"none", "loading", "attaching", "detaching", "ok", "failed"},
                    number : Nat, of : 0..MaxInspectors]
    /\ closing \in [at : {"none", "detaching", "pending", "ended"},
                    number : 0..MaxCloses, of : 0..MaxInspectors, pending : Nat]
    /\ opener \in [Openers -> {"free", "closing", "resumed", "opening", "ok", "failed"}]
    /\ disposed \in BOOLEAN
    /\ kernel \in {"open", "disposing", "closed"} /\ awaited \in 0..MaxCloses
    /\ finished \in BOOLEAN /\ exitable \subseteq Inspectors

\* An Inspector that attaches or is active is the current one, so there is never
\* a second, and close and the init hook always find it.
LiveIsCurrent == Live \subseteq {current}

\* bridge.ts: an opening that a close overtook publishes nothing that stays: when
\* a close settles, nothing is live.
CloseLeavesNothing == [][closing.at = "ended" /\ closing'.at = "none" => Live' = {}]_allVars

\* docs/inspector.md: terminal dispose prevents new opens; the runtime is cleaned
\* up under no live Inspector, and none appears later.
ClosedForGood == kernel = "closed" => Live = {}

\* docs/inspector.md: after finish, the Inspector of the session does not keep
\* the process alive, be it opened before finish or after it.
FinishedMayExit ==
    finished /\ HasUrl /\ opening.at # "attaching" => current \in exitable

\* Every open is settled, and so is every close: none of them waits for another
\* in a circle.
PromisesSettle ==
    /\ \A w \in Openers : opener[w] \in {"closing", "resumed", "opening"} ~> opener[w] \in {"ok", "failed"}
    /\ closing.at # "none" ~> closing.at = "none"
    /\ kernel = "disposing" ~> kernel = "closed"
=============================================================================
