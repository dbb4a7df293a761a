-------------------------- MODULE ModuleEvaluation --------------------------
(***************************************************************************)
(* How the engine links and evaluates a graph of ES modules: the dynamic   *)
(* imports of a program, depth-first linking and evaluation with their     *)
(* cycles, modules that await at their top level, and the modules that     *)
(* wait for them (js_link_module to js_evaluate_module of quickjs.c).      *)
(*                                                                         *)
(* A frame of `frames` is a call of js_inner_module_linking or _evaluation *)
(* and a step is what such a call does for one request, so that no step is *)
(* recursive.  Nothing else runs until the call has returned: bodies that  *)
(* await settle, and imports are made, only between turns.  The modules of *)
(* the graph are loaded; a module's place on the stack stands for its      *)
(* dfs_index, which orders the modules of the stack in the same way.       *)
(***************************************************************************)
EXTENDS Naturals, Sequences, FiniteSets

CONSTANTS
    Modules,
    Graphs,      \* the request lists that are considered: functions to Seq(Modules)
    None,
    MaxImports   \* bound: dynamic imports

ASSUME ModulesAssumption == IsFiniteSet(Modules)
ASSUME GraphsAssumption == Graphs \subseteq [Modules -> Seq(Modules)]
ASSUME NoneAssumption == None \notin Modules
ASSUME ImportsAssumption == MaxImports \in Nat

VARIABLES
    req,       \* req_module_entries: what a module requests, in order
    tla,       \* has_tla: its body awaits
    bad,       \* modules of which an import or export cannot be resolved
    status, root, promise, failed,   \* cycle_root, capability, eval_has_exception
    flagged,   \* async_evaluation
    stamp,     \* async_evaluation_timestamp, 0 before it has one
    pending,   \* pending_async_dependencies
    parents,   \* async_parent_modules
    body,      \* how far the code of a module is: what the engine has called, and its outcome
    turn,      \* what the engine is doing
    entry,     \* the module js_link_module or js_evaluate_module was called with
    frames,    \* calls that have not returned, the innermost last
    stack,     \* stack_prev chain, each with its dfs_ancestor_index
    gather,    \* parents gather_available_ancestors has still to look at
    ready,     \* exec_list: the modules to execute
    imports    \* number of dynamic imports made

graph == <<req, tla, bad>>
waits == <<flagged, stamp, pending, parents>>
results == <<status, root, promise, failed, body>>
calls == <<entry, frames, stack>>
lists == <<gather, ready>>
vars == <<graph, results, waits, turn, calls, lists, imports>>

Elements(s) == {s[i] : i \in DOMAIN s}
Earlier(i, j) == IF i <= j THEN i ELSE j
Done(m) == status[m] \in {"async", "evaluated"}

Init ==
    /\ req \in Graphs /\ tla \in [Modules -> BOOLEAN]
    /\ bad \in SUBSET Modules /\ Cardinality(bad) <= 1
    /\ status = [m \in Modules |-> "unlinked"]
    /\ root = [m \in Modules |-> None]
    /\ promise = [m \in Modules |-> "none"]
    /\ failed = [m \in Modules |-> FALSE]
    /\ body = [m \in Modules |-> "new"]
    /\ flagged = [m \in Modules |-> FALSE]
    /\ stamp = [m \in Modules |-> 0]
    /\ pending = [m \in Modules |-> 0]
    /\ parents = [m \in Modules |-> <<>>]
    /\ turn = "idle" /\ entry = None /\ frames = <<>> /\ stack = <<>>
    /\ gather = <<>> /\ ready = {} /\ imports = 0

-----------------------------------------------------------------------------
(* The innermost call and the stack. *)

Frame == frames[Len(frames)]
Returned == SubSeq(frames, 1, Len(frames) - 1)
AllRequested == Frame.next > Len(req[Frame.at])
Request == req[Frame.at][Frame.next]
Advanced == [frames EXCEPT ![Len(frames)].next = @ + 1]

Place(m) == CHOOSE i \in DOMAIN stack : stack[i].of = m
OnStack == {stack[i].of : i \in DOMAIN stack}

\* The call enters a module: it is pushed, and its own call begins.
Push(m) ==
    /\ stack' = Append(stack, [of |-> m, low |-> Len(stack) + 1])
    /\ frames' = Append(frames, [at |-> m, next |-> 1])

\* The call has met a module of the stack: what is between them is one cycle.
Meet(d) ==
    stack' = [stack EXCEPT ![Place(Frame.at)].low = Earlier(@, stack[Place(d)].low)]

\* The module of the call is the first of its cycle.
Closes == stack[Place(Frame.at)].low = Place(Frame.at)
Cycle == {stack[i].of : i \in Place(Frame.at)..Len(stack)}
Popped == SubSeq(stack, 1, Place(Frame.at) - 1)

-----------------------------------------------------------------------------
(* Imports and linking. *)

\* import(): js_dynamic_import_job, up to the first call of js_inner_module_linking.
Import(m) ==
    /\ turn = "idle" /\ imports < MaxImports
    /\ imports' = imports + 1 /\ turn' = "linking" /\ entry' = m
    /\ IF status[m] = "unlinked"
       THEN Push(m) /\ status' = [status EXCEPT ![m] = "linking"]
       ELSE UNCHANGED <<frames, stack, status>>
    /\ UNCHANGED <<graph, root, promise, failed, body, waits, lists>>

LinkRequest ==
    /\ turn = "linking" /\ frames # <<>> /\ ~AllRequested
    /\ IF status[Request] = "unlinked"
       THEN Push(Request) /\ status' = [status EXCEPT ![Request] = "linking"]
       ELSE /\ frames' = Advanced /\ UNCHANGED status
            /\ IF status[Request] = "linking" THEN Meet(Request) ELSE UNCHANGED stack
    /\ UNCHANGED <<graph, root, promise, failed, body, waits, turn, entry, lists, imports>>

\* Its imports and exports are resolved, and the cycle it closes is linked.
LinkModule ==
    /\ turn = "linking" /\ frames # <<>> /\ AllRequested /\ Frame.at \notin bad
    /\ frames' = Returned
    /\ IF Closes
       THEN /\ status' = [m \in Modules |-> IF m \in Cycle THEN "linked" ELSE status[m]]
            /\ stack' = Popped
       ELSE UNCHANGED <<status, stack>>
    /\ UNCHANGED <<graph, root, promise, failed, body, waits, turn, entry, lists, imports>>

\* Faulty variant of Unlink: only the module that failed is reset.
UnlinkOne == [status EXCEPT ![Frame.at] = "unlinked"]

Unlink == [m \in Modules |-> IF m \in OnStack THEN "unlinked" ELSE status[m]]

LinkFails ==
    /\ turn = "linking" /\ frames # <<>> /\ AllRequested /\ Frame.at \in bad
    /\ status' = Unlink
    /\ frames' = <<>> /\ stack' = <<>> /\ turn' = "idle" /\ entry' = None
    /\ UNCHANGED <<graph, root, promise, failed, body, waits, lists, imports>>

-----------------------------------------------------------------------------
(* js_evaluate_module and js_inner_module_evaluation. *)

\* Faulty variant of Evaluated: the import shares the capability of the module itself.
NotItsRoot == entry

\* The module whose capability the import shares.
Evaluated == IF Done(entry) THEN root[entry] ELSE entry

\* Faulty variant of Unevaluated: only the capability is looked at.
Unimported == promise[Evaluated] = "none"

Unevaluated == promise[Evaluated] = "none" /\ ~Done(Evaluated)

\* The graph is linked.  The first import of a cycle makes its capability; a
\* module evaluated before tells the outcome at once, unless it may still come.
Evaluate ==
    /\ turn = "linking" /\ frames = <<>>
    /\ LET m == Evaluated IN
       /\ turn' = IF Unevaluated THEN "evaluating" ELSE "idle"
       /\ entry' = IF Unevaluated THEN m ELSE None
       /\ promise' = IF promise[m] # "none" THEN promise
                     ELSE [promise EXCEPT ![m] =
                             IF Done(m) /\ failed[m] THEN "rejected"
                             ELSE IF Done(m) /\ ~flagged[m] THEN "fulfilled"
                             ELSE "pending"]
       /\ IF Unevaluated
          THEN /\ Push(m) /\ status' = [status EXCEPT ![m] = "evaluating"]
               /\ pending' = [pending EXCEPT ![m] = 0]
          ELSE UNCHANGED <<frames, stack, status, pending>>
    /\ UNCHANGED <<graph, root, failed, body, flagged, stamp, parents, lists, imports>>

\* The requested module has not been evaluated: it is now.
EvaluateRequest ==
    /\ turn = "evaluating" /\ ~AllRequested /\ status[Request] = "linked"
    /\ Push(Request) /\ status' = [status EXCEPT ![Request] = "evaluating"]
    /\ pending' = [pending EXCEPT ![Request] = 0]
    /\ UNCHANGED <<graph, root, promise, failed, body, flagged, stamp, parents,
                   turn, entry, lists, imports>>

\* The module of a request that is waited for: one of the stack itself, else
\* the first of its cycle.
Awaited == IF status[Request] = "evaluating" THEN Request ELSE root[Request]

RequestFailed == Done(Request) /\ (failed[Request] \/ failed[root[Request]])

Await ==
    /\ parents' = [parents EXCEPT ![Awaited] = Append(@, Frame.at)]
    /\ pending' = [pending EXCEPT ![Frame.at] = @ + 1]

RequestEvaluated ==
    /\ turn = "evaluating" /\ ~AllRequested /\ status[Request] # "linked" /\ ~RequestFailed
    /\ frames' = Advanced
    /\ IF status[Request] = "evaluating" THEN Meet(Request) ELSE UNCHANGED stack
    /\ IF flagged[Awaited] THEN Await ELSE UNCHANGED <<parents, pending>>
    /\ UNCHANGED <<graph, results, flagged, stamp, turn, entry, lists, imports>>

\* The evaluation fails: with it all that is on the stack.
Abandon ==
    /\ status' = [m \in Modules |-> IF m \in OnStack THEN "evaluated" ELSE status[m]]
    /\ failed' = [m \in Modules |-> failed[m] \/ m \in OnStack]
    /\ root' = [m \in Modules |-> IF m \in OnStack THEN entry ELSE root[m]]
    /\ promise' = [promise EXCEPT ![entry] = "rejected"]
    /\ frames' = <<>> /\ stack' = <<>> /\ turn' = "idle" /\ entry' = None

RequestFails ==
    /\ turn = "evaluating" /\ ~AllRequested /\ RequestFailed
    /\ Abandon
    /\ UNCHANGED <<graph, body, waits, lists, imports>>

\* The call returns, with the cycle it closes; the first call ends the turn.
Return ==
    /\ IF Closes
       THEN /\ status' = [m \in Modules |-> IF m \notin Cycle THEN status[m]
                            ELSE IF flagged'[m] THEN "async" ELSE "evaluated"]
            /\ root' = [m \in Modules |-> IF m \in Cycle THEN Frame.at ELSE root[m]]
            /\ stack' = Popped
       ELSE UNCHANGED <<status, root, stack>>
    /\ frames' = Returned
    /\ IF Len(frames) = 1
       THEN /\ turn' = "idle" /\ entry' = None
            /\ promise' = IF flagged'[entry] THEN promise
                          ELSE [promise EXCEPT ![entry] = "fulfilled"]
       ELSE UNCHANGED <<turn, entry, promise>>
    /\ UNCHANGED failed

LastStamp == Cardinality({m \in Modules : stamp[m] > 0})

\* Marks a module as one that completes in a later turn.
Flag(m) ==
    /\ flagged' = [flagged EXCEPT ![m] = TRUE]
    /\ stamp' = [stamp EXCEPT ![m] = LastStamp + 1]

\* All requests are dealt with: the module waits, or its body starts to await,
Postpone ==
    /\ turn = "evaluating" /\ AllRequested
    /\ pending[Frame.at] > 0 \/ tla[Frame.at]
    /\ Flag(Frame.at)
    /\ body' = IF pending[Frame.at] > 0 THEN body ELSE [body EXCEPT ![Frame.at] = "running"]
    /\ Return
    /\ UNCHANGED <<graph, pending, parents, lists, imports>>

\* or it runs to its end,
Execute ==
    /\ turn = "evaluating" /\ AllRequested
    /\ pending[Frame.at] = 0 /\ ~tla[Frame.at]
    /\ body' = [body EXCEPT ![Frame.at] = "done"]
    /\ UNCHANGED waits
    /\ Return
    /\ UNCHANGED <<graph, lists, imports>>

\* or throws.
Throws ==
    /\ turn = "evaluating" /\ AllRequested
    /\ pending[Frame.at] = 0 /\ ~tla[Frame.at]
    /\ body' = [body EXCEPT ![Frame.at] = "threw"]
    /\ Abandon
    /\ UNCHANGED <<graph, waits, lists, imports>>

-----------------------------------------------------------------------------
(* Completion of the bodies that await. *)

\* Faulty variant of Condemned: the failure stops at the module itself.
CondemnedAlone(m) == {m}

\* js_async_module_execution_rejected, which calls itself for the parents: the
\* least set that holds m and the unfinished parents of its members.
Condemned(m) ==
    {x \in Modules :
        \A S \in SUBSET Modules :
            /\ m \in S
            /\ \A y \in S : \A p \in Elements(parents[y]) : status[p] # "evaluated" => p \in S
            => x \in S}

Reject(m) ==
    /\ status' = [x \in Modules |-> IF x \in Condemned(m) THEN "evaluated" ELSE status[x]]
    /\ failed' = [x \in Modules |-> failed[x] \/ x \in Condemned(m)]
    /\ promise' = [x \in Modules |->
                     IF x \in Condemned(m) /\ promise[x] # "none" THEN "rejected" ELSE promise[x]]

\* js_set_module_evaluated
SetEvaluated(m) ==
    /\ status' = [status EXCEPT ![m] = "evaluated"]
    /\ promise' = [promise EXCEPT ![m] = IF @ = "none" THEN @ ELSE "fulfilled"]
    /\ UNCHANGED failed

BodyThrows(m) ==
    /\ turn = "idle" /\ body[m] = "running"
    /\ body' = [body EXCEPT ![m] = "threw"]
    /\ IF status[m] = "evaluated" THEN UNCHANGED <<status, failed, promise>> ELSE Reject(m)
    /\ UNCHANGED <<graph, root, waits, turn, calls, lists, imports>>

\* js_async_module_execution_fulfilled
BodyEnds(m) ==
    /\ turn = "idle" /\ body[m] = "running"
    /\ body' = [body EXCEPT ![m] = "done"]
    /\ IF status[m] = "evaluated"
       THEN UNCHANGED <<status, failed, promise, flagged, turn, gather>>
       ELSE /\ SetEvaluated(m) /\ flagged' = [flagged EXCEPT ![m] = FALSE]
            /\ turn' = "gathering" /\ gather' = parents[m]
    /\ UNCHANGED <<graph, root, stamp, pending, parents, calls, ready, imports>>

\* gather_available_ancestors: one parent.  One that is available and does not
\* await is as good as complete, and its own parents are next.
Gather ==
    /\ turn = "gathering" /\ gather # <<>>
    /\ LET p == Head(gather) IN
       IF p \in ready \/ failed[root[p]]
       THEN gather' = Tail(gather) /\ UNCHANGED <<pending, ready>>
       ELSE /\ pending' = [pending EXCEPT ![p] = @ - 1]
            /\ IF pending[p] = 1
               THEN /\ ready' = ready \cup {p}
                    /\ gather' = IF tla[p] THEN Tail(gather) ELSE parents[p] \o Tail(gather)
               ELSE gather' = Tail(gather) /\ UNCHANGED ready
    /\ UNCHANGED <<graph, results, flagged, stamp, parents, turn, calls, imports>>

Gathered ==
    /\ turn = "gathering" /\ gather = <<>> /\ turn' = "running"
    /\ UNCHANGED <<graph, results, waits, calls, lists, imports>>

\* Faulty variant of First: the modules run in any order.
AnyOrder(m) == m \in ready

\* exec_list is sorted by the time the modules began to wait.
First(m) == m \in ready /\ \A n \in ready : stamp[m] <= stamp[n]

Run(m) ==
    /\ turn = "running" /\ First(m) /\ ready' = ready \ {m}
    /\ \/ /\ status[m] = "evaluated" /\ UNCHANGED <<status, failed, promise, body>>
       \/ /\ status[m] # "evaluated" /\ tla[m]
          /\ body' = [body EXCEPT ![m] = "running"]
          /\ UNCHANGED <<status, failed, promise>>
       \/ /\ status[m] # "evaluated" /\ ~tla[m]
          /\ body' = [body EXCEPT ![m] = "done"] /\ SetEvaluated(m)
       \/ /\ status[m] # "evaluated" /\ ~tla[m]
          /\ body' = [body EXCEPT ![m] = "threw"] /\ Reject(m)
    /\ UNCHANGED <<graph, root, waits, turn, calls, gather, imports>>

Ran ==
    /\ turn = "running" /\ ready = {} /\ turn' = "idle"
    /\ UNCHANGED <<graph, results, waits, calls, lists, imports>>

-----------------------------------------------------------------------------
Engine ==
    \/ LinkRequest \/ LinkModule \/ LinkFails \/ Evaluate
    \/ EvaluateRequest \/ RequestEvaluated \/ RequestFails
    \/ Postpone \/ Execute \/ Throws
    \/ Gather \/ Gathered \/ (\E m \in Modules : Run(m)) \/ Ran

Settle(m) == BodyThrows(m) \/ BodyEnds(m)

Next == Engine \/ \E m \in Modules : Import(m) \/ Settle(m)

Spec == Init /\ [][Next]_vars

\* The engine finishes what it does, and a body that awaits goes on in the end.
FairSpec == Spec /\ WF_vars(Engine) /\ \A m \in Modules : WF_vars(Settle(m))

-----------------------------------------------------------------------------
(* Properties. *)

TypeOK ==
    /\ req \in [Modules -> Seq(Modules)] /\ tla \in [Modules -> BOOLEAN] /\ bad \subseteq Modules
    /\ status \in [Modules -> {"unlinked", "linking", "linked", "evaluating", "async", "evaluated"}]
    /\ root \in [Modules -> Modules \cup {None}]
    /\ promise \in [Modules -> {"none", "pending", "fulfilled", "rejected"}]
    /\ failed \in [Modules -> BOOLEAN] /\ flagged \in [Modules -> BOOLEAN]
    /\ body \in [Modules -> {"new", "running", "done", "threw"}]
    /\ stamp \in [Modules -> Nat] /\ pending \in [Modules -> Nat]
    /\ parents \in [Modules -> Seq(Modules)]
    /\ turn \in {"idle", "linking", "evaluating", "gathering", "running"}
    /\ entry \in Modules \cup {None}
    /\ frames \in Seq([at : Modules, next : Nat \ {0}])
    /\ stack \in Seq([of : Modules, low : Nat \ {0}])
    /\ gather \in Seq(Modules) /\ ready \subseteq Modules /\ imports \in Nat

\* The graph of an import of m: the least set that holds m and what its members
\* request.  A cycle is in the graph of each of its modules.
Graph(m) ==
    {x \in Modules :
        \A S \in SUBSET Modules :
            m \in S /\ (\A y \in S : Elements(req[y]) \subseteq S) => x \in S}

\* A module completed as the ancestor of one that awaited: its async_evaluation
\* is never reset, so that whoever imports it later waits for ever.
LeftFlagged(m) == status[m] = "evaluated" /\ ~failed[m] /\ flagged[m]

\* The assertions of the code that speak of more than the line before: what a
\* completion finds (quickjs.c:33003-33010, 33042-33048), what it finds of the
\* parents it counts down (32959-32962) and executes (33067-33068), which modules
\* have a capability (32922), and how a turn ends (32576-32579, 33284-33308).
AssertionsHold ==
    /\ \A m \in Modules : body[m] = "running" =>
           IF status[m] = "evaluated" THEN failed[m]
           ELSE turn \in {"evaluating"} \/ (status[m] = "async" /\ ~failed[m] /\ flagged[m])
    /\ gather # <<>> =>
           LET p == Head(gather) IN
           p \in ready \/ failed[root[p]] \/
               (status[p] = "async" /\ ~failed[p] /\ flagged[p] /\ pending[p] > 0)
    /\ turn = "running" => \A m \in ready : status[m] = "evaluated" => failed[m]
    /\ \A m \in Modules : Done(m) /\ promise[m] # "none" => root[m] = m
    /\ turn = "idle" => stack = <<>> /\ \A m \in Modules : status[m] \notin {"linking", "evaluating"}

\* The body of a module starts after those of the modules it requests have
\* ended, unless they request it in turn: in whatever turn it starts, however
\* many modules it waited for.
StartsAfterItsRequests ==
    \A m \in Modules : body[m] # "new" =>
        \A d \in Elements(req[m]) : m \in Graph(d) \/ body[d] = "done"

\* What an import is told is so for the whole graph it asked for: everything ran
\* to its end, or something threw.
PromiseTellsOutcome ==
    \A m \in Modules :
        /\ promise[m] = "fulfilled" => \A d \in Graph(m) : body[d] = "done"
        /\ promise[m] = "rejected" => \E d \in Graph(m) : body[d] = "threw"

\* The code of a module runs once, however often and from where it is imported,
\* and whichever of its importers failed.
RunsOnce ==
    [][\A m \in Modules : body'[m] # body[m] =>
           body[m] = "new" \/ (body[m] = "running" /\ body'[m] # "new")]_vars

\* Every import settles, unless it meets a module left flagged.
ImportSettlesOrMeetsFlagged ==
    \A m \in Modules :
        promise[m] = "pending" ~> promise[m] # "pending" \/ \E d \in Graph(m) : LeftFlagged(d)

\* tests/cts/cli-stage.test.ts:910 "awaiting each import settles its top-level await"
AwaitedImportSettles ==
    \A m \in Modules : promise[m] = "pending" ~> promise[m] # "pending"
=============================================================================
