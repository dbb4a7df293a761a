----------------------------- MODULE TestRunner -----------------------------
(***************************************************************************)
(* `cno test` (commands/test.ts): runAll hands the test files to workers,  *)
(* runOne spawns one child per file and decides its verdict from a race of *)
(* the result pipe, the child's exit and a timeout, and settleChild reaps  *)
(* the child.  The result pipe (test-result-pipe.ts) is the child's fd 3.  *)
(*                                                                         *)
(* An event (bytes, end of file, exit, timer) is one step together with    *)
(* the continuation of the promise it resolves, which runs before the next *)
(* event.  Bytes are pieces: "part" has no newline; "pass" and "fail" end  *)
(* the first line, which then is an object saying so; "junk" ends it with  *)
(* anything else (no object, bytes after it, more than 64 MiB).            *)
(***************************************************************************)
EXTENDS Naturals, Sequences, FiniteSets

CONSTANTS
    Order,       \* the test files in the order of discovery, or shuffled
    Concurrency, \* the requested number of files at a time
    MaxPieces    \* bound: pieces all children write

Files == {Order[i] : i \in DOMAIN Order}

ASSUME OrderAssumption == Order \in Seq(Files) /\ \A i, j \in DOMAIN Order : Order[i] = Order[j] => i = j
ASSUME ConcurrencyAssumption == Concurrency \in Nat \ {0}
ASSUME PiecesAssumption == MaxPieces \in Nat
ASSUME NamesAssumption == {"free", "left"} \cap Files = {}

Workers == 1..Concurrency
Pieces == {"part", "pass", "fail", "junk"}
Says == {"pass", "fail"}

VARIABLES
    flags,    \* --fail-fast and --inspect
    queue,    \* the files runAll has not handed out
    at,       \* per worker its file, "free" between two, "left" when it returned
    run,      \* per file, runOne: where it awaits, the verdict, what wait() gave,
              \* and whether the 500 ms timer of settleChild fired
    reader,   \* per file, readTestChildResult: its message and its outcome
    child,    \* per file, the child: "none", "alive", "dead"
    holders,  \* per file, who holds the writing end of the result pipe
    pipe,     \* per file, the pieces on their way
    wrote,    \* per file, the meaning of the first line written
    pieces,   \* the number of pieces written
    results,  \* the files whose result was pushed
    exitCode  \* of the command, "none" before it ends

osVars == <<child, holders, pipe, wrote, pieces>>
vars == <<flags, queue, at, run, reader, osVars, results, exitCode>>

Init ==
    /\ flags \in [failFast : BOOLEAN, inspect : BOOLEAN]
    /\ queue = Order
    /\ at = [w \in Workers |-> "free"]
    /\ run = [f \in Files |-> [pc |-> "queued", verdict |-> "none", wait |-> "pending", struck |-> FALSE]]
    /\ reader = [f \in Files |-> [message |-> "none", outcome |-> "none"]]
    /\ child = [f \in Files |-> "none"]
    /\ holders = [f \in Files |-> {}]
    /\ pipe = [f \in Files |-> <<>>]
    /\ wrote = [f \in Files |-> "none"] /\ pieces = 0
    /\ results = {} /\ exitCode = "none"

-----------------------------------------------------------------------------
(* runOne: the race, the verdict and the finally block. *)

Settling == {"timedOut", "silent", "final"}
Running == {"noipc", "racing", "grace"} \cup Settling

\* Faulty variant of Leave: the finally block does not wait for the child.
Abandon(r, v) == [r EXCEPT !.verdict = v, !.pc = "done", !.struck = FALSE]

\* A verdict was returned or thrown: the finally block closes the reader and
\* settles the child.
Leave(r, v) ==
    [r EXCEPT !.verdict = v, !.struck = FALSE,
              !.pc = IF r.wait = "pending" THEN "final" ELSE "done"]

\* The report promise resolved, and runOne awaits it in one of its two races.
Reported(r, m, o) ==
    IF o = "closed" /\ r.pc = "racing" THEN [r EXCEPT !.pc = "silent", !.struck = FALSE]
    ELSE Leave(r, IF o = "result" THEN m ELSE IF o = "error" THEN "pipe" ELSE "exit")

\* Faulty variant of Missing: the message is not looked at again.
MissingBlind(r, m) == IF r.wait = "error" THEN "wait" ELSE "exit"

\* No report came in the grace period: the verdict is a message that waits for
\* its end of file, or that there is none.
Missing(r, m) == IF m # "none" THEN m ELSE IF r.wait = "error" THEN "wait" ELSE "exit"

\* wait() of the child settled; `r` already says how.
Waited(r) ==
    CASE r.pc = "racing" -> [r EXCEPT !.pc = "grace"]
      [] r.pc = "noipc" -> [r EXCEPT !.pc = "done", !.verdict = "spawn"]
      [] r.pc = "timedOut" -> Leave(r, "timeout")
      [] r.pc = "silent" -> Leave(r, "exit")
      [] r.pc = "final" -> [r EXCEPT !.pc = "done"]

-----------------------------------------------------------------------------
(* readTestChildResult. *)

OpenAt == {"racing", "grace", "timedOut", "silent"}
Reading(f) == run[f].pc \in OpenAt

\* `rest` of the pipe stays; nothing does once the reader is closed, and who
\* holds the other end is nobody's business.
Drain(f, rest) ==
    LET open == run'[f].pc \in OpenAt
    IN /\ pipe' = [pipe EXCEPT ![f] = IF open THEN rest ELSE <<>>]
       /\ holders' = [holders EXCEPT ![f] = IF open THEN @ ELSE {}]

\* The reader settles, or only keeps `m`; a settled reader ignores all that follows.
Keep(f, m, o) ==
    /\ reader' = [reader EXCEPT ![f] = [message |-> m, outcome |-> o]]
    /\ run' = IF o # "none" /\ run[f].pc \in {"racing", "grace"}
              THEN [run EXCEPT ![f] = Reported(@, m, o)] ELSE run

\* Faulty variant of OnLine: a later line replaces the first, be it what it may.
LastLine(m, p) == [message |-> p, outcome |-> "none"]

\* The onread handler given a piece other than "part", the reader holding `m`.
OnLine(m, p) ==
    IF m # "none" \/ p = "junk" THEN [message |-> m, outcome |-> "error"]
    ELSE [message |-> p, outcome |-> "none"]

\* A part is kept for the line it begins, but after the line it is an error.
OnPart(m) == [message |-> m, outcome |-> IF m = "none" THEN "none" ELSE "error"]

Receive(f) ==
    /\ Reading(f) /\ reader[f].outcome = "none" /\ pipe[f] # <<>>
    /\ LET m == reader[f].message
           p == Head(pipe[f])
           n == IF p = "part" THEN OnPart(m) ELSE OnLine(m, p)
       IN Keep(f, n.message, n.outcome)
    /\ Drain(f, Tail(pipe[f]))
    /\ UNCHANGED <<flags, queue, at, child, wrote, pieces, results, exitCode>>

EndOfFile(f) ==
    /\ Reading(f) /\ reader[f].outcome = "none"
    /\ pipe[f] = <<>> /\ holders[f] = {}
    /\ LET m == reader[f].message
       IN Keep(f, m, IF m = "none" THEN "closed" ELSE "result")
    /\ Drain(f, <<>>)
    /\ UNCHANGED <<flags, queue, at, child, wrote, pieces, results, exitCode>>

ReadFails(f) ==
    /\ Reading(f) /\ reader[f].outcome = "none"
    /\ Keep(f, reader[f].message, "error")
    /\ Drain(f, pipe[f])
    /\ UNCHANGED <<flags, queue, at, child, wrote, pieces, results, exitCode>>

-----------------------------------------------------------------------------
(* The timers and the exit, as runOne sees them. *)

\* The child of `f` was sent a kill.
Killed(f) == run[f].pc \in {"timedOut", "noipc"} \/ run[f].struck

Times(f) ==
    /\ run[f].pc = "racing"
    /\ run' = [run EXCEPT ![f].pc = "timedOut", ![f].struck = FALSE]
    /\ UNCHANGED <<flags, queue, at, reader, child, holders, pipe, wrote, pieces, results, exitCode>>

GraceEnds(f) ==
    /\ run[f].pc = "grace"
    /\ run' = [run EXCEPT ![f] = Leave(@, Missing(@, reader[f].message))]
    /\ Drain(f, pipe[f])
    /\ UNCHANGED <<flags, queue, at, reader, child, wrote, pieces, results, exitCode>>

\* Faulty variant of Strike: settleChild gives up instead of killing.
NoStrike(r) == r

Strike(r) == [r EXCEPT !.struck = TRUE]

\* The 500 ms of settleChild are over: the child is killed and awaited.
SettleTimer(f) ==
    /\ run[f].pc \in Settling /\ ~run[f].struck
    /\ run' = [run EXCEPT ![f] = Strike(@)]
    /\ UNCHANGED <<flags, queue, at, reader, child, holders, pipe, wrote, pieces, results, exitCode>>

\* wait() resolves, or fails, once there is no child any more.
WaitSettles(f, how) ==
    /\ run[f].pc \in Running /\ run[f].wait = "pending" /\ child[f] = "dead"
    /\ run' = [run EXCEPT ![f] = Waited([@ EXCEPT !.wait = how])]
    /\ Drain(f, pipe[f])
    /\ UNCHANGED <<flags, queue, at, reader, child, wrote, pieces, results, exitCode>>

-----------------------------------------------------------------------------
(* The child: it may write to fd 3 itself, leave it to a daemon, and end at  *)
(* any time; it ends when it is killed.  Only while its pipe is read does    *)
(* what it writes matter.                                                    *)

Write(f, p) ==
    /\ Reading(f) /\ child[f] = "alive" /\ "child" \in holders[f] /\ pieces < MaxPieces
    /\ pipe' = [pipe EXCEPT ![f] = Append(@, p)]
    /\ wrote' = [wrote EXCEPT ![f] = IF @ = "none" /\ p # "part" THEN p ELSE @]
    /\ pieces' = pieces + 1
    /\ UNCHANGED <<flags, queue, at, run, reader, child, holders, results, exitCode>>

Daemonise(f) ==
    /\ Reading(f) /\ child[f] = "alive" /\ holders[f] = {"child"}
    /\ holders' = [holders EXCEPT ![f] = @ \cup {"daemon"}]
    /\ UNCHANGED <<flags, queue, at, run, reader, child, pipe, wrote, pieces, results, exitCode>>

\* writeTestChildResult shuts the pipe down, or the daemon ends.
Release(f, who) ==
    /\ Reading(f) /\ who \in holders[f]
    /\ holders' = [holders EXCEPT ![f] = @ \ {who}]
    /\ UNCHANGED <<flags, queue, at, run, reader, child, pipe, wrote, pieces, results, exitCode>>

Die(f) ==
    /\ child[f] = "alive"
    /\ child' = [child EXCEPT ![f] = "dead"]
    /\ holders' = [holders EXCEPT ![f] = @ \ {"child"}]
    /\ UNCHANGED <<flags, queue, at, run, reader, pipe, wrote, pieces, results, exitCode>>

-----------------------------------------------------------------------------
(* runAll and its workers. *)

Serial == flags.failFast \/ flags.inspect
Width == IF Serial THEN 1 ELSE Concurrency

\* The worker shifts a file; the spawn may throw, make no pipe, or make one that
\* cannot be read, whose error wins the race before any other event.
Start(w, how) ==
    /\ w <= Width /\ at[w] = "free" /\ queue # <<>>
    /\ LET f == Head(queue)
           spawned == how # "throws"
       IN /\ at' = [at EXCEPT ![w] = f]
          /\ child' = [child EXCEPT ![f] = IF spawned THEN "alive" ELSE "none"]
          /\ holders' = [holders EXCEPT ![f] = IF how = "spawned" THEN {"child"} ELSE {}]
          /\ reader' = [reader EXCEPT ![f].outcome = IF how = "unreadable" THEN "error" ELSE "none"]
          /\ run' = [run EXCEPT ![f] =
               CASE how = "throws" -> [@ EXCEPT !.pc = "done", !.verdict = "spawn"]
                 [] how = "noipc" -> [@ EXCEPT !.pc = "noipc"]
                 [] how = "unreadable" -> Leave(@, "pipe")
                 [] OTHER -> [@ EXCEPT !.pc = "racing"]]
    /\ queue' = Tail(queue)
    /\ UNCHANGED <<flags, pipe, wrote, pieces, results, exitCode>>

Stops(f) == flags.failFast /\ run[f].verdict # "pass"

\* Faulty variant of Push: the failing result is dropped with the queue.
PushUnlessStopped(f) == results' = IF Stops(f) THEN results ELSE results \cup {f}

Push(f) == results' = results \cup {f}

\* runOne returned to its worker.
Collect(w) ==
    /\ at[w] \in Files
    /\ LET f == at[w]
       IN /\ run[f].pc = "done" /\ Push(f)
          /\ queue' = IF Stops(f) THEN <<>> ELSE queue
          /\ at' = [at EXCEPT ![w] = IF Stops(f) THEN "left" ELSE "free"]
    /\ UNCHANGED <<flags, run, reader, osVars, exitCode>>

WorkerEnds(w) ==
    /\ at[w] = "free" /\ (w > Width \/ queue = <<>>)
    /\ at' = [at EXCEPT ![w] = "left"]
    /\ UNCHANGED <<flags, queue, run, reader, osVars, results, exitCode>>

\* All workers returned: runTest counts the results.
Summarise ==
    /\ exitCode = "none" /\ \A w \in Workers : at[w] = "left"
    /\ exitCode' = IF \E f \in results : run[f].verdict # "pass" THEN "1" ELSE "0"
    /\ UNCHANGED <<flags, queue, at, run, reader, osVars, results>>

-----------------------------------------------------------------------------
Reads(f) == Receive(f) \/ EndOfFile(f) \/ ReadFails(f)
Timers(f) == Times(f) \/ GraceEnds(f) \/ SettleTimer(f)
ChildActs(f) ==
    \/ \E p \in Pieces : Write(f, p)
    \/ Daemonise(f) \/ Die(f)
    \/ \E who \in {"child", "daemon"} : Release(f, who)
Hands(w) ==
    \/ \E how \in {"throws", "noipc", "unreadable", "spawned"} : Start(w, how)
    \/ Collect(w) \/ WorkerEnds(w)

Next ==
    \/ \E f \in Files :
         \/ Reads(f) \/ Timers(f) \/ ChildActs(f)
         \/ \E how \in {"exit", "error"} : WaitSettles(f, how)
    \/ \E w \in Workers : Hands(w)
    \/ Summarise

\* Timers fire, workers go on, a child that was killed ends and its exit is
\* noticed.  Nothing makes a child end by itself, nor its bytes arrive.
Fairness ==
    /\ \A f \in Files : /\ WF_vars(Timers(f))
                        /\ WF_vars(Killed(f) /\ Die(f))
                        /\ WF_vars(WaitSettles(f, "exit"))
    /\ \A w \in Workers : WF_vars(Hands(w))
    /\ WF_vars(Summarise)

Spec == Init /\ [][Next]_vars
FairSpec == Spec /\ Fairness

-----------------------------------------------------------------------------
(* Properties. *)

\* Every variable keeps the shape the code gives it.
TypeOK ==
    /\ flags \in [failFast : BOOLEAN, inspect : BOOLEAN]
    /\ queue \in Seq(Files)
    /\ at \in [Workers -> Files \cup {"free", "left"}]
    /\ run \in [Files -> [pc : {"queued", "done"} \cup Running,
                          verdict : {"none", "pass", "fail", "pipe", "exit", "wait", "timeout", "spawn"},
                          wait : {"pending", "exit", "error"}, struck : BOOLEAN]]
    /\ reader \in [Files -> [message : {"none"} \cup Says, outcome : {"none", "result", "closed", "error"}]]
    /\ child \in [Files -> {"none", "alive", "dead"}]
    /\ holders \in [Files -> SUBSET {"child", "daemon"}]
    /\ pipe \in [Files -> Seq(Pieces)]
    /\ wrote \in [Files -> {"none"} \cup (Pieces \ {"part"})] /\ pieces \in 0..MaxPieces
    /\ results \subseteq Files /\ exitCode \in {"none", "0", "1"}

\* A file passes only if the first line its child wrote says so, whatever follows
\* it, whichever of pipe, exit and timers came first.
PassWasReported == \A f \in Files : run[f].verdict = "pass" => wrote[f] = "pass"

\* The command exits with 0 only if every file ran and its child reported a pass.
GreenMeansPassed ==
    exitCode = "0" => \A f \in Files : f \in results /\ wrote[f] = "pass"

\* Every child that is alive belongs to a worker that will reap it; after the last
\* worker none is left.  With --inspect all children listen on the same port
\* (test.ts, runTest), so no two of them live at a time.
LivingChildren == {f \in Files : child[f] = "alive"}
ChildrenAreOwned ==
    /\ \A f \in LivingChildren : \E w \in Workers : at[w] = f
    /\ flags.inspect => \A f, g \in LivingChildren : f = g

\* A file of which a report was heard is judged by that report, whatever exit,
\* failed wait or silence came with it; only the timeout, which does not look at
\* what was heard, and an error of the pipe come before it.
HeardIsBelieved ==
    \A f \in Files : reader[f].message # "none" =>
        run[f].verdict \in {"none", reader[f].message, "timeout", "pipe"}

\* `cno test` ends, whatever the children do.
RunEnds == <>(exitCode # "none")
=============================================================================
