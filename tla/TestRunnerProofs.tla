-------------------------- MODULE TestRunnerProofs --------------------------
(***************************************************************************)
(* Proofs about `cno test`.  The invariant has a part per file, which the  *)
(* steps of that file keep, and a part of the workers and the queue, which *)
(* the steps of a file leave alone because a file that is done stays so.   *)
(***************************************************************************)
EXTENDS TestRunner, TLAPS

-----------------------------------------------------------------------------
(* Types. *)

Points == {"queued", "done"} \cup Running
Verdicts == {"none", "pass", "fail", "pipe", "exit", "wait", "timeout", "spawn"}
Runs == [pc : Points, verdict : Verdicts, wait : {"pending", "exit", "error"}, struck : BOOLEAN]
Readers == [message : {"none"} \cup Says, outcome : {"none", "result", "closed", "error"}]

\* What the workers share, and what belongs to a file.
SharedOK ==
    /\ flags \in [failFast : BOOLEAN, inspect : BOOLEAN]
    /\ queue \in Seq(Files)
    /\ at \in [Workers -> Files \cup {"free", "left"}]
    /\ results \subseteq Files /\ exitCode \in {"none", "0", "1"}
RunsOK == run \in [Files -> Runs] /\ reader \in [Files -> Readers]
OsOK ==
    /\ child \in [Files -> {"none", "alive", "dead"}]
    /\ holders \in [Files -> SUBSET {"child", "daemon"}]
    /\ pipe \in [Files -> Seq(Pieces)]
    /\ wrote \in [Files -> {"none"} \cup (Pieces \ {"part"})] /\ pieces \in 0..MaxPieces

LEMMA Groups == /\ TypeOK <=> SharedOK /\ RunsOK /\ OsOK
                /\ (TypeOK <=> SharedOK /\ RunsOK /\ OsOK)'
  BY DEF TypeOK, SharedOK, RunsOK, OsOK, Runs, Points, Verdicts, Readers

-----------------------------------------------------------------------------
(* The invariant of one file. *)

\* The first line among some pieces says `w`, or there is no line.
FirstOf(s, w) ==
    \/ w = "none" /\ \A i \in DOMAIN s : s[i] = "part"
    \/ \E i \in DOMAIN s : s[i] # "part" /\ w = s[i] /\ \A j \in 1..(i-1) : s[j] = "part"

\* What the reader holds is the first line; until it holds one, the first line is
\* on its way or has not been written.
FirstLine(f) ==
    /\ reader[f].message # "none" => wrote[f] = reader[f].message
    /\ Reading(f) /\ reader[f].outcome = "none" /\ reader[f].message = "none" =>
         FirstOf(pipe[f], wrote[f])

\* The verdict is given when the finally block begins, or by a spawn that failed.
VerdictEnds(f) == run[f].verdict # "none" <=> run[f].pc \in {"final", "done"}

\* No child is left by a wait that settled, nor by a file that is done; the grace
\* period begins with such a wait.
Reaped(f) ==
    /\ run[f].wait # "pending" => child[f] = "dead"
    /\ run[f].pc = "grace" => run[f].wait # "pending"
    /\ run[f].pc = "done" => child[f] # "alive"

\* A file whose pipe ended without a line, or was never made, has heard nothing.
SilentHeardNothing(f) ==
    /\ run[f].pc = "silent" => reader[f].message = "none" /\ reader[f].outcome = "closed"
    /\ run[f].pc = "noipc" => reader[f].message = "none"

\* Before it is handed out a file has no child and no pipe.
Fresh(f) ==
    /\ run[f] = [pc |-> "queued", verdict |-> "none", wait |-> "pending", struck |-> FALSE]
    /\ reader[f] = [message |-> "none", outcome |-> "none"]
    /\ child[f] = "none" /\ pipe[f] = <<>> /\ wrote[f] = "none"

PassSaid(f) == run[f].verdict = "pass" => wrote[f] = "pass"
Believed(f) ==
    reader[f].message # "none" => run[f].verdict \in {"none", reader[f].message, "timeout", "pipe"}

FileInv(f) ==
    /\ FirstLine(f) /\ VerdictEnds(f) /\ Reaped(f) /\ SilentHeardNothing(f)
    /\ (run[f].pc = "queued" => Fresh(f))
    /\ PassSaid(f) /\ Believed(f)

\* What a step of file `f` may do to it, and that it does nothing to another.
Moves(f) ==
    \/ Reads(f) \/ Timers(f) \/ ChildActs(f)
    \/ \E how \in {"exit", "error"} : WaitSettles(f, how)

Untouched(g) ==
    /\ run'[g] = run[g] /\ reader'[g] = reader[g] /\ child'[g] = child[g]
    /\ pipe'[g] = pipe[g] /\ wrote'[g] = wrote[g]

\* A file that is queued or done stays as it is, but for the death of its child,
\* and no child comes to life.
Within(f) ==
    /\ run[f].pc = "queued" => Untouched(f)
    /\ run'[f].pc = "queued" => run[f].pc = "queued"
    /\ run[f].pc = "done" => run'[f] = run[f] /\ wrote'[f] = wrote[f]
    /\ child'[f] = "alive" => child[f] = "alive"

OneFile(f) ==
    /\ \A g \in Files \ {f} : Untouched(g)
    /\ Within(f)
    /\ UNCHANGED <<flags, queue, at, results, exitCode>>

LEMMA UntouchedKeeps ==
    ASSUME NEW g \in Files, FileInv(g), Untouched(g)
    PROVE  FileInv(g)'
  BY DEF FileInv, Untouched, FirstLine, FirstOf, VerdictEnds, Reaped, SilentHeardNothing, Fresh, PassSaid, Believed, Reading

-----------------------------------------------------------------------------
(* The steps of a file. *)

\* Where a verdict leads.
LEMMA LeaveIs ==
    ASSUME NEW r \in Runs, NEW v \in Verdicts
    PROVE  /\ Leave(r, v) \in Runs
           /\ Leave(r, v).verdict = v /\ Leave(r, v).wait = r.wait
           /\ Leave(r, v).pc = IF r.wait = "pending" THEN "final" ELSE "done"
           /\ Leave(r, v).pc \notin OpenAt
  BY DEF Leave, Runs, Points, Running, Settling, OpenAt

\* A report that closes the pipe leaves the file silent or gives it a verdict.
LEMMA ReportedIs ==
    ASSUME NEW r \in Runs, NEW m \in {"none"} \cup Says, NEW o \in {"result", "closed", "error"},
           o = "result" => m # "none", NEW n, n = Reported(r, m, o)
    PROVE  /\ n \in Runs /\ n.wait = r.wait
           /\ \/ n.pc = "silent" /\ n.verdict = r.verdict /\ o = "closed" /\ r.pc = "racing"
              \/ /\ n.pc = IF r.wait = "pending" THEN "final" ELSE "done"
                 /\ \/ o = "result" /\ n.verdict = m
                    \/ o = "error" /\ n.verdict = "pipe"
                    \/ o = "closed" /\ n.verdict = "exit"
  <1>1. CASE o = "closed" /\ r.pc = "racing"
    BY <1>1 DEF Reported, Runs, Points, Running, Settling
  <1>2. CASE ~(o = "closed" /\ r.pc = "racing")
    <2>1. PICK v \in Verdicts : v = IF o = "result" THEN m ELSE IF o = "error" THEN "pipe" ELSE "exit"
      BY DEF Verdicts, Says
    <2>2. n = Leave(r, v)
      BY <1>2, <2>1 DEF Reported
    <2>3. n \in Runs /\ n.verdict = v /\ n.wait = r.wait /\ n.pc = IF r.wait = "pending" THEN "final" ELSE "done"
      BY <2>2, LeaveIs
    <2> QED BY <2>1, <2>3
  <1> QED BY <1>1, <1>2

\* The reader of a file settled, or keeps a message, and the file goes on with it.
LEMMA KeepMoves ==
    ASSUME RunsOK, NEW f \in Files, FileInv(f), Reading(f), reader[f].outcome = "none",
           NEW m \in {"none"} \cup Says, NEW o \in {"none", "result", "closed", "error"},
           Keep(f, m, o), UNCHANGED <<child, wrote>>,
           o = "result" => m # "none", o = "closed" => m = "none", m # "none" => wrote[f] = m
    PROVE  /\ RunsOK' /\ \A g \in Files \ {f} : run'[g] = run[g] /\ reader'[g] = reader[g]
           /\ VerdictEnds(f)' /\ Reaped(f)' /\ SilentHeardNothing(f)' /\ PassSaid(f)' /\ Believed(f)'
           /\ run'[f].pc # "queued"
           /\ reader'[f] = [message |-> m, outcome |-> o]
           /\ Reading(f)' /\ o = "none" => run' = run
  <1>1. RunsOK /\ run[f] \in Runs /\ reader[f] \in Readers
    BY DEF RunsOK
  <1>2. reader' = [reader EXCEPT ![f] = [message |-> m, outcome |-> o]] /\ [message |-> m, outcome |-> o] \in Readers
    BY DEF Keep, Readers
  <1>3. reader' \in [Files -> Readers] /\ reader'[f] = [message |-> m, outcome |-> o]
    BY <1>1, <1>2 DEF RunsOK
  <1>4. \A g \in Files \ {f} : reader'[g] = reader[g]
    BY <1>1, <1>2 DEF RunsOK
  <1>5. run[f].pc \in OpenAt /\ run[f].verdict = "none"
    BY <1>1 DEF FileInv, VerdictEnds, Reading, OpenAt, Runs
  <1>6. CASE o # "none" /\ run[f].pc \in {"racing", "grace"}
    <2>1. PICK n : n = Reported(run[f], m, o)
      OBVIOUS
    <2>2. /\ n \in Runs /\ n.wait = run[f].wait
          /\ \/ n.pc = "silent" /\ n.verdict = run[f].verdict /\ o = "closed" /\ run[f].pc = "racing"
             \/ /\ n.pc = IF run[f].wait = "pending" THEN "final" ELSE "done"
                /\ \/ o = "result" /\ n.verdict = m
                   \/ o = "error" /\ n.verdict = "pipe"
                   \/ o = "closed" /\ n.verdict = "exit"
      <3>1. o \in {"result", "closed", "error"} /\ run[f] \in Runs
        BY <1>1, <1>6
      <3> QED BY <3>1, <2>1, ReportedIs
    <2>3. run' = [run EXCEPT ![f] = n]
      BY <1>6, <2>1 DEF Keep
    <2>4. run' \in [Files -> Runs] /\ run'[f] = n /\ \A g \in Files \ {f} : run'[g] = run[g]
      BY <1>1, <2>2, <2>3 DEF RunsOK
    <2>5. run'[f].pc \notin OpenAt \/ o # "none"
      BY <1>6
    <2>6. VerdictEnds(f)' /\ Reaped(f)' /\ run'[f].pc # "queued"
      BY <1>5, <2>2, <2>4 DEF VerdictEnds, Reaped, FileInv
    <2>7. SilentHeardNothing(f)' /\ PassSaid(f)' /\ Believed(f)'
      <3>1. /\ reader'[f].message = m /\ reader'[f].outcome = o /\ wrote'[f] = wrote[f]
            /\ run'[f] = n
        BY <1>3, <2>4
      <3>2. SilentHeardNothing(f)'
        BY <1>6, <2>2, <3>1 DEF SilentHeardNothing
      <3>3. PassSaid(f)'
        BY <1>5, <1>6, <2>2, <3>1 DEF PassSaid
      <3>4. Believed(f)'
        BY <1>5, <1>6, <2>2, <3>1 DEF Believed, Says
      <3> QED BY <3>2, <3>3, <3>4
    <2> QED BY <1>3, <1>4, <1>6, <2>4, <2>6, <2>7 DEF RunsOK
  <1>7. CASE ~(o # "none" /\ run[f].pc \in {"racing", "grace"})
    <2>1. run' = run
      BY <1>7 DEF Keep
    <2>2. run[f].pc # "silent" /\ run[f].pc # "queued" /\ run[f].pc # "noipc"
      BY <1>5 DEF FileInv, SilentHeardNothing, OpenAt
    <2> QED BY <1>1, <1>3, <1>4, <1>5, <2>1, <2>2
        DEF RunsOK, VerdictEnds, Reaped, SilentHeardNothing, PassSaid, Believed, FileInv
  <1> QED BY <1>6, <1>7

\* What is left of the pipe belongs to the file.
LEMMA DrainMoves ==
    ASSUME OsOK, NEW f \in Files, NEW rest \in Seq(Pieces), Drain(f, rest), UNCHANGED <<child, wrote, pieces>>
    PROVE  /\ OsOK' /\ \A g \in Files \ {f} : pipe'[g] = pipe[g]
           /\ Reading(f)' => pipe'[f] = rest
  BY DEF OsOK, Drain, Reading

\* Pieces are read from the front and written at the end.
LEMMA FirstOfTail ==
    ASSUME NEW s \in Seq(Pieces), s # <<>>, NEW w, FirstOf(s, w)
    PROVE  IF Head(s) = "part" THEN FirstOf(Tail(s), w) ELSE w = Head(s)
  <1>1. Head(s) = s[1] /\ 1 \in DOMAIN s /\ Len(s) \in Nat /\ DOMAIN s = 1..Len(s)
    OBVIOUS
  <1>2. CASE Head(s) = "part"
    <2>1. /\ Tail(s) \in Seq(Pieces) /\ Len(Tail(s)) = Len(s) - 1 /\ DOMAIN Tail(s) = 1..(Len(s) - 1)
          /\ \A i \in 1..(Len(s) - 1) : Tail(s)[i] = s[i+1]
      BY <1>1
    <2>2. CASE w = "none" /\ \A i \in DOMAIN s : s[i] = "part"
      BY <1>1, <2>1, <2>2 DEF FirstOf
    <2>3. CASE \E i \in DOMAIN s : s[i] # "part" /\ w = s[i] /\ \A j \in 1..(i-1) : s[j] = "part"
      <3>1. PICK i \in 1..Len(s) : s[i] # "part" /\ w = s[i] /\ \A j \in 1..(i-1) : s[j] = "part"
        BY <1>1, <2>3
      <3>2. i # 1
        BY <1>1, <1>2, <3>1
      <3>3. i - 1 \in DOMAIN Tail(s) /\ Tail(s)[i-1] = s[i]
        BY <1>1, <2>1, <3>2
      <3>4. \A j \in 1..((i-1)-1) : Tail(s)[j] = "part"
        BY <1>1, <2>1, <3>1
      <3> QED BY <1>2, <3>1, <3>3, <3>4 DEF FirstOf
    <2> QED BY <1>2, <2>2, <2>3 DEF FirstOf
  <1>3. CASE Head(s) # "part"
    BY <1>1, <1>3 DEF FirstOf
  <1> QED BY <1>2, <1>3

LEMMA FirstOfAppend ==
    ASSUME NEW s \in Seq(Pieces), NEW p \in Pieces, NEW w, FirstOf(s, w)
    PROVE  FirstOf(Append(s, p), IF w = "none" /\ p # "part" THEN p ELSE w)
  <1> DEFINE t == Append(s, p)
  <1>1. /\ Len(s) \in Nat /\ DOMAIN s = 1..Len(s) /\ DOMAIN t = 1..(Len(s) + 1)
        /\ t[Len(s) + 1] = p /\ \A i \in 1..Len(s) : t[i] = s[i]
    OBVIOUS
  <1> HIDE DEF t
  <1>2. CASE w = "none" /\ \A i \in DOMAIN s : s[i] = "part"
    <2>1. CASE p = "part"
      BY <1>1, <1>2, <2>1 DEF FirstOf
    <2>2. CASE p # "part"
      <3>1. Len(s) + 1 \in DOMAIN t /\ \A j \in 1..((Len(s) + 1) - 1) : t[j] = "part"
        BY <1>1, <1>2
      <3>2. FirstOf(t, p)
        BY <1>1, <2>2, <3>1 DEF FirstOf
      <3> QED BY <1>2, <2>2, <3>2 DEF t
    <2> QED BY <2>1, <2>2 DEF t
  <1>3. CASE \E i \in DOMAIN s : s[i] # "part" /\ w = s[i] /\ \A j \in 1..(i-1) : s[j] = "part"
    <2>1. PICK i \in 1..Len(s) : s[i] # "part" /\ w = s[i] /\ \A j \in 1..(i-1) : s[j] = "part"
      BY <1>1, <1>3
    <2>2. w # "none"
      BY <1>1, <2>1 DEF Pieces
    <2>3. i \in DOMAIN t /\ t[i] = s[i] /\ \A j \in 1..(i-1) : t[j] = "part"
      BY <1>1, <2>1
    <2>4. FirstOf(t, w)
      BY <2>1, <2>3 DEF FirstOf
    <2> QED BY <2>2, <2>4 DEF t
  <1> QED BY <1>2, <1>3 DEF FirstOf

\* A read: the reader takes the first piece, the end of the file or an error.
LEMMA ReadsKeep ==
    ASSUME TypeOK, NEW f \in Files, FileInv(f), Reads(f)
    PROVE  TypeOK' /\ FileInv(f)' /\ OneFile(f)
  <1>1. SharedOK /\ RunsOK /\ OsOK /\ pipe[f] \in Seq(Pieces) /\ reader[f] \in Readers
    BY Groups DEF RunsOK, OsOK
  <1>2. Reading(f) /\ reader[f].outcome = "none" /\ reader[f].message \in {"none"} \cup Says
    BY <1>1 DEF Reads, Receive, EndOfFile, ReadFails, Readers
  <1>3. reader[f].message # "none" => wrote[f] = reader[f].message
    BY DEF FileInv, FirstLine
  <1>4. reader[f].message = "none" => FirstOf(pipe[f], wrote[f])
    BY <1>2 DEF FileInv, FirstLine
  <1>5. ASSUME NEW m \in {"none"} \cup Says, NEW o \in {"none", "result", "closed", "error"}, NEW rest \in Seq(Pieces),
               Keep(f, m, o), Drain(f, rest), UNCHANGED <<flags, queue, at, child, wrote, pieces, results, exitCode>>,
               o = "result" => m # "none", o = "closed" => m = "none", m # "none" => wrote[f] = m,
               m = "none" /\ o = "none" => FirstOf(rest, wrote[f])
        PROVE  TypeOK' /\ FileInv(f)' /\ OneFile(f)
    <2>1. /\ RunsOK' /\ \A g \in Files \ {f} : run'[g] = run[g] /\ reader'[g] = reader[g]
          /\ VerdictEnds(f)' /\ Reaped(f)' /\ SilentHeardNothing(f)' /\ PassSaid(f)' /\ Believed(f)'
          /\ run'[f].pc # "queued"
          /\ reader'[f] = [message |-> m, outcome |-> o]
      BY <1>1, <1>2, <1>5, KeepMoves
    <2>2. /\ OsOK' /\ \A g \in Files \ {f} : pipe'[g] = pipe[g]
          /\ Reading(f)' => pipe'[f] = rest
      BY <1>1, <1>5, DrainMoves
    <2>3. FirstLine(f)'
      <3>1. reader'[f].message = m /\ reader'[f].outcome = o /\ wrote'[f] = wrote[f]
        BY <1>5, <2>1
      <3> QED BY <1>5, <2>2, <3>1 DEF FirstLine
    <2>4. run[f].pc # "queued" /\ run[f].pc # "done"
      BY <1>2 DEF Reading, OpenAt
    <2>5. Within(f)
      BY <1>5, <2>1, <2>4 DEF Within
    <2>6. OneFile(f)
      BY <1>5, <2>1, <2>2, <2>5 DEF OneFile, Untouched
    <2>7. SharedOK'
      BY <1>1, <1>5 DEF SharedOK
    <2> QED BY <2>1, <2>2, <2>3, <2>6, <2>7, Groups DEF FileInv
  <1>6. CASE Receive(f)
    <2> DEFINE m == reader[f].message
               p == Head(pipe[f])
               n == IF p = "part" THEN OnPart(m) ELSE OnLine(m, p)
    <2>1. pipe[f] # <<>> /\ p \in Pieces /\ Tail(pipe[f]) \in Seq(Pieces)
      BY <1>1, <1>6 DEF Receive
    <2>2. /\ Keep(f, n.message, n.outcome) /\ Drain(f, Tail(pipe[f]))
          /\ UNCHANGED <<flags, queue, at, child, wrote, pieces, results, exitCode>>
      BY <1>6 DEF Receive
    <2>3. /\ n.message \in {"none"} \cup Says /\ n.outcome \in {"none", "error"}
          /\ n.message # m => m = "none" /\ p # "part" /\ n.message = p
          /\ n.message = "none" /\ n.outcome = "none" => m = "none" /\ p = "part"
      BY <1>2, <2>1 DEF OnPart, OnLine, Pieces, Says
    <2>4. m = "none" => IF p = "part" THEN FirstOf(Tail(pipe[f]), wrote[f]) ELSE wrote[f] = p
      BY <1>1, <1>4, <2>1, FirstOfTail
    <2> HIDE DEF m, p, n
    <2>5. n.message # "none" => wrote[f] = n.message
      BY <1>3, <2>3, <2>4 DEF m
    <2>6. n.message = "none" /\ n.outcome = "none" => FirstOf(Tail(pipe[f]), wrote[f])
      BY <2>3, <2>4
    <2> QED BY <1>5, <2>1, <2>2, <2>3, <2>5, <2>6
  <1>7. CASE EndOfFile(f)
    <2>1. PICK o : o = IF reader[f].message = "none" THEN "closed" ELSE "result"
      OBVIOUS
    <2>2. /\ Keep(f, reader[f].message, o) /\ Drain(f, <<>>) /\ o \in {"closed", "result"}
          /\ UNCHANGED <<flags, queue, at, child, wrote, pieces, results, exitCode>>
      BY <1>7, <2>1 DEF EndOfFile
    <2>3. <<>> \in Seq(Pieces)
      OBVIOUS
    <2> QED BY <1>2, <1>3, <1>5, <2>1, <2>2, <2>3
  <1>8. CASE ReadFails(f)
    <2>1. /\ Keep(f, reader[f].message, "error") /\ Drain(f, pipe[f])
          /\ UNCHANGED <<flags, queue, at, child, wrote, pieces, results, exitCode>>
      BY <1>8 DEF ReadFails
    <2> QED BY <1>1, <1>2, <1>3, <1>5, <2>1
  <1> QED BY <1>6, <1>7, <1>8 DEF Reads

\* A step that changes only the record of the file, maybe closing its pipe.
LEMMA RunMoves ==
    ASSUME TypeOK, NEW f \in Files, FileInv(f), NEW n \in Runs, run' = [run EXCEPT ![f] = n],
           UNCHANGED <<flags, queue, at, reader, child, wrote, pieces, results, exitCode>>,
           \/ Drain(f, pipe[f])
           \/ UNCHANGED <<holders, pipe>>,
           run[f].pc \in Running, n.pc # "queued", n.pc \in OpenAt => Reading(f),
           n.verdict # "none" <=> n.pc \in {"final", "done"},
           n.wait # "pending" \/ n.pc = "done" => child[f] = "dead",
           n.pc = "grace" => n.wait # "pending",
           n.pc = "silent" => run[f].pc = "silent", n.pc # "noipc",
           n.verdict = "pass" => wrote[f] = "pass",
           reader[f].message # "none" => n.verdict \in {"none", reader[f].message, "timeout", "pipe"}
    PROVE  TypeOK' /\ FileInv(f)' /\ OneFile(f)
  <1>1. SharedOK /\ RunsOK /\ OsOK /\ pipe[f] \in Seq(Pieces)
    BY Groups DEF RunsOK, OsOK
  <1>2. /\ run' \in [Files -> Runs] /\ run'[f] = n /\ \A g \in Files \ {f} : run'[g] = run[g]
    BY <1>1 DEF RunsOK
  <1>3. /\ OsOK' /\ \A g \in Files \ {f} : pipe'[g] = pipe[g]
        /\ Reading(f)' => pipe'[f] = pipe[f]
    <2>1. CASE Drain(f, pipe[f])
      BY <1>1, <2>1, DrainMoves
    <2>2. CASE UNCHANGED <<holders, pipe>>
      BY <1>1, <2>2 DEF OsOK
    <2> QED BY <2>1, <2>2
  <1>4. SharedOK' /\ RunsOK'
    BY <1>1, <1>2 DEF SharedOK, RunsOK
  <1>5. FirstLine(f)'
    <2>1. Reading(f)' => Reading(f)
      BY <1>2 DEF Reading
    <2> QED BY <1>3, <2>1 DEF FirstLine, FileInv
  <1>6. VerdictEnds(f)' /\ Reaped(f)'
    BY <1>2 DEF VerdictEnds, Reaped
  <1>7. SilentHeardNothing(f)' /\ PassSaid(f)' /\ Believed(f)'
    BY <1>2 DEF SilentHeardNothing, PassSaid, Believed, FileInv
  <1>8. OneFile(f)
    <2>1. run[f].pc # "queued" /\ run[f].pc # "done"
      BY DEF Running, Settling
    <2> QED BY <1>2, <1>3, <2>1 DEF OneFile, Within, Untouched
  <1> QED BY <1>2, <1>3, <1>4, <1>5, <1>6, <1>7, <1>8, Groups DEF FileInv

\* Where the end of the wait leads.
LEMMA WaitedIs ==
    ASSUME NEW d \in Runs, d.wait # "pending", d.pc \in {"racing", "noipc", "timedOut", "silent", "final"}
    PROVE  /\ Waited(d) \in Runs /\ Waited(d).wait # "pending"
           /\ \/ Waited(d).pc = "grace" /\ d.pc = "racing" /\ Waited(d).verdict = d.verdict
              \/ /\ Waited(d).pc = "done"
                 /\ \/ d.pc = "noipc" /\ Waited(d).verdict = "spawn"
                    \/ d.pc = "timedOut" /\ Waited(d).verdict = "timeout"
                    \/ d.pc = "silent" /\ Waited(d).verdict = "exit"
                    \/ d.pc = "final" /\ Waited(d).verdict = d.verdict
  <1>1. CASE d.pc = "racing"
    BY <1>1 DEF Waited, Runs, Points, Running
  <1>2. CASE d.pc = "noipc"
    BY <1>2 DEF Waited, Runs, Points, Verdicts
  <1>3. CASE d.pc = "timedOut"
    <2>1. Waited(d) = Leave(d, "timeout") /\ "timeout" \in Verdicts
      BY <1>3 DEF Waited, Verdicts
    <2> QED BY <1>3, <2>1, LeaveIs
  <1>4. CASE d.pc = "silent"
    <2>1. Waited(d) = Leave(d, "exit") /\ "exit" \in Verdicts
      BY <1>4 DEF Waited, Verdicts
    <2> QED BY <1>4, <2>1, LeaveIs
  <1>5. CASE d.pc = "final"
    BY <1>5 DEF Waited, Runs, Points
  <1> QED BY <1>1, <1>2, <1>3, <1>4, <1>5

\* A timer, or the end of the wait for the child.
LEMMA TimersKeep ==
    ASSUME TypeOK, NEW f \in Files, FileInv(f),
           Timers(f) \/ \E how \in {"exit", "error"} : WaitSettles(f, how)
    PROVE  TypeOK' /\ FileInv(f)' /\ OneFile(f)
  <1> DEFINE r == run[f]
  <1>1. r \in Runs /\ run \in [Files -> Runs] /\ reader[f].message \in {"none"} \cup Says
    BY Groups DEF RunsOK, Readers
  <1>2. /\ r.verdict # "none" <=> r.pc \in {"final", "done"}
        /\ r.wait # "pending" => child[f] = "dead"
        /\ r.pc = "grace" => r.wait # "pending"
        /\ r.pc \in {"silent", "noipc"} => reader[f].message = "none"
        /\ reader[f].message # "none" => wrote[f] = reader[f].message
        /\ r.verdict = "pass" => wrote[f] = "pass"
        /\ reader[f].message # "none" => r.verdict \in {"none", reader[f].message, "timeout", "pipe"}
    BY DEF FileInv, VerdictEnds, Reaped, SilentHeardNothing, FirstLine, PassSaid, Believed
  <1>3. CASE Times(f)
    <2> DEFINE n == [r EXCEPT !.pc = "timedOut", !.struck = FALSE]
    <2>1. /\ n \in Runs /\ n.pc = "timedOut" /\ n.verdict = r.verdict /\ n.wait = r.wait /\ r.pc = "racing"
      BY <1>1, <1>3 DEF Times, Runs, Points, Running, Settling
    <2>2. /\ run' = [run EXCEPT ![f] = n]
          /\ UNCHANGED <<flags, queue, at, reader, child, holders, pipe, wrote, pieces, results, exitCode>>
      BY <1>1, <1>3 DEF Times
    <2> HIDE DEF n
    <2>3. r.pc \in Running /\ Reading(f)
      BY <2>1 DEF Running, Reading, OpenAt
    <2> QED BY <1>2, <2>1, <2>2, <2>3, RunMoves
  <1>4. CASE GraceEnds(f)
    <2> DEFINE v == Missing(r, reader[f].message)
               n == Leave(r, v)
    <2>1. /\ v \in Verdicts /\ v # "none"
          /\ v = "pass" => wrote[f] = "pass"
          /\ reader[f].message # "none" => v = reader[f].message
      BY <1>1, <1>2 DEF Missing, Verdicts, Says
    <2> HIDE DEF v
    <2>2. /\ n \in Runs /\ n.verdict = v /\ n.wait = r.wait /\ n.pc \notin OpenAt
          /\ n.pc = IF r.wait = "pending" THEN "final" ELSE "done"
      BY <1>1, <2>1, LeaveIs
    <2>3. /\ run' = [run EXCEPT ![f] = n] /\ Drain(f, pipe[f]) /\ r.pc = "grace"
          /\ UNCHANGED <<flags, queue, at, reader, child, wrote, pieces, results, exitCode>>
      BY <1>1, <1>4 DEF GraceEnds, v
    <2> HIDE DEF n
    <2>4. r.pc \in Running
      BY <2>3 DEF Running
    <2> QED BY <1>2, <2>1, <2>2, <2>3, <2>4, RunMoves
  <1>5. CASE SettleTimer(f)
    <2> DEFINE n == Strike(r)
    <2>1. /\ n \in Runs /\ n.pc = r.pc /\ n.verdict = r.verdict /\ n.wait = r.wait
      BY <1>1 DEF Strike, Runs
    <2>2. /\ run' = [run EXCEPT ![f] = n] /\ r.pc \in Settling
          /\ UNCHANGED <<flags, queue, at, reader, child, holders, pipe, wrote, pieces, results, exitCode>>
      BY <1>1, <1>5 DEF SettleTimer
    <2> HIDE DEF n
    <2>3. r.pc \in Running /\ r.pc # "queued" /\ r.pc # "done" /\ r.pc # "noipc"
      BY <2>2 DEF Running, Settling
    <2>4. r.pc \in OpenAt => Reading(f)
      BY DEF Reading
    <2> QED BY <1>2, <2>1, <2>2, <2>3, <2>4, RunMoves
  <1>6. ASSUME NEW how \in {"exit", "error"}, WaitSettles(f, how)
        PROVE  TypeOK' /\ FileInv(f)' /\ OneFile(f)
    <2> DEFINE d == [r EXCEPT !.wait = how]
               n == Waited(d)
    <2>1. d \in Runs /\ d.pc = r.pc /\ d.verdict = r.verdict /\ d.wait = how
      BY <1>1 DEF Runs
    <2>2. /\ run' = [run EXCEPT ![f] = n] /\ Drain(f, pipe[f]) /\ r.pc \in Running /\ r.wait = "pending"
          /\ child[f] = "dead"
          /\ UNCHANGED <<flags, queue, at, reader, child, wrote, pieces, results, exitCode>>
      BY <1>1, <1>6 DEF WaitSettles
    <2>3. r.pc \in {"racing", "noipc", "timedOut", "silent", "final"}
      BY <1>2, <2>2 DEF Running, Settling
    <2> HIDE DEF d
    <2>4. /\ n \in Runs /\ n.wait # "pending"
          /\ \/ n.pc = "grace" /\ r.pc = "racing" /\ n.verdict = r.verdict
             \/ /\ n.pc = "done"
                /\ \/ r.pc = "noipc" /\ n.verdict = "spawn"
                   \/ r.pc = "timedOut" /\ n.verdict = "timeout"
                   \/ r.pc = "silent" /\ n.verdict = "exit"
                   \/ r.pc = "final" /\ n.verdict = r.verdict
      BY <2>1, <2>3, WaitedIs
    <2> HIDE DEF n
    <2>5. n.pc \in OpenAt => Reading(f)
      BY <2>4 DEF Reading, OpenAt
    <2> QED BY <1>2, <2>2, <2>4, <2>5, RunMoves
  <1> QED BY <1>3, <1>4, <1>5, <1>6 DEF Timers

\* A step of the child or of the daemon it left its pipe to.
LEMMA ChildActsKeep ==
    ASSUME TypeOK, NEW f \in Files, FileInv(f), ChildActs(f)
    PROVE  TypeOK' /\ FileInv(f)' /\ OneFile(f)
  <1>1. SharedOK /\ RunsOK /\ OsOK /\ pipe[f] \in Seq(Pieces)
    BY Groups DEF OsOK
  <1>2. CASE \E p \in Pieces : Write(f, p)
    <2>1. PICK p \in Pieces : Write(f, p)
      BY <1>2
    <2>2. /\ pipe' = [pipe EXCEPT ![f] = Append(pipe[f], p)] /\ Append(pipe[f], p) \in Seq(Pieces)
          /\ wrote' = [wrote EXCEPT ![f] = IF wrote[f] = "none" /\ p # "part" THEN p ELSE wrote[f]]
          /\ UNCHANGED <<flags, queue, at, run, reader, child, holders, results, exitCode>>
          /\ pieces < MaxPieces /\ pieces' = pieces + 1 /\ Reading(f)
      BY <1>1, <2>1 DEF Write
    <2>3. /\ OsOK' /\ \A g \in Files \ {f} : pipe'[g] = pipe[g] /\ wrote'[g] = wrote[g]
          /\ pipe'[f] = Append(pipe[f], p)
          /\ wrote'[f] = IF wrote[f] = "none" /\ p # "part" THEN p ELSE wrote[f]
      BY <1>1, <2>2, PiecesAssumption DEF OsOK
    <2>4. FirstLine(f)'
      <3>1. FirstOf(pipe[f], wrote[f]) => FirstOf(pipe'[f], wrote'[f])
        BY <1>1, <2>3, FirstOfAppend
      <3> QED BY <2>2, <2>3, <3>1 DEF FirstLine, FileInv, Reading
    <2>5. run[f].pc \in OpenAt /\ run[f].verdict = "none"
      BY <1>1, <2>2 DEF FileInv, VerdictEnds, Reading, OpenAt
    <2>6. PassSaid(f)' /\ Believed(f)' /\ VerdictEnds(f)' /\ Reaped(f)' /\ SilentHeardNothing(f)'
      BY <2>2, <2>5 DEF PassSaid, Believed, VerdictEnds, Reaped, SilentHeardNothing, FileInv
    <2>7. OneFile(f)
      BY <2>2, <2>3, <2>5 DEF OneFile, Within, Untouched, OpenAt
    <2> QED BY <1>1, <2>2, <2>3, <2>4, <2>5, <2>6, <2>7, Groups DEF FileInv, SharedOK, RunsOK, OpenAt
  <1>3. CASE \/ Daemonise(f)
             \/ \E who \in {"child", "daemon"} : Release(f, who)
    <2>1. PICK h \in SUBSET {"child", "daemon"} : holders' = [holders EXCEPT ![f] = h]
      BY <1>1, <1>3 DEF Daemonise, Release, OsOK
    <2>2. UNCHANGED <<flags, queue, at, run, reader, child, pipe, wrote, pieces, results, exitCode>>
      BY <1>3 DEF Daemonise, Release
    <2>3. OsOK' /\ SharedOK' /\ RunsOK'
      BY <1>1, <2>1, <2>2 DEF OsOK, SharedOK, RunsOK
    <2> QED BY <2>2, <2>3, Groups, UntouchedKeeps DEF Untouched, OneFile, Within
  <1>4. CASE Die(f)
    <2>1. /\ child[f] = "alive" /\ child' = [child EXCEPT ![f] = "dead"]
          /\ UNCHANGED <<flags, queue, at, run, reader, pipe, wrote, pieces, results, exitCode>>
      BY <1>4 DEF Die
    <2>2. PICK h \in SUBSET {"child", "daemon"} : holders' = [holders EXCEPT ![f] = h]
      BY <1>1, <1>4 DEF Die, OsOK
    <2>3. OsOK' /\ SharedOK' /\ RunsOK' /\ child'[f] = "dead" /\ \A g \in Files \ {f} : child'[g] = child[g]
      BY <1>1, <2>1, <2>2 DEF OsOK, SharedOK, RunsOK
    <2>4. run[f].pc # "queued"
      BY <2>1 DEF FileInv, Fresh
    <2>5. FileInv(f)'
      BY <2>1, <2>3, <2>4 DEF FileInv, FirstLine, Reading, VerdictEnds, Reaped, SilentHeardNothing, PassSaid, Believed
    <2> QED BY <2>1, <2>3, <2>4, <2>5, Groups DEF OneFile, Within, Untouched
  <1> QED BY <1>2, <1>3, <1>4 DEF ChildActs

LEMMA MovesKeep ==
    ASSUME TypeOK, NEW f \in Files, \A g \in Files : FileInv(g), Moves(f)
    PROVE  TypeOK' /\ (\A g \in Files : FileInv(g))' /\ OneFile(f)
  <1>1. TypeOK' /\ FileInv(f)' /\ OneFile(f)
    BY ReadsKeep, TimersKeep, ChildActsKeep DEF Moves
  <1>2. \A g \in Files \ {f} : FileInv(g)'
    BY <1>1, UntouchedKeeps DEF OneFile
  <1> QED BY <1>1, <1>2

-----------------------------------------------------------------------------
(* The invariant of the workers and the queue. *)

\* What is in the queue is there once, and has not been handed out.
QueueFresh ==
    /\ \A i, j \in DOMAIN queue : queue[i] = queue[j] => i = j
    /\ \A i \in DOMAIN queue : run[queue[i]].pc = "queued"

Owned == \A f \in LivingChildren : \E w \in Workers : at[w] = f
Narrow == \A w \in Workers : at[w] \in Files => w <= Width
LeftMeansEmpty == \A w \in Workers : at[w] = "left" /\ w <= Width => queue = <<>>
ResultsAreDone == \A f \in results : run[f].pc = "done"

\* Unless a file failed, every file is queued, with a worker or among the results.
Accounted ==
    \/ \E f \in results : run[f].verdict # "pass"
    \/ \A f \in Files : \/ \E i \in DOMAIN queue : queue[i] = f
                        \/ \E w \in Workers : at[w] = f
                        \/ f \in results

Green == exitCode = "0" => \A f \in Files : f \in results /\ run[f].verdict = "pass"

PoolInv == QueueFresh /\ Owned /\ Narrow /\ LeftMeansEmpty /\ ResultsAreDone /\ Accounted /\ Green

Inv == TypeOK /\ (\A f \in Files : FileInv(f)) /\ PoolInv

LEMMA Widths == Width \in Workers /\ Workers \subseteq Nat /\ \A w \in Workers : w >= 1 /\ w <= Concurrency
  BY ConcurrencyAssumption DEF Width, Workers

\* The step of a file.
LEMMA MovesKeepPool ==
    ASSUME Inv, NEW f \in Files, Moves(f)
    PROVE  Inv'
  <1> USE DEF Inv
  <1>1. TypeOK' /\ (\A g \in Files : FileInv(g))' /\ OneFile(f)
    BY MovesKeep
  <1>2. /\ \A g \in Files : run[g].pc = "queued" => run'[g].pc = "queued"
        /\ \A g \in Files : run[g].pc = "done" => run'[g] = run[g]
        /\ \A g \in Files : child'[g] = "alive" => child[g] = "alive"
        /\ UNCHANGED <<flags, queue, at, results, exitCode>>
    BY <1>1 DEF OneFile, Within, Untouched
  <1>3. SharedOK /\ results \subseteq Files /\ \A i \in DOMAIN queue : queue[i] \in Files
    BY Groups DEF SharedOK
  <1>4. QueueFresh' /\ Owned'
    BY <1>2, <1>3 DEF PoolInv, QueueFresh, Owned, LivingChildren
  <1>5. Narrow' /\ LeftMeansEmpty'
    BY <1>2 DEF PoolInv, Narrow, LeftMeansEmpty, Width, Serial
  <1>6. ResultsAreDone' /\ Accounted' /\ Green'
    BY <1>2, <1>3 DEF PoolInv, ResultsAreDone, Accounted, Green
  <1> QED BY <1>1, <1>4, <1>5, <1>6 DEF PoolInv

\* A worker takes the first file of the queue.
LEMMA StartKeeps ==
    ASSUME Inv, NEW w \in Workers, NEW how \in {"throws", "noipc", "unreadable", "spawned"}, Start(w, how)
    PROVE  Inv'
  <1> USE DEF Inv
  <1>1. SharedOK /\ RunsOK /\ OsOK /\ PoolInv
    BY Groups
  <1>2. PICK f \in Files : f = Head(queue)
    BY <1>1 DEF Start, SharedOK
  <1>3. /\ w <= Width /\ at[w] = "free" /\ queue # <<>> /\ queue \in Seq(Files)
        /\ at' = [at EXCEPT ![w] = f] /\ queue' = Tail(queue)
        /\ UNCHANGED <<flags, pipe, wrote, pieces, results, exitCode>>
    BY <1>2, <1>1 DEF Start, SharedOK
  <1>4. /\ f \in Files /\ f = queue[1] /\ 1 \in DOMAIN queue /\ Len(queue) \in Nat /\ DOMAIN queue = 1..Len(queue)
        /\ Tail(queue) \in Seq(Files) /\ DOMAIN Tail(queue) = 1..(Len(queue) - 1)
        /\ \A i \in 1..(Len(queue) - 1) : Tail(queue)[i] = queue[i+1]
    BY <1>2, <1>3
  <1>5. \A i \in DOMAIN queue : queue[i] = f => i = 1
    BY <1>1, <1>4 DEF PoolInv, QueueFresh
  <1>6. Fresh(f) /\ run[f].pc = "queued"
    BY <1>1, <1>4 DEF PoolInv, QueueFresh, FileInv
  <1>7. PICK n : n = CASE how = "throws" -> [run[f] EXCEPT !.pc = "done", !.verdict = "spawn"]
                       [] how = "noipc" -> [run[f] EXCEPT !.pc = "noipc"]
                       [] how = "unreadable" -> Leave(run[f], "pipe")
                       [] OTHER -> [run[f] EXCEPT !.pc = "racing"]
    OBVIOUS
  <1>8. /\ n \in Runs /\ n.wait = "pending" /\ n.pc \in {"done", "noipc", "final", "racing"}
        /\ n.verdict = IF how = "throws" THEN "spawn" ELSE IF how = "unreadable" THEN "pipe" ELSE "none"
        /\ n.pc = "done" <=> how = "throws"
        /\ n.pc = "final" <=> how = "unreadable"
    <2>1. PICK r \in Runs : r = run[f] /\ r.verdict = "none" /\ r.wait = "pending"
      <3>1. run[f] \in Runs
        BY <1>1 DEF RunsOK
      <3>2. run[f].verdict = "none" /\ run[f].wait = "pending"
        BY <1>6 DEF Fresh
      <3> QED BY <3>1, <3>2
    <2>2. CASE how = "throws"
      <3>1. n = [r EXCEPT !.pc = "done", !.verdict = "spawn"]
        BY <1>7, <2>1, <2>2
      <3>2. "done" \in Points /\ "spawn" \in Verdicts
        BY DEF Points, Running, Verdicts
      <3>3. n \in Runs /\ n.pc = "done" /\ n.verdict = "spawn" /\ n.wait = r.wait
        BY <2>1, <3>1, <3>2 DEF Runs
      <3> QED BY <2>2, <2>1, <3>3
    <2>3. CASE how = "noipc"
      <3>1. n = [r EXCEPT !.pc = "noipc"]
        BY <1>7, <2>1, <2>3
      <3>2. "noipc" \in Points /\ "none" \in Verdicts
        BY DEF Points, Running, Verdicts
      <3>3. n \in Runs /\ n.pc = "noipc" /\ n.verdict = "none" /\ n.wait = r.wait
        BY <2>1, <3>1, <3>2 DEF Runs
      <3> QED BY <2>3, <2>1, <3>3
    <2>4. CASE how = "unreadable"
      <3>1. n = Leave(r, "pipe") /\ "pipe" \in Verdicts
        BY <1>7, <2>1, <2>4 DEF Verdicts
      <3>2. n \in Runs /\ n.verdict = "pipe" /\ n.wait = r.wait /\ n.pc = "final"
        BY <2>1, <3>1, LeaveIs
      <3> QED BY <2>1, <2>4, <3>2
    <2>5. CASE how = "spawned"
      <3>1. n = [r EXCEPT !.pc = "racing"]
        BY <1>7, <2>1, <2>5
      <3>2. "racing" \in Points /\ "none" \in Verdicts
        BY DEF Points, Running, Verdicts
      <3>3. n \in Runs /\ n.pc = "racing" /\ n.verdict = "none" /\ n.wait = r.wait
        BY <2>1, <3>1, <3>2 DEF Runs
      <3> QED BY <2>5, <2>1, <3>3
    <2> QED BY <2>2, <2>3, <2>4, <2>5
  <1>9. /\ run' = [run EXCEPT ![f] = n]
        /\ child' = [child EXCEPT ![f] = IF how # "throws" THEN "alive" ELSE "none"]
        /\ holders' = [holders EXCEPT ![f] = IF how = "spawned" THEN {"child"} ELSE {}]
        /\ reader' = [reader EXCEPT ![f].outcome = IF how = "unreadable" THEN "error" ELSE "none"]
    BY <1>2, <1>7 DEF Start
  <1>10. /\ run' \in [Files -> Runs] /\ run'[f] = n /\ \A g \in Files \ {f} : run'[g] = run[g]
         /\ child' \in [Files -> {"none", "alive", "dead"}]
         /\ child'[f] = (IF how # "throws" THEN "alive" ELSE "none")
         /\ \A g \in Files \ {f} : child'[g] = child[g]
    BY <1>1, <1>4, <1>8, <1>9 DEF RunsOK, OsOK
  <1>11. /\ reader' \in [Files -> Readers] /\ \A g \in Files \ {f} : reader'[g] = reader[g]
         /\ reader'[f].message = "none"
    BY <1>1, <1>4, <1>6, <1>9 DEF RunsOK, Readers, Fresh
  <1>12. OsOK' /\ RunsOK'
    BY <1>1, <1>3, <1>4, <1>9, <1>10, <1>11 DEF OsOK, RunsOK
  <1>13. /\ at' \in [Workers -> Files \cup {"free", "left"}] /\ at'[w] = f
         /\ \A u \in Workers \ {w} : at'[u] = at[u]
    BY <1>1, <1>3, <1>4 DEF SharedOK
  <1>14. SharedOK'
    BY <1>1, <1>3, <1>4, <1>13 DEF SharedOK
  <1>15. \A g \in Files : FileInv(g)'
    <2>1. \A g \in Files \ {f} : FileInv(g)'
      BY <1>3, <1>10, <1>11, UntouchedKeeps DEF Untouched
    <2>2. pipe'[f] = <<>> /\ wrote'[f] = "none"
      BY <1>3, <1>6 DEF Fresh
    <2>3. FirstLine(f)'
      BY <1>11, <2>2 DEF FirstLine, FirstOf
    <2>4. VerdictEnds(f)' /\ Reaped(f)'
      BY <1>8, <1>10 DEF VerdictEnds, Reaped
    <2>5. SilentHeardNothing(f)' /\ PassSaid(f)' /\ Believed(f)'
      BY <1>8, <1>10, <1>11 DEF SilentHeardNothing, PassSaid, Believed
    <2> QED BY <1>8, <1>10, <2>1, <2>3, <2>4, <2>5 DEF FileInv
  <1>16. QueueFresh'
    <2>1. \A i \in DOMAIN queue' : i + 1 \in DOMAIN queue /\ queue'[i] = queue[i+1] /\ queue[i+1] # f
      BY <1>3, <1>4, <1>5
    <2>2. \A i \in DOMAIN queue : queue[i] \in Files
      BY <1>3, <1>4
    <2>3. \A i \in DOMAIN queue' : run'[queue'[i]].pc = "queued"
      BY <1>1, <1>10, <2>1, <2>2 DEF PoolInv, QueueFresh
    <2>4. \A i, j \in DOMAIN queue' : queue'[i] = queue'[j] => i = j
      <3> SUFFICES ASSUME NEW i \in DOMAIN queue', NEW j \in DOMAIN queue', queue'[i] = queue'[j] PROVE i = j
        OBVIOUS
      <3>1. i + 1 = j + 1
        BY <1>1, <2>1 DEF PoolInv, QueueFresh
      <3> QED BY <3>1, <1>3, <1>4
    <2> QED BY <2>3, <2>4 DEF QueueFresh
  <1>17. Owned' /\ Narrow' /\ LeftMeansEmpty'
    <2>1. "free" \notin Files /\ "left" \notin Files
      BY NamesAssumption
    <2>2. \A g \in LivingChildren' : \E u \in Workers : at'[u] = g
      <3> SUFFICES ASSUME NEW g \in LivingChildren' PROVE \E u \in Workers : at'[u] = g
        OBVIOUS
      <3>1. CASE g = f
        BY <1>13, <3>1
      <3>2. CASE g # f
        <4>1. g \in LivingChildren
          BY <1>10, <3>2 DEF LivingChildren
        <4>2. PICK u \in Workers : at[u] = g
          BY <1>1, <4>1 DEF PoolInv, Owned
        <4>3. u # w
          BY <1>3, <2>1, <4>1, <4>2 DEF LivingChildren
        <4> QED BY <1>13, <4>2, <4>3
      <3> QED BY <3>1, <3>2
    <2>3. Width' = Width
      BY <1>3 DEF Width, Serial
    <2>4. Narrow'
      BY <1>1, <1>3, <1>13, <2>3 DEF PoolInv, Narrow
    <2>5. LeftMeansEmpty'
      BY <1>1, <1>3, <1>4, <1>13, <2>1, <2>3 DEF PoolInv, LeftMeansEmpty
    <2> QED BY <2>2, <2>4, <2>5 DEF Owned
  <1>18. f \notin results
    BY <1>1, <1>6 DEF PoolInv, ResultsAreDone
  <1>19. ResultsAreDone'
    BY <1>1, <1>3, <1>10, <1>18 DEF PoolInv, ResultsAreDone, SharedOK
  <1>20. Accounted'
    <2>1. CASE \E g \in results : run[g].verdict # "pass"
      BY <1>1, <1>3, <1>10, <1>18, <2>1 DEF Accounted, SharedOK
    <2>2. CASE \A g \in Files : \/ \E i \in DOMAIN queue : queue[i] = g
                                \/ \E u \in Workers : at[u] = g
                                \/ g \in results
      <3> SUFFICES ASSUME NEW g \in Files
                   PROVE  \/ \E i \in DOMAIN queue' : queue'[i] = g
                          \/ \E u \in Workers : at'[u] = g
                          \/ g \in results'
        BY DEF Accounted
      <3>1. CASE g = f
        BY <1>13, <3>1
      <3>2. CASE g # f /\ \E i \in DOMAIN queue : queue[i] = g
        <4>1. PICK i \in 1..Len(queue) : queue[i] = g
          BY <1>4, <3>2
        <4>2. i # 1
          BY <1>4, <3>2, <4>1
        <4>3. i - 1 \in DOMAIN queue' /\ queue'[i-1] = g
          BY <1>3, <1>4, <4>1, <4>2
        <4> QED BY <4>3
      <3>3. CASE \E u \in Workers : at[u] = g
        BY <1>3, <1>13, <3>3, NamesAssumption
      <3>4. CASE g \in results
        BY <1>3, <3>4
      <3> QED BY <2>2, <3>1, <3>2, <3>3, <3>4
    <2> QED BY <1>1, <2>1, <2>2 DEF PoolInv, Accounted
  <1>21. Green'
    BY <1>1, <1>3, <1>4, <1>18 DEF PoolInv, Green
  <1> QED BY <1>12, <1>14, <1>15, <1>16, <1>17, <1>19, <1>20, <1>21, Groups DEF PoolInv

\* What a file knows is kept where its variables are left alone.
LEMMA FilesKept ==
    ASSUME TypeOK, \A f \in Files : FileInv(f), UNCHANGED <<run, reader, osVars>>
    PROVE  (\A f \in Files : FileInv(f))' /\ RunsOK' /\ OsOK'
  <1>1. RunsOK /\ OsOK
    BY Groups
  <1>2. \A f \in Files : FileInv(f)'
    BY UntouchedKeeps DEF Untouched, osVars
  <1> QED BY <1>1, <1>2 DEF RunsOK, OsOK, osVars

\* A worker takes the result of its file, and stops the run if it has to.
LEMMA CollectKeeps ==
    ASSUME Inv, NEW w \in Workers, Collect(w)
    PROVE  Inv'
  <1> USE DEF Inv
  <1>1. SharedOK /\ RunsOK /\ OsOK /\ PoolInv /\ at[w] \in Files
    BY Groups DEF Collect
  <1>2. PICK f \in Files : f = at[w]
    BY <1>1
  <1>3. /\ run[f].pc = "done" /\ results' = results \cup {f}
        /\ queue' = IF Stops(f) THEN <<>> ELSE queue
        /\ at' = [at EXCEPT ![w] = IF Stops(f) THEN "left" ELSE "free"]
        /\ UNCHANGED <<flags, run, reader, osVars, exitCode>>
    BY <1>2 DEF Collect, Push
  <1>4. (\A g \in Files : FileInv(g))' /\ RunsOK' /\ OsOK'
    BY <1>3, FilesKept
  <1>5. /\ at' \in [Workers -> Files \cup {"free", "left"}] /\ at'[w] = IF Stops(f) THEN "left" ELSE "free"
        /\ \A u \in Workers \ {w} : at'[u] = at[u]
    BY <1>1, <1>3 DEF SharedOK
  <1>6. SharedOK'
    <2>1. queue' \in Seq(Files)
      BY <1>1, <1>3 DEF SharedOK
    <2> QED BY <1>1, <1>3, <1>5, <2>1 DEF SharedOK
  <1>7. \A i \in DOMAIN queue' : i \in DOMAIN queue /\ queue'[i] = queue[i] /\ ~Stops(f)
    BY <1>3
  <1>8. QueueFresh'
    BY <1>1, <1>3, <1>7 DEF PoolInv, QueueFresh
  <1>9. \A u \in Workers : at'[u] \in Files => u # w /\ at'[u] = at[u]
    BY <1>5, NamesAssumption
  <1>10. Owned'
    <2>1. child[f] # "alive" /\ child' = child
      BY <1>3 DEF FileInv, Reaped, osVars
    <2> QED BY <1>1, <1>2, <1>5, <2>1 DEF PoolInv, Owned, LivingChildren
  <1>11. Width' = Width
    BY <1>3 DEF Width, Serial
  <1>12. Narrow'
    BY <1>1, <1>9, <1>11 DEF PoolInv, Narrow
  <1>13. LeftMeansEmpty'
    BY <1>1, <1>3, <1>5, <1>11 DEF PoolInv, LeftMeansEmpty
  <1>14. ResultsAreDone'
    BY <1>1, <1>3 DEF PoolInv, ResultsAreDone
  <1>15. Accounted'
    <2>1. CASE run[f].verdict # "pass"
      BY <1>3, <2>1 DEF Accounted
    <2>2. CASE \E g \in results : run[g].verdict # "pass"
      BY <1>3, <2>2 DEF Accounted
    <2>3. CASE run[f].verdict = "pass" /\ \A g \in Files : \/ \E i \in DOMAIN queue : queue[i] = g
                                                          \/ \E u \in Workers : at[u] = g
                                                          \/ g \in results
      <3>1. queue' = queue
        BY <1>3, <2>3 DEF Stops
      <3>2. \A g \in Files : (\E u \in Workers : at[u] = g) => g = f \/ \E u \in Workers : at'[u] = g
        BY <1>2, <1>5
      <3> QED BY <1>3, <2>3, <3>1, <3>2 DEF Accounted
    <2> QED BY <1>1, <2>1, <2>2, <2>3 DEF PoolInv, Accounted
  <1>16. Green'
    BY <1>1, <1>3 DEF PoolInv, Green
  <1> QED BY <1>4, <1>6, <1>8, <1>10, <1>12, <1>13, <1>14, <1>15, <1>16, Groups DEF PoolInv

LEMMA WorkerEndsKeeps ==
    ASSUME Inv, NEW w \in Workers, WorkerEnds(w)
    PROVE  Inv'
  <1> USE DEF Inv
  <1>1. SharedOK /\ RunsOK /\ OsOK /\ PoolInv
    BY Groups
  <1>2. /\ at[w] = "free" /\ (w > Width \/ queue = <<>>) /\ at' = [at EXCEPT ![w] = "left"]
        /\ UNCHANGED <<flags, queue, run, reader, osVars, results, exitCode>>
    BY DEF WorkerEnds
  <1>3. (\A g \in Files : FileInv(g))' /\ RunsOK' /\ OsOK'
    BY <1>2, FilesKept
  <1>4. /\ at' \in [Workers -> Files \cup {"free", "left"}] /\ at'[w] = "left"
        /\ \A u \in Workers \ {w} : at'[u] = at[u]
    BY <1>1, <1>2 DEF SharedOK
  <1>5. SharedOK' /\ QueueFresh' /\ ResultsAreDone' /\ Green'
    BY <1>1, <1>2, <1>4 DEF SharedOK, PoolInv, QueueFresh, ResultsAreDone, Green
  <1>6. \A g \in Files : (\E u \in Workers : at[u] = g) => \E u \in Workers : at'[u] = g
    BY <1>2, <1>4, NamesAssumption
  <1>7. Owned' /\ Accounted'
    BY <1>1, <1>2, <1>6 DEF PoolInv, Owned, Accounted, LivingChildren, osVars
  <1>8. Width' = Width /\ Width \in Nat /\ w \in Nat
    BY <1>2, Widths DEF Width, Serial
  <1>9. Narrow'
    BY <1>1, <1>4, <1>8, NamesAssumption DEF PoolInv, Narrow
  <1>10. LeftMeansEmpty'
    BY <1>1, <1>2, <1>4, <1>8 DEF PoolInv, LeftMeansEmpty
  <1> QED BY <1>3, <1>5, <1>7, <1>9, <1>10, Groups DEF PoolInv

\* Every worker has left, so the queue is empty and all there is are results.
LEMMA SummariseKeeps ==
    ASSUME Inv, Summarise
    PROVE  Inv'
  <1> USE DEF Inv
  <1>1. SharedOK /\ RunsOK /\ OsOK /\ PoolInv
    BY Groups
  <1>2. /\ exitCode = "none" /\ \A w \in Workers : at[w] = "left"
        /\ exitCode' = IF \E f \in results : run[f].verdict # "pass" THEN "1" ELSE "0"
        /\ UNCHANGED <<flags, queue, at, run, reader, osVars, results>>
    BY DEF Summarise
  <1>3. (\A g \in Files : FileInv(g))' /\ RunsOK' /\ OsOK'
    BY <1>2, FilesKept
  <1>4. SharedOK'
    BY <1>1, <1>2 DEF SharedOK
  <1>5. queue = <<>>
    BY <1>1, <1>2, Widths DEF PoolInv, LeftMeansEmpty
  <1>6. Green'
    <2> SUFFICES ASSUME exitCode' = "0", NEW f \in Files PROVE f \in results' /\ run'[f].verdict = "pass"
      BY DEF Green
    <2>1. \A g \in results : run[g].verdict = "pass"
      BY <1>2
    <2>2. ~\E w \in Workers : at[w] = f
      BY <1>2, NamesAssumption
    <2>3. f \in results
      BY <1>1, <1>5, <2>1, <2>2 DEF PoolInv, Accounted
    <2> QED BY <1>2, <2>1, <2>3
  <1>7. QueueFresh' /\ Owned' /\ Narrow' /\ LeftMeansEmpty' /\ ResultsAreDone' /\ Accounted'
    BY <1>1, <1>2 DEF PoolInv, QueueFresh, Owned, Narrow, LeftMeansEmpty, ResultsAreDone, Accounted,
                      LivingChildren, Width, Serial, osVars
  <1> QED BY <1>3, <1>4, <1>6, <1>7, Groups DEF PoolInv

-----------------------------------------------------------------------------
(* The theorems. *)

LEMMA InitInv == Init => Inv
  <1> SUFFICES ASSUME Init PROVE Inv
    OBVIOUS
  <1>1. queue = Order /\ Order \in Seq(Files) /\ \A i \in DOMAIN Order : Order[i] \in Files
    BY OrderAssumption DEF Init
  <1>2. \A f \in Files : Fresh(f)
    BY DEF Init, Fresh
  <1>3. SharedOK
    BY <1>1 DEF Init, SharedOK
  <1>4. RunsOK
    BY DEF Init, RunsOK, Runs, Points, Verdicts, Readers
  <1>5. OsOK
    BY PiecesAssumption DEF Init, OsOK
  <1>6. \A f \in Files : FileInv(f)
    <2> SUFFICES ASSUME NEW f \in Files PROVE FileInv(f)
      OBVIOUS
    <2>1. /\ run[f].pc = "queued" /\ run[f].verdict = "none" /\ run[f].wait = "pending"
          /\ reader[f].message = "none" /\ pipe[f] = <<>> /\ wrote[f] = "none"
      BY <1>2 DEF Fresh
    <2> QED BY <1>2, <2>1 DEF FileInv, FirstLine, VerdictEnds, Reaped, SilentHeardNothing, PassSaid, Believed,
                               Reading, OpenAt
  <1>7. QueueFresh
    BY <1>1, <1>2, OrderAssumption DEF QueueFresh, Fresh
  <1>8. Owned /\ Narrow /\ LeftMeansEmpty /\ ResultsAreDone /\ Green
    BY NamesAssumption DEF Init, Owned, LivingChildren, Narrow, LeftMeansEmpty, ResultsAreDone, Green
  <1>9. Accounted
    BY <1>1 DEF Accounted, Files
  <1> QED BY <1>3, <1>4, <1>5, <1>6, <1>7, <1>8, <1>9, Groups DEF Inv, PoolInv

LEMMA NextInv == Inv /\ [Next]_vars => Inv'
  <1> SUFFICES ASSUME Inv, [Next]_vars PROVE Inv'
    OBVIOUS
  <1>1. ASSUME NEW f \in Files, Moves(f) PROVE Inv'
    BY <1>1, MovesKeepPool
  <1>2. ASSUME NEW w \in Workers, Hands(w) PROVE Inv'
    BY <1>2, StartKeeps, CollectKeeps, WorkerEndsKeeps DEF Hands
  <1>3. CASE Summarise
    BY <1>3, SummariseKeeps
  <1>4. CASE UNCHANGED vars
    <2>1. UNCHANGED <<flags, queue, at, results, exitCode, run, reader, osVars>>
      BY <1>4 DEF vars
    <2>2. (\A g \in Files : FileInv(g))' /\ RunsOK' /\ OsOK'
      BY <2>1, FilesKept DEF Inv
    <2>3. SharedOK' /\ PoolInv'
      BY <2>1, Groups DEF Inv, SharedOK, PoolInv, QueueFresh, Owned, Narrow, LeftMeansEmpty, ResultsAreDone,
                          Accounted, Green, LivingChildren, Width, Serial, osVars
    <2> QED BY <2>2, <2>3, Groups DEF Inv
  <1> QED BY <1>1, <1>2, <1>3, <1>4 DEF Next, Moves

LEMMA Invariance == Spec => []Inv
  BY InitInv, NextInv, PTL DEF Spec

\* Every variable keeps the shape the code gives it, for any files, workers and pieces.
THEOREM TypeCorrect == Spec => []TypeOK
  <1>1. Inv => TypeOK
    BY DEF Inv
  <1> QED BY <1>1, Invariance, PTL

\* A file passes only if the first line its child wrote says so.
THEOREM PassIsReported == Spec => []PassWasReported
  <1>1. Inv => PassWasReported
    BY DEF Inv, FileInv, PassSaid, PassWasReported
  <1> QED BY <1>1, Invariance, PTL

\* The command exits with 0 only if every file ran and its child reported a pass.
THEOREM GreenIsPassed == Spec => []GreenMeansPassed
  <1>1. Inv => GreenMeansPassed
    BY DEF Inv, FileInv, PassSaid, PoolInv, Green, GreenMeansPassed
  <1> QED BY <1>1, Invariance, PTL

\* A child that is alive has a worker that will reap it, and with --inspect it is
\* the only one.
THEOREM ChildrenReaped == Spec => []ChildrenAreOwned
  <1>1. Inv => ChildrenAreOwned
    <2> SUFFICES ASSUME Inv PROVE ChildrenAreOwned
      OBVIOUS
    <2>1. Owned /\ Narrow
      BY DEF Inv, PoolInv
    <2>2. ASSUME flags.inspect, NEW f \in LivingChildren, NEW g \in LivingChildren PROVE f = g
      <3>1. PICK u \in Workers, v \in Workers : at[u] = f /\ at[v] = g
        BY <2>1 DEF Owned
      <3>2. u <= 1 /\ v <= 1
        BY <2>1, <2>2, <3>1 DEF Narrow, LivingChildren, Width, Serial
      <3>3. u = v
        BY <3>2, Widths
      <3> QED BY <3>1, <3>3
    <2> QED BY <2>1, <2>2 DEF ChildrenAreOwned, Owned
  <1> QED BY <1>1, Invariance, PTL

\* test.ts: a report that was heard is what the file is judged by, unless the
\* timeout or an error of the pipe came first.
THEOREM ReportsBelieved == Spec => []HeardIsBelieved
  <1>1. Inv => HeardIsBelieved
    BY DEF Inv, FileInv, Believed, HeardIsBelieved
  <1> QED BY <1>1, Invariance, PTL
=============================================================================
