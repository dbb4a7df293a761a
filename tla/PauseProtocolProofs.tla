------------------------ MODULE PauseProtocolProofs ------------------------
EXTENDS PauseProtocol, SequenceTheorems, TLAPS

-----------------------------------------------------------------------------
(* What the operations on the rings and on the calls of doResume return.   *)

\* A function on 1..n with values in S is a sequence over S of length n.
LEMMA FunIsSeq ==
    ASSUME NEW S, NEW n \in Nat, NEW f \in [1..n -> S]
    PROVE  f \in Seq(S) /\ Len(f) = n /\ DOMAIN f = 1..n
  BY SeqDef

\* Settling and failing calls change no call's place, step or owner.
LEMMA CallsStayCalls ==
    ASSUME NEW calls \in Seq(Calls), NEW ids
    PROVE  /\ Settle(calls, ids) \in Seq(Calls) /\ Len(Settle(calls, ids)) = Len(calls)
           /\ FailAll(calls) \in Seq(Calls) /\ Len(FailAll(calls)) = Len(calls)
  <1>1. Len(calls) \in Nat /\ DOMAIN calls = 1..Len(calls) /\ \A i \in 1..Len(calls) : calls[i] \in Calls
    BY LenProperties, ElementOfSeq
  <1>2. Settle(calls, ids) \in [1..Len(calls) -> Calls]
    BY <1>1 DEF Settle, Calls
  <1>3. FailAll(calls) \in [1..Len(calls) -> Calls]
    BY <1>1 DEF FailAll, Calls
  <1> QED BY <1>1, <1>2, <1>3, FunIsSeq

\* Taking one call out leaves calls.
LEMMA WithoutIsCalls ==
    ASSUME resuming \in Seq(Calls), NEW i \in DOMAIN resuming
    PROVE  Without(i) \in Seq(Calls)
  <1>1. Len(resuming) \in Nat /\ DOMAIN resuming = 1..Len(resuming)
        /\ \A j \in 1..Len(resuming) : resuming[j] \in Calls
    BY LenProperties, ElementOfSeq
  <1>2. Len(resuming) - 1 \in Nat
    BY <1>1
  <1>3. Without(i) \in [1..(Len(resuming) - 1) -> Calls]
    BY <1>1, <1>2 DEF Without
  <1> QED BY <1>2, <1>3, FunIsSeq

\* A resume sent to a paused main thread is in its ring afterwards, and what was
\* there stays.
LEMMA ResumeIsSent ==
    ASSUME NEW q \in Seq(Requests), NEW step \in Steps
    PROVE  /\ BeginResume(q, step) \in Seq(Requests)
           /\ mainState = "paused" =>
                \E i \in DOMAIN BeginResume(q, step) : BeginResume(q, step)[i].kind = "resume"
  <1>1. [kind |-> "resume", step |-> step] \in Requests
    BY DEF Requests
  <1>2. CASE mainState = "paused"
    <2> DEFINE r == [kind |-> "resume", step |-> step]
    <2>1. Append(q, r) \in Seq(Requests) /\ Len(Append(q, r)) = Len(q) + 1 /\ Append(q, r)[Len(q) + 1] = r
      BY <1>1, AppendProperties
    <2>2. Len(q) + 1 \in DOMAIN Append(q, r)
      BY <2>1, LenProperties
    <2> QED BY <1>2, <2>1, <2>2 DEF BeginResume
  <1>3. CASE mainState # "paused"
    BY <1>3 DEF BeginResume
  <1> QED BY <1>2, <1>3

\* Appending to a ring keeps what it holds and adds the message.
LEMMA AppendHolds ==
    ASSUME NEW S, NEW q \in Seq(S), NEW m \in S
    PROVE  /\ Append(q, m) \in Seq(S)
           /\ \A i \in DOMAIN q : i \in DOMAIN Append(q, m) /\ Append(q, m)[i] = q[i]
           /\ \E i \in DOMAIN Append(q, m) : Append(q, m)[i] = m
  <1>1. DOMAIN q = 1..Len(q) /\ Len(q) \in Nat
    BY LenProperties
  <1>2. /\ Append(q, m) \in Seq(S) /\ Len(Append(q, m)) = Len(q) + 1
        /\ \A i \in 1..Len(q) : Append(q, m)[i] = q[i]
        /\ Append(q, m)[Len(q) + 1] = m
    BY AppendProperties
  <1>3. DOMAIN Append(q, m) = 1..(Len(q) + 1)
    BY <1>2, LenProperties
  <1> QED BY <1>1, <1>2, <1>3

-----------------------------------------------------------------------------
(* Type correctness, queues and scalars apart.                             *)

QueuesOK ==
    /\ reqQ \in Seq(Requests) /\ resQ \in Seq(Responses)
    /\ toMain \in Seq(Messages) /\ resuming \in Seq(Calls)

MainScalarsOK ==
    /\ mainState \in {"running", "paused"}
    /\ mainConnected \in BOOLEAN /\ interrupted \in BOOLEAN /\ backtrace \in BOOLEAN
    /\ lastStepMode \in Steps /\ armed \in Steps
    /\ breaks \in Nat /\ cmds \in Nat

WorkerScalarsOK ==
    /\ alive \in BOOLEAN /\ conn \in Nat /\ conns \in Nat
    /\ enabled \in BOOLEAN /\ paused \in BOOLEAN /\ epPaused \in BOOLEAN
    /\ pending \in BOOLEAN /\ flushTimer \in BOOLEAN /\ graceTimer \in BOOLEAN
    /\ nextId \in Nat \ {0}
    /\ view \in BOOLEAN

ScalarsOK == MainScalarsOK /\ WorkerScalarsOK

\* Every message a step puts on a queue is one the queue may carry.
LEMMA MessagesAreTyped ==
    ASSUME TypeOK
    PROVE  /\ \A step \in Steps : [kind |-> "resume", step |-> step] \in Requests
           /\ \A k \in {"release", "evaluate"} : [kind |-> k, id |-> nextId] \in Requests
           /\ [kind |-> "paused"] \in Responses
           /\ \A id \in Nat \ {0} : [kind |-> "reply", id |-> id] \in Responses
           /\ \A k \in {"connected", "disconnected", "closed", "release", "evaluate", "evaluatePaused"} :
                 [kind |-> k] \in Messages
           /\ NoStep \in Steps
  BY DEF TypeOK, Requests, Responses, Messages, Steps

\* A step taken from the head of the request ring.
LEMMA HeadIsTyped ==
    ASSUME TypeOK, reqQ # <<>>
    PROVE  /\ Head(reqQ).kind = "resume" => Head(reqQ).step \in Steps
           /\ Head(reqQ).kind # "resume" => Head(reqQ).id \in Nat \ {0}
           /\ Tail(reqQ) \in Seq(Requests)
  <1>1. Head(reqQ) \in Requests /\ Tail(reqQ) \in Seq(Requests)
    BY HeadTailProperties DEF TypeOK
  <1> QED BY <1>1 DEF Requests

\* doResume adds one call, and the release it waits for.
LEMMA DoResumeTyped ==
    ASSUME TypeOK, NEW step \in Steps, NEW of \in Nat, DoResume(step, of)
    PROVE  reqQ' \in Seq(Requests) /\ resuming' \in Seq(Calls) /\ resuming' # <<>>
  <1> DEFINE call == [id |-> nextId, step |-> step, of |-> of, ready |-> ~HasRoom(reqQ)]
             request == [kind |-> "release", id |-> nextId]
  <1>1. call \in Calls
    BY DEF TypeOK, Calls
  <1>2. request \in Requests
    BY MessagesAreTyped
  <1>3. resuming' = Append(resuming, call)
    BY DEF DoResume
  <1>4. resuming' \in Seq(Calls) /\ resuming' # <<>>
    BY <1>1, <1>3, AppendProperties DEF TypeOK
  <1>5. reqQ' = Append(reqQ, request) \/ reqQ' = reqQ
    BY DEF DoResume
  <1> HIDE DEF request
  <1>6. reqQ \in Seq(Requests) /\ Append(reqQ, request) \in Seq(Requests)
    BY <1>2, AppendProperties DEF TypeOK
  <1> QED BY <1>4, <1>5, <1>6

\* What a connection puts on the pipe.
LEMMA PipeTyped ==
    ASSUME TypeOK
    PROVE  LET hello == <<[kind |-> "connected"]>> IN
             hello \in Seq(Messages) /\ toMain \o hello \in Seq(Messages)
  <1>1. <<[kind |-> "connected"]>> \in Seq(Messages)
    BY MessagesAreTyped
  <1> QED BY <1>1, ConcatProperties DEF TypeOK

\* Releasing a session keeps the types; it starts a doResume if one is due.
LEMMA ReleaseSessionTyped ==
    ASSUME TypeOK, NEW then \in Seq(Messages), ReleaseSession(then)
    PROVE  reqQ' \in Seq(Requests) /\ resuming' \in Seq(Calls) /\ toMain' \in Seq(Messages)
  <1>1. <<[kind |-> "disconnected"]>> \in Seq(Messages)
    BY MessagesAreTyped
  <1>2. toMain \o <<[kind |-> "disconnected"]>> \in Seq(Messages)
    BY <1>1, ConcatProperties DEF TypeOK
  <1>3. toMain' \in Seq(Messages)
    BY <1>2, ConcatProperties DEF ReleaseSession
  <1>4. CASE paused
    BY <1>3, <1>4, DoResumeTyped, MessagesAreTyped DEF ReleaseSession, TypeOK
  <1>5. CASE ~paused
    BY <1>3, <1>5 DEF ReleaseSession, TypeOK
  <1> QED BY <1>4, <1>5

\* Leaving a pause keeps the types, and sends a resume to a paused main thread.
LEMMA LeavePauseTyped ==
    ASSUME TypeOK, NEW calls \in Seq(Calls), NEW step \in Steps, LeavePause(calls, step)
    PROVE  /\ reqQ' \in Seq(Requests) /\ resQ' \in Seq(Responses) /\ resuming' \in Seq(Calls)
           /\ mainState = "paused" => \E i \in DOMAIN reqQ' : reqQ'[i].kind = "resume"
  <1> DEFINE q == IF epPaused /\ PausedIn(resQ) /\ ~Connected THEN BeginResume(reqQ, NoStep) ELSE reqQ
  <1>1. q \in Seq(Requests)
    BY ResumeIsSent, MessagesAreTyped DEF TypeOK
  <1>2. reqQ' = BeginResume(q, step)
    BY DEF LeavePause
  <1>3. resQ' \in Seq(Responses)
    BY EmptySeq DEF LeavePause, TypeOK
  <1>4. resuming' \in Seq(Calls)
    BY CallsStayCalls DEF LeavePause
  <1> HIDE DEF q
  <1>5. /\ BeginResume(q, step) \in Seq(Requests)
        /\ mainState = "paused" =>
             \E i \in DOMAIN BeginResume(q, step) : BeginResume(q, step)[i].kind = "resume"
    BY <1>1, ResumeIsSent
  <1> QED BY <1>2, <1>3, <1>4, <1>5

LEMMA TypeInit == Init => TypeOK
  <1>1. <<>> \in Seq(Requests) /\ <<>> \in Seq(Responses) /\ <<>> \in Seq(Messages) /\ <<>> \in Seq(Calls)
    BY EmptySeq
  <1>2. NoStep \in Steps
    BY DEF Steps
  <1>3. 0 \in Nat /\ 1 \in Nat \ {0}
    OBVIOUS
  <1> QED BY <1>1, <1>2, <1>3, Zenon DEF Init, TypeOK, FirstId

\* Holding a pause sets flags to truth values.
LEMMA HoldPausedTyped ==
    ASSUME TypeOK, HoldPaused
    PROVE  pending' \in BOOLEAN /\ flushTimer' \in BOOLEAN /\ graceTimer' \in BOOLEAN
  BY Zenon DEF HoldPaused, FlushPendingPausedSoon, TypeOK

\* A step that leaves one side's flags alone keeps them in their ranges.
LEMMA KeptScalars ==
    ASSUME TypeOK
    PROVE  /\ UNCHANGED <<mainVars, breaks, cmds>> => MainScalarsOK'
           /\ UNCHANGED workerVars => WorkerScalarsOK'
  <1>1. UNCHANGED <<mainVars, breaks, cmds>> => MainScalarsOK'
    BY Zenon DEF TypeOK, MainScalarsOK, mainVars
  <1>2. UNCHANGED workerVars => WorkerScalarsOK'
    BY Zenon DEF TypeOK, WorkerScalarsOK, workerVars, holdVars
  <1> QED BY <1>1, <1>2

\* No step takes a flag, counter or step code out of its range.
LEMMA ScalarsNext == TypeOK /\ [Next]_vars => ScalarsOK'
  <1> SUFFICES ASSUME TypeOK, [Next]_vars PROVE ScalarsOK'
    OBVIOUS
  <1> USE DEF mainVars, holdVars, workerVars
  <1>0. NoStep \in Steps /\ 0 \in Nat /\ \A n \in Nat : n + 1 \in Nat /\ n + 1 \in Nat \ {0}
    BY MessagesAreTyped
  <1>1. CASE Main
    <2>1. ASSUME NEW reason \in Reasons, Break(reason) PROVE ScalarsOK'
      BY <1>0, <2>1, Zenon DEF Break, TakeReason, TypeOK, ScalarsOK, MainScalarsOK, WorkerScalarsOK
    <2>2. ASSUME NEW reason \in Reasons, BreakInternal(reason) PROVE ScalarsOK'
      BY <1>0, <2>2, Zenon DEF BreakInternal, TakeReason, TypeOK, ScalarsOK, MainScalarsOK, WorkerScalarsOK
    <2>3. CASE SkipBreak
      BY <1>0, <2>3, Zenon DEF SkipBreak, TypeOK, ScalarsOK, MainScalarsOK, WorkerScalarsOK
    <2>4. CASE ServeResume
      <3>1. mainState' \in {"running", "paused"} /\ lastStepMode' \in Steps /\ armed' \in Steps
        BY <2>4, HeadIsTyped, Zenon DEF ServeResume, TypeOK
      <3>2. UNCHANGED <<mainConnected, interrupted, backtrace, workerVars, breaks, cmds>>
        BY <2>4, Zenon DEF ServeResume
      <3>3. MainScalarsOK'
        BY <3>1, <3>2, Zenon DEF TypeOK, MainScalarsOK
      <3> QED BY <3>2, <3>3, KeptScalars DEF ScalarsOK
    <2>5. CASE ServeInspect
      BY <1>0, <2>5, Zenon DEF ServeInspect, TypeOK, ScalarsOK, MainScalarsOK, WorkerScalarsOK
    <2>6. CASE ServeTornDown
      BY <1>0, <2>6, Zenon DEF ServeTornDown, TypeOK, ScalarsOK, MainScalarsOK, WorkerScalarsOK
    <2>7. CASE ServePipe
      BY <1>0, <2>7, Zenon DEF ServePipe, TypeOK, ScalarsOK, MainScalarsOK, WorkerScalarsOK
    <2> QED BY <1>1, <2>1, <2>2, <2>3, <2>4, <2>5, <2>6, <2>7 DEF Main
  <1>2. CASE Worker
    <2>1. CASE Poll
      <3>1. paused' \in BOOLEAN /\ epPaused' \in BOOLEAN
        BY <2>1, Zenon DEF Poll, TypeOK
      <3>2. pending' \in BOOLEAN /\ flushTimer' \in BOOLEAN /\ graceTimer' \in BOOLEAN
        BY <2>1, HoldPausedTyped, Zenon DEF Poll, TypeOK
      <3>3. view' \in BOOLEAN
        BY <2>1, Zenon DEF Poll, TypeOK
      <3> QED BY <2>1, <3>1, <3>2, <3>3, Zenon DEF Poll, TypeOK, ScalarsOK, MainScalarsOK, WorkerScalarsOK
    <2>2. CASE FlushTimer
      BY <1>0, <2>2, Zenon DEF FlushTimer, TypeOK, ScalarsOK, MainScalarsOK, WorkerScalarsOK
    <2>3. CASE GraceTimer
      <3>1. paused' \in BOOLEAN /\ epPaused' \in BOOLEAN /\ pending' \in BOOLEAN /\ graceTimer' \in BOOLEAN
        BY <2>3, Zenon DEF GraceTimer, LeavePause, Repaused, TypeOK
      <3>2. UNCHANGED <<mainVars, alive, conn, conns, enabled, flushTimer, nextId, view, breaks, cmds>>
        BY <2>3, Zenon DEF GraceTimer
      <3>3. WorkerScalarsOK'
        BY <3>1, <3>2, Zenon DEF TypeOK, WorkerScalarsOK
      <3> QED BY <3>2, <3>3, KeptScalars DEF ScalarsOK
    <2>4. ASSUME NEW i \in DOMAIN resuming, ContinueResume(i) PROVE ScalarsOK'
      BY <1>0, <2>4, Zenon
         DEF ContinueResume, LeavePause, Repaused, HoldPaused, FlushPendingPausedSoon, TypeOK, ScalarsOK, MainScalarsOK, WorkerScalarsOK
    <2> QED BY <1>2, <2>1, <2>2, <2>3, <2>4 DEF Worker
  <1>3. CASE Client
    <2> USE DEF DoResume, ClearPendingPaused
    <2>1. CASE Connect
      <3>1. /\ conn' \in Nat /\ conns' \in Nat /\ view' \in BOOLEAN
            /\ enabled' \in BOOLEAN /\ nextId' \in Nat \ {0}
        BY <1>0, <2>1, Zenon DEF Connect, ReleaseSession, TypeOK
      <3>2. pending' \in BOOLEAN /\ flushTimer' \in BOOLEAN /\ graceTimer' \in BOOLEAN
        BY <2>1, Zenon DEF Connect, ReleaseSession, TypeOK
      <3>3. UNCHANGED <<mainVars, alive, paused, epPaused, breaks, cmds>>
        BY <2>1, Zenon DEF Connect
      <3>4. WorkerScalarsOK'
        BY <3>1, <3>2, <3>3, Zenon DEF TypeOK, WorkerScalarsOK
      <3> QED BY <3>3, <3>4, KeptScalars DEF ScalarsOK
    <2>2. CASE Disconnect
      BY <1>0, <2>2, Zenon DEF Disconnect, ReleaseSession, TypeOK, ScalarsOK, MainScalarsOK, WorkerScalarsOK
    <2>3. CASE WorkerExit
      <3>1. alive' \in BOOLEAN
        BY <2>3, Zenon DEF WorkerExit
      <3>2. UNCHANGED <<mainVars, conn, conns, enabled, paused, epPaused, holdVars, nextId, view, breaks, cmds>>
        BY <2>3, Zenon DEF WorkerExit
      <3>3. WorkerScalarsOK'
        BY <3>1, <3>2, Zenon DEF TypeOK, WorkerScalarsOK
      <3> QED BY <3>2, <3>3, KeptScalars DEF ScalarsOK
    <2>4. CASE Enable
      BY <1>0, <2>4, Zenon DEF Enable, Command, FlushPendingPausedSoon, TypeOK, ScalarsOK, MainScalarsOK, WorkerScalarsOK
    <2>5. CASE Disable
      BY <1>0, <2>5, Zenon DEF Disable, Command, TypeOK, ScalarsOK, MainScalarsOK, WorkerScalarsOK
    <2>6. CASE Pause
      BY <1>0, <2>6, Zenon DEF Pause, Command, TypeOK, ScalarsOK, MainScalarsOK, WorkerScalarsOK
    <2>7. CASE Evaluate
      <3>1. cmds' \in Nat /\ nextId' \in Nat \ {0}
        BY <1>0, <2>7, Zenon DEF Evaluate, Command, TypeOK
      <3>2. UNCHANGED <<mainVars, alive, conn, conns, enabled, paused, epPaused, holdVars, view, breaks>>
        BY <2>7, Zenon DEF Evaluate
      <3>3. WorkerScalarsOK'
        BY <3>1, <3>2, Zenon DEF TypeOK, WorkerScalarsOK
      <3>4. MainScalarsOK'
        BY <3>1, <3>2, Zenon DEF TypeOK, MainScalarsOK
      <3> QED BY <3>3, <3>4 DEF ScalarsOK
    <2>8. ASSUME NEW step \in Steps, Resume(step) PROVE ScalarsOK'
      BY <1>0, <2>8, Zenon DEF Resume, Command, TypeOK, ScalarsOK, MainScalarsOK, WorkerScalarsOK
    <2> QED BY <1>3, <2>1, <2>2, <2>3, <2>4, <2>5, <2>6, <2>7, <2>8 DEF Client
  <1>4. CASE UNCHANGED vars
    <2>1. UNCHANGED <<mainVars, workerVars, breaks, cmds>>
      BY <1>4 DEF vars
    <2> QED BY <2>1, KeptScalars DEF ScalarsOK
  <1> QED BY <1>1, <1>2, <1>3, <1>4 DEF Next

\* No step puts anything else than a message of its kind on a queue.
LEMMA QueuesNext == TypeOK /\ [Next]_vars => QueuesOK'
  <1> SUFFICES ASSUME TypeOK, [Next]_vars PROVE QueuesOK'
    OBVIOUS
  <1> USE DEF mainVars, holdVars, workerVars
  <1>0. QueuesOK
    BY DEF TypeOK, QueuesOK
  <1>1. CASE Main
    <2>1. ASSUME NEW reason \in Reasons, Break(reason) PROVE QueuesOK'
      <3>1. Append(resQ, [kind |-> "paused"]) \in Seq(Responses)
        BY <1>0, MessagesAreTyped, AppendProperties DEF QueuesOK
      <3> QED BY <1>0, <2>1, <3>1 DEF Break, QueuesOK
    <2>2. ASSUME NEW reason \in Reasons, BreakInternal(reason) PROVE QueuesOK'
      BY <1>0, <2>2 DEF BreakInternal, QueuesOK
    <2>3. CASE SkipBreak
      BY <1>0, <2>3 DEF SkipBreak, QueuesOK
    <2>4. CASE ServeResume
      BY <1>0, <2>4, EmptySeq DEF ServeResume, QueuesOK
    <2>5. CASE ServeInspect
      <3> DEFINE reply == [kind |-> "reply", id |-> Head(reqQ).id]
      <3>1. Tail(reqQ) \in Seq(Requests) /\ reply \in Responses
        BY <2>5, HeadIsTyped, MessagesAreTyped DEF ServeInspect
      <3>2. resQ' = resQ \/ resQ' = Append(resQ, reply)
        BY <2>5 DEF ServeInspect
      <3> HIDE DEF reply
      <3>3. Append(resQ, reply) \in Seq(Responses)
        BY <1>0, <3>1, AppendProperties DEF QueuesOK
      <3> QED BY <1>0, <2>5, <3>1, <3>2, <3>3 DEF ServeInspect, QueuesOK
    <2>6. CASE ServeTornDown
      BY <1>0, <2>6, EmptySeq DEF ServeTornDown, QueuesOK
    <2>7. CASE ServePipe
      <3>1. Tail(toMain) \in Seq(Messages)
        BY <1>0, <2>7, HeadTailProperties DEF ServePipe, QueuesOK
      <3> QED BY <1>0, <2>7, <3>1 DEF ServePipe, QueuesOK
    <2> QED BY <1>1, <2>1, <2>2, <2>3, <2>4, <2>5, <2>6, <2>7 DEF Main
  <1>2. CASE Worker
    <2>1. CASE Poll
      <3>1. Settle(resuming, RepliedIn(resQ)) \in Seq(Calls) /\ FailAll(resuming) \in Seq(Calls)
        BY <1>0, CallsStayCalls DEF QueuesOK
      <3>2. BeginResume(reqQ, NoStep) \in Seq(Requests)
        BY <1>0, MessagesAreTyped, ResumeIsSent DEF QueuesOK
      <3> QED BY <1>0, <2>1, <3>1, <3>2, EmptySeq DEF Poll, QueuesOK
    <2>2. CASE FlushTimer
      BY <1>0, <2>2 DEF FlushTimer, QueuesOK
    <2>3. CASE GraceTimer
      <3>1. CASE LeavePause(resuming, NoStep)
        BY <1>0, <2>3, <3>1, MessagesAreTyped, LeavePauseTyped DEF GraceTimer, QueuesOK
      <3> QED BY <1>0, <2>3, <3>1 DEF GraceTimer, QueuesOK
    <2>4. ASSUME NEW i \in DOMAIN resuming, ContinueResume(i) PROVE QueuesOK'
      <3>1. Without(i) \in Seq(Calls)
        BY <1>0, WithoutIsCalls DEF QueuesOK
      <3>2. resuming[i].step \in Steps
        <4>1. resuming \in Seq(Calls)
          BY <1>0 DEF QueuesOK
        <4>2. i \in 1..Len(resuming)
          BY <4>1, LenProperties
        <4>3. resuming[i] \in Calls
          BY <4>1, <4>2, ElementOfSeq
        <4> QED BY <4>3 DEF Calls
      <3>3. LeavePause(Without(i), resuming[i].step)
        BY <2>4 DEF ContinueResume
      <3> QED BY <1>0, <2>4, <3>1, <3>2, <3>3, LeavePauseTyped DEF ContinueResume, QueuesOK
    <2> QED BY <1>2, <2>1, <2>2, <2>3, <2>4 DEF Worker
  <1>3. CASE Client
    <2>1. CASE Connect
      BY <1>0, <2>1, ReleaseSessionTyped, PipeTyped DEF Connect, QueuesOK
    <2>2. CASE Disconnect
      BY <1>0, <2>2, ReleaseSessionTyped, EmptySeq DEF Disconnect, QueuesOK
    <2>3. CASE WorkerExit
      <3>1. Append(toMain, [kind |-> "closed"]) \in Seq(Messages)
        BY <1>0, MessagesAreTyped, AppendProperties DEF QueuesOK
      <3> QED BY <1>0, <2>3, <3>1 DEF WorkerExit, QueuesOK
    <2>4. CASE Enable
      BY <1>0, <2>4 DEF Enable, QueuesOK
    <2>5. CASE Disable
      <3>1. Append(toMain, [kind |-> "release"]) \in Seq(Messages)
        BY <1>0, MessagesAreTyped, AppendProperties DEF QueuesOK
      <3> QED BY <1>0, <2>5, <3>1, DoResumeTyped, MessagesAreTyped DEF Disable, QueuesOK
    <2>6. CASE Pause
      BY <1>0, <2>6 DEF Pause, QueuesOK
    <2>7. CASE Evaluate
      <3> DEFINE request == [kind |-> "evaluate", id |-> nextId]
                 message == [kind |-> IF IsPaused THEN "evaluatePaused" ELSE "evaluate"]
      <3>1. request \in Requests /\ message \in Messages
        BY MessagesAreTyped
      <3>2. /\ reqQ' = reqQ \/ reqQ' = Append(reqQ, request)
            /\ toMain' = toMain \/ toMain' = Append(toMain, message)
        BY <2>7 DEF Evaluate
      <3> HIDE DEF request, message
      <3>3. Append(reqQ, request) \in Seq(Requests) /\ Append(toMain, message) \in Seq(Messages)
        BY <1>0, <3>1, AppendProperties DEF QueuesOK
      <3> QED BY <1>0, <2>7, <3>2, <3>3 DEF Evaluate, QueuesOK
    <2>8. ASSUME NEW step \in Steps, Resume(step) PROVE QueuesOK'
      BY <1>0, <2>8, DoResumeTyped DEF Resume, QueuesOK
    <2> QED BY <1>3, <2>1, <2>2, <2>3, <2>4, <2>5, <2>6, <2>7, <2>8 DEF Client
  <1>4. CASE UNCHANGED vars
    BY <1>0, <1>4 DEF vars, QueuesOK
  <1> QED BY <1>1, <1>2, <1>3, <1>4 DEF Next

\* Every behaviour of the protocol stays within TypeOK.
THEOREM TypeCorrect == Spec => []TypeOK
  <1>1. TypeOK /\ [Next]_vars => TypeOK'
    BY QueuesNext, ScalarsNext, Zenon DEF QueuesOK, ScalarsOK, MainScalarsOK, WorkerScalarsOK, TypeOK
  <1> QED BY <1>1, TypeInit, PTL DEF Spec

-----------------------------------------------------------------------------
(* The transport of inspect calls follows the pause state of the domain.   *)

\* The two flags are only ever set together, and to the same value.
THEOREM TransportCorrect == Spec => []TransportFollowsDomain
  <1>1. Init => TransportFollowsDomain
    BY DEF Init, TransportFollowsDomain
  <1>2. ASSUME TransportFollowsDomain, [Next]_vars PROVE TransportFollowsDomain'
    <2> USE TransportFollowsDomain DEF TransportFollowsDomain, mainVars, holdVars, workerVars
    <2>1. CASE Main
      BY <2>1, Zenon DEF Main, Break, BreakInternal, SkipBreak, ServeResume, ServeInspect, ServeTornDown, ServePipe
    <2>2. CASE Worker
      <3>1. CASE Poll
        <4>1. \/ paused' = paused /\ epPaused' = epPaused
              \/ paused' = TRUE /\ epPaused' = TRUE
              \/ paused' = FALSE /\ epPaused' = FALSE
          BY <3>1, Zenon DEF Poll
        <4>2. CASE paused' = paused /\ epPaused' = epPaused
          BY <4>2
        <4>3. CASE paused' = TRUE /\ epPaused' = TRUE
          BY <4>3
        <4>4. CASE paused' = FALSE /\ epPaused' = FALSE
          BY <4>4
        <4> QED BY <4>1, <4>2, <4>3, <4>4
      <3>2. CASE FlushTimer
        BY <3>2, Zenon DEF FlushTimer
      <3>3. CASE GraceTimer
        BY <3>3, Zenon DEF GraceTimer, LeavePause
      <3>4. ASSUME NEW i \in DOMAIN resuming, ContinueResume(i) PROVE TransportFollowsDomain'
        BY <3>4, Zenon DEF ContinueResume, LeavePause
      <3> QED BY <2>2, <3>1, <3>2, <3>3, <3>4 DEF Worker
    <2>3. CASE Client
      BY <2>3, Zenon DEF Client, Connect, Disconnect, WorkerExit, Enable, Disable, Pause, Evaluate, Resume
    <2>4. CASE UNCHANGED vars
      BY <2>4, Zenon DEF vars
    <2> QED BY <1>2, <2>1, <2>2, <2>3, <2>4 DEF Next
  <1> QED BY <1>1, <1>2, PTL DEF Spec

-----------------------------------------------------------------------------
(* A blocked main thread always has an owner.                              *)

\* While the main thread stays paused, serving an inspect request takes no
\* Paused event and no resume away.
LEMMA ServeInspectKeeps ==
    ASSUME TypeOK, ServeInspect
    PROVE  (PausedEventComing => PausedEventComing') /\ (ResumeComing => ResumeComing')
  <1>1. reqQ \in Seq(Requests) /\ reqQ # <<>> /\ resQ \in Seq(Responses)
    BY DEF TypeOK, ServeInspect
  <1>2. PausedEventComing => PausedEventComing'
    <2> DEFINE reply == [kind |-> "reply", id |-> Head(reqQ).id]
    <2>1. reply \in Responses
      BY HeadIsTyped, MessagesAreTyped DEF ServeInspect
    <2>2. resQ' = resQ \/ resQ' = Append(resQ, reply)
      BY DEF ServeInspect
    <2> HIDE DEF reply
    <2>3. \A i \in DOMAIN resQ : i \in DOMAIN Append(resQ, reply) /\ Append(resQ, reply)[i] = resQ[i]
      BY <1>1, <2>1, AppendHolds
    <2> QED BY <2>2, <2>3 DEF PausedEventComing, PausedIn
  <1>3. ResumeComing => ResumeComing'
    <2> SUFFICES ASSUME NEW i \in DOMAIN reqQ, reqQ[i].kind = "resume" PROVE ResumeComing'
      BY DEF ResumeComing
    <2>1. DOMAIN reqQ = 1..Len(reqQ) /\ Len(reqQ) \in Nat
      BY <1>1, LenProperties
    <2>2. /\ Tail(reqQ) \in Seq(Requests) /\ Len(Tail(reqQ)) = Len(reqQ) - 1
          /\ \A j \in 1..Len(Tail(reqQ)) : Tail(reqQ)[j] = reqQ[j + 1]
      BY <1>1, HeadTailProperties
    <2>3. i # 1
      BY <1>1, <2>1 DEF ServeInspect
    <2>4. i - 1 \in 1..Len(Tail(reqQ)) /\ Tail(reqQ)[i - 1] = reqQ[i]
      BY <2>1, <2>2, <2>3
    <2>5. i - 1 \in DOMAIN reqQ' /\ reqQ'[i - 1].kind = "resume"
      BY <2>2, <2>4, LenProperties DEF ServeInspect
    <2> QED BY <2>5 DEF ResumeComing
  <1> QED BY <1>2, <1>3

\* doResume adds a request behind those already in the ring.
LEMMA DoResumeKeeps ==
    ASSUME TypeOK, NEW step, NEW of, DoResume(step, of)
    PROVE  ResumeComing => ResumeComing'
  <1> DEFINE request == [kind |-> "release", id |-> nextId]
  <1>1. request \in Requests /\ reqQ \in Seq(Requests)
    BY MessagesAreTyped DEF TypeOK
  <1>2. reqQ' = Append(reqQ, request) \/ reqQ' = reqQ
    BY DEF DoResume
  <1> HIDE DEF request
  <1>3. \A i \in DOMAIN reqQ : i \in DOMAIN Append(reqQ, request) /\ Append(reqQ, request)[i] = reqQ[i]
    BY <1>1, AppendHolds
  <1> QED BY <1>2, <1>3 DEF ResumeComing

\* So does an evaluate.
LEMMA EvaluateKeeps ==
    ASSUME TypeOK, Evaluate
    PROVE  ResumeComing => ResumeComing'
  <1> DEFINE request == [kind |-> "evaluate", id |-> nextId]
  <1>1. request \in Requests /\ reqQ \in Seq(Requests)
    BY MessagesAreTyped DEF TypeOK
  <1>2. reqQ' = Append(reqQ, request) \/ reqQ' = reqQ
    BY DEF Evaluate
  <1> HIDE DEF request
  <1>3. \A i \in DOMAIN reqQ : i \in DOMAIN Append(reqQ, request) /\ Append(reqQ, request)[i] = reqQ[i]
    BY <1>1, AppendHolds
  <1> QED BY <1>2, <1>3 DEF ResumeComing

\* A step that blocks the main thread leaves its Paused event in the ring.
LEMMA BreakAnnounces ==
    ASSUME TypeOK, NEW reason, Break(reason), mainState' = "paused"
    PROVE  PausedEventComing'
  <1> DEFINE event == [kind |-> "paused"]
  <1>1. mainState = "running" /\ resQ' = Append(resQ, event)
    BY DEF Break
  <1>2. event \in Responses /\ resQ \in Seq(Responses) /\ event.kind = "paused"
    BY MessagesAreTyped DEF TypeOK
  <1> HIDE DEF event
  <1>3. \E i \in DOMAIN Append(resQ, event) : Append(resQ, event)[i] = event
    BY <1>2, AppendHolds
  <1> QED BY <1>1, <1>2, <1>3 DEF PausedEventComing, PausedIn

\* Wherever the domain gives a pause up, a resume is in the ring afterwards.
LEMMA LeavingResumes ==
    ASSUME TypeOK, NEW i \in DOMAIN resuming, ContinueResume(i), mainState = "paused"
    PROVE  ResumeComing'
  <1>1. Without(i) \in Seq(Calls)
    BY WithoutIsCalls DEF TypeOK
  <1>2. resuming[i].step \in Steps
    <2>1. resuming \in Seq(Calls)
      BY DEF TypeOK
    <2>2. i \in 1..Len(resuming)
      BY <2>1, LenProperties
    <2>3. resuming[i] \in Calls
      BY <2>1, <2>2, ElementOfSeq
    <2> QED BY <2>3 DEF Calls
  <1>3. LeavePause(Without(i), resuming[i].step)
    BY DEF ContinueResume
  <1> QED BY <1>1, <1>2, <1>3, LeavePauseTyped DEF ResumeComing

\* The expired grace timer gives the pause up the same way.
LEMMA GraceResumes ==
    ASSUME TypeOK, GraceTimer, mainState = "paused"
    PROVE  ResumeComing' \/ UNCHANGED <<paused, reqQ, resQ, resuming, pending>>
  <1>1. CASE LeavePause(resuming, NoStep)
    BY <1>1, MessagesAreTyped, LeavePauseTyped DEF TypeOK, ResumeComing
  <1>2. CASE ~LeavePause(resuming, NoStep)
    BY <1>2 DEF GraceTimer
  <1> QED BY <1>1, <1>2

\* A poll that finds nobody to show the pause to resumes the main thread.
LEMMA PollResumes ==
    ASSUME TypeOK, Poll, mainState = "paused", PausedEventComing, ~Connected
    PROVE  ResumeComing'
  <1>1. reqQ' = BeginResume(reqQ, NoStep)
    BY DEF Poll, PausedEventComing
  <1>2. reqQ \in Seq(Requests) /\ NoStep \in Steps
    BY MessagesAreTyped DEF TypeOK
  <1>3. \E i \in DOMAIN BeginResume(reqQ, NoStep) : BeginResume(reqQ, NoStep)[i].kind = "resume"
    BY <1>2, ResumeIsSent
  <1> QED BY <1>1, <1>3 DEF ResumeComing

\* The three owners hand a pause to each other and never drop it.
LEMMA OwnerNext ==
    ASSUME TypeOK, PauseHasAnOwner, [Next]_vars
    PROVE  PauseHasAnOwner'
  <1> USE DEF mainVars, holdVars, workerVars
  <1> SUFFICES ASSUME mainState' = "paused", alive'
               PROVE  PausedEventComing' \/ paused' \/ ResumeComing'
    BY DEF PauseHasAnOwner
  <1>1. CASE Main
    <2>1. ASSUME NEW reason \in Reasons, Break(reason) PROVE PausedEventComing'
      BY <2>1, BreakAnnounces
    <2>2. CASE ServeInspect
      BY <2>2, ServeInspectKeeps DEF ServeInspect, PauseHasAnOwner
    <2>3. ASSUME NEW reason \in Reasons, BreakInternal(reason) PROVE FALSE
      BY <2>3 DEF BreakInternal
    <2> QED BY <1>1, <2>1, <2>2, <2>3 DEF Main, SkipBreak, ServeResume, ServeTornDown, ServePipe
  <1>2. CASE Worker
    <2>0. mainState = "paused" /\ alive
      BY <1>2 DEF Worker, Poll, FlushTimer, GraceTimer, ContinueResume, Idle
    <2>1. CASE Poll
      <3>1. CASE PausedEventComing /\ ~Connected
        BY <2>0, <2>1, <3>1, PollResumes
      <3>2. CASE PausedEventComing /\ Connected
        BY <2>1, <3>2 DEF Poll, PausedEventComing
      <3>3. CASE ~PausedEventComing
        BY <2>0, <2>1, <3>3 DEF Poll, PausedEventComing, ResumeComing, PauseHasAnOwner
      <3> QED BY <3>1, <3>2, <3>3
    <2>2. CASE FlushTimer
      BY <2>0, <2>2 DEF FlushTimer, PauseHasAnOwner, PausedEventComing, ResumeComing
    <2>3. CASE GraceTimer
      BY <2>0, <2>3, GraceResumes DEF PauseHasAnOwner, PausedEventComing, ResumeComing
    <2>4. ASSUME NEW i \in DOMAIN resuming, ContinueResume(i) PROVE ResumeComing'
      BY <2>0, <2>4, LeavingResumes
    <2> QED BY <1>2, <2>1, <2>2, <2>3, <2>4 DEF Worker
  <1>3. CASE Client
    <2>1. mainState = "paused" /\ alive /\ resQ' = resQ /\ paused' = paused
      BY <1>3 DEF Client, Connect, Disconnect, WorkerExit, Enable, Disable, Pause, Evaluate, Resume, Command, Idle
    <2>2. reqQ' = reqQ \/ Evaluate \/ \E step, of : DoResume(step, of)
      BY <1>3 DEF Client, Connect, Disconnect, WorkerExit, Enable, Disable, Pause, Resume, ReleaseSession
    <2>3. ResumeComing => ResumeComing'
      BY <2>2, DoResumeKeeps, EvaluateKeeps DEF ResumeComing
    <2> QED BY <2>1, <2>3 DEF PauseHasAnOwner, PausedEventComing
  <1>4. CASE UNCHANGED vars
    BY <1>4 DEF vars, PauseHasAnOwner, PausedEventComing, ResumeComing
  <1> QED BY <1>1, <1>2, <1>3, <1>4 DEF Next

\* A main thread blocked in serviceWhilePaused is never forgotten: its event or
\* its resume is in a ring, or the domain holds the pause.
THEOREM OwnerCorrect == Spec => []PauseHasAnOwner
  <1>1. Init => PauseHasAnOwner
    BY DEF Init, PauseHasAnOwner
  <1>2. TypeOK /\ PauseHasAnOwner /\ [Next]_vars => PauseHasAnOwner'
    BY OwnerNext
  <1> QED BY <1>1, <1>2, TypeCorrect, PTL DEF Spec

-----------------------------------------------------------------------------
(* A pause whose event was routed is shown to the client or given up.      *)

\* The timers match `enabled`: the settle timer is armed only while Debugger is
\* enabled, the grace timer only while it is not.
TimersFit == (flushTimer => enabled) /\ (graceTimer => ~enabled)

\* Every place that sets `enabled` sets or clears the timer that goes with it.
LEMMA TimersNext ==
    ASSUME TypeOK, TimersFit, [Next]_vars
    PROVE  TimersFit'
  <1> USE DEF TimersFit, mainVars, holdVars, workerVars
  <1>1. CASE Main
    BY <1>1 DEF Main, Break, BreakInternal, SkipBreak, ServeResume, ServeInspect, ServeTornDown, ServePipe
  <1>2. CASE Worker
    <2>1. CASE Poll
      BY <2>1 DEF Poll, HoldPaused, FlushPendingPausedSoon
    <2>2. CASE FlushTimer
      BY <2>2 DEF FlushTimer
    <2>3. CASE GraceTimer
      BY <2>3 DEF GraceTimer
    <2>4. ASSUME NEW i \in DOMAIN resuming, ContinueResume(i) PROVE TimersFit'
      BY <2>4 DEF ContinueResume, HoldPaused, FlushPendingPausedSoon
    <2> QED BY <1>2, <2>1, <2>2, <2>3, <2>4 DEF Worker
  <1>3. CASE Client
    <2> USE DEF ClearPendingPaused, DoResume
    <2>1. CASE Connect
      BY <2>1 DEF Connect, ReleaseSession
    <2>2. CASE Disconnect
      BY <2>2 DEF Disconnect, ReleaseSession
    <2>3. CASE WorkerExit \/ Pause \/ Evaluate
      BY <2>3 DEF WorkerExit, Pause, Evaluate
    <2>4. CASE Enable
      BY <2>4 DEF Enable, FlushPendingPausedSoon
    <2>5. CASE Disable
      BY <2>5 DEF Disable
    <2>6. ASSUME NEW step \in Steps, Resume(step) PROVE TimersFit'
      BY <2>6 DEF Resume
    <2> QED BY <1>3, <2>1, <2>2, <2>3, <2>4, <2>5, <2>6 DEF Client
  <1>4. CASE UNCHANGED vars
    BY <1>4 DEF vars
  <1> QED BY <1>1, <1>2, <1>3, <1>4 DEF Next

\* doResume leaves a call that waits.
LEMMA DoResumeWaits ==
    ASSUME TypeOK, NEW step, NEW of, DoResume(step, of)
    PROVE  resuming' # <<>>
  <1> DEFINE call == [id |-> nextId, step |-> step, of |-> of, ready |-> ~HasRoom(reqQ)]
  <1>1. resuming \in Seq(Calls) /\ resuming' = Append(resuming, call)
    BY DEF TypeOK, DoResume
  <1>2. Len(resuming) \in Nat /\ Len(Append(resuming, call)) = Len(resuming) + 1
    BY <1>1
  <1> QED BY <1>1, <1>2

\* The steps that show, hold, give up or take over a pause.
LEMMA OfferNext ==
    ASSUME TypeOK, PauseHasAnOwner, TimersFit, HeldPauseIsOffered, [Next]_vars
    PROVE  HeldPauseIsOffered'
  <1> USE DEF mainVars, holdVars, workerVars
  <1> SUFFICES ASSUME mainState' = "paused", alive', ~PausedEventComing', ~ResumeComing', resuming' = <<>>
               PROVE  Connected' /\ (view' \/ (pending' /\ (IF enabled' THEN flushTimer' ELSE graceTimer')))
    BY DEF HeldPauseIsOffered
  <1>0. TimersFit'
    BY TimersNext
  <1>1. CASE Main
    <2>1. ASSUME NEW reason \in Reasons, Break(reason) PROVE FALSE
      BY <2>1, BreakAnnounces
    <2>2. ASSUME NEW reason \in Reasons, BreakInternal(reason) PROVE FALSE
      BY <2>2 DEF BreakInternal
    <2>3. CASE ServeInspect
      BY <2>3, ServeInspectKeeps DEF ServeInspect, HeldPauseIsOffered, Connected
    <2> QED BY <1>1, <2>1, <2>2, <2>3 DEF Main, SkipBreak, ServeResume, ServeTornDown, ServePipe
  <1>2. CASE Worker
    <2>0. mainState = "paused" /\ alive
      BY <1>2 DEF Worker, Poll, FlushTimer, GraceTimer, ContinueResume, Idle
    <2>1. CASE Poll
      <3>1. CASE PausedEventComing /\ ~Connected
        BY <2>0, <2>1, <3>1, PollResumes
      <3>2. CASE PausedEventComing /\ Connected
        BY <2>1, <3>2, <1>0 DEF Poll, PausedEventComing, HoldPaused, FlushPendingPausedSoon, Connected, TimersFit
      <3>3. CASE ~PausedEventComing
        <4>1. Len(Settle(resuming, RepliedIn(resQ))) = Len(resuming) /\ resuming' = Settle(resuming, RepliedIn(resQ))
          BY <2>1, <3>3, CallsStayCalls DEF Poll, PausedEventComing, TypeOK
        <4>2. resuming = <<>>
          BY <4>1, EmptySeq DEF TypeOK
        <4> QED BY <2>0, <2>1, <3>3, <4>2 DEF Poll, PausedEventComing, ResumeComing, HeldPauseIsOffered, Connected
      <3> QED BY <3>1, <3>2, <3>3
    <2>2. CASE FlushTimer
      <3>1. paused /\ resuming = <<>> /\ ~PausedEventComing /\ ~ResumeComing
        BY <2>0, <2>2 DEF FlushTimer, PauseHasAnOwner, PausedEventComing, ResumeComing
      <3> QED BY <2>0, <2>2, <3>1 DEF FlushTimer, HeldPauseIsOffered, TimersFit, Connected
    <2>3. CASE GraceTimer
      <3>1. UNCHANGED <<paused, reqQ, resQ, resuming, pending>>
        BY <2>0, <2>3, GraceResumes
      <3>2. paused /\ resuming = <<>> /\ ~PausedEventComing /\ ~ResumeComing
        BY <2>0, <3>1 DEF PauseHasAnOwner, PausedEventComing, ResumeComing
      <3>3. ~enabled /\ ~graceTimer'
        BY <2>3, <3>1, <3>2 DEF GraceTimer, TimersFit, LeavePause, PausedEventComing, Repaused
      <3>4. ~pending
        BY <2>3, <3>1, <3>2, <3>3 DEF GraceTimer, LeavePause, PausedEventComing, Repaused
      <3> QED BY <2>0, <2>3, <3>2, <3>4 DEF GraceTimer, HeldPauseIsOffered, Connected
    <2>4. ASSUME NEW i \in DOMAIN resuming, ContinueResume(i) PROVE FALSE
      BY <2>0, <2>4, LeavingResumes
    <2> QED BY <1>2, <2>1, <2>2, <2>3, <2>4 DEF Worker
  <1>3. CASE Client
    <2>1. mainState = "paused" /\ alive /\ resQ' = resQ
      BY <1>3 DEF Client, Connect, Disconnect, WorkerExit, Enable, Disable, Pause, Evaluate, Resume, Command, Idle
    <2>2. \A step, of : ~DoResume(step, of)
      BY DoResumeWaits
    <2>3. ~PausedEventComing /\ ~ResumeComing /\ resuming = <<>>
      <3>1. reqQ' = reqQ \/ Evaluate
        BY <1>3, <2>2 DEF Client, Connect, Disconnect, WorkerExit, Enable, Disable, Pause, Resume, ReleaseSession
      <3>2. resuming' = resuming
        BY <1>3, <2>2 DEF Client, Connect, Disconnect, WorkerExit, Enable, Disable, Pause, Resume, ReleaseSession, Evaluate
      <3> QED BY <2>1, <3>1, <3>2, EvaluateKeeps DEF PausedEventComing, ResumeComing
    <2>4. paused /\ Connected /\ (view \/ (pending /\ (IF enabled THEN flushTimer ELSE graceTimer)))
      BY <2>1, <2>3 DEF PauseHasAnOwner, HeldPauseIsOffered
    <2>5. CASE Enable
      BY <2>4, <2>5 DEF Enable, FlushPendingPausedSoon, Connected
    <2>6. CASE WorkerExit \/ Pause \/ Evaluate
      BY <2>4, <2>6 DEF WorkerExit, Pause, Evaluate, Connected
    <2> QED BY <1>3, <2>2, <2>4, <2>5, <2>6 DEF Client, Connect, Disconnect, Disable, Resume, ReleaseSession
  <1>4. CASE UNCHANGED vars
    BY <1>4 DEF vars, HeldPauseIsOffered, PausedEventComing, ResumeComing, Connected
  <1> QED BY <1>1, <1>2, <1>3, <1>4 DEF Next

\* Once its event was routed, a pause is in front of the attached client or has
\* a timer that will bring it there or end it.
THEOREM OfferCorrect == Spec => []HeldPauseIsOffered
  <1>1. Init => TimersFit /\ HeldPauseIsOffered
    BY DEF Init, TimersFit, HeldPauseIsOffered
  <1>2. TypeOK /\ PauseHasAnOwner /\ TimersFit /\ [Next]_vars => TimersFit'
    BY TimersNext
  <1>3. TypeOK /\ PauseHasAnOwner /\ TimersFit /\ HeldPauseIsOffered /\ [Next]_vars => HeldPauseIsOffered'
    BY OfferNext
  <1> QED BY <1>1, <1>2, <1>3, TypeCorrect, OwnerCorrect, PTL DEF Spec
=============================================================================
