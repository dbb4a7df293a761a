------------------------ MODULE FetchInterceptProofs ------------------------
(***************************************************************************)
(* Proofs about fetch interception.  A request is in one place at a time:  *)
(* on its way to the worker, pending there, or in the answer on its way    *)
(* back; and a message that lets the fetches of one client go precedes the *)
(* announcement of the next.                                               *)
(***************************************************************************)
EXTENDS FetchIntercept, SequenceTheorems, TLAPS

-----------------------------------------------------------------------------
(* Types, in groups. *)

Fates == {"new", "waits", "released", "answered"}
PipeMsgs == Answered \cup [kind : {"connected"}, of : 1..MaxConns] \cup [kind : {"disconnected", "closed"}]
RingMsgs == Answered \cup [kind : {"inspect", "resume"}]

MainOK ==
    /\ hooked \in BOOLEAN /\ known \in 0..MaxConns /\ attached \in BOOLEAN /\ stopped \in BOOLEAN
    /\ fetch \in [Requests -> Fates]
WiresOK == toWorker \in Seq(Requests) /\ toMain \in Seq(PipeMsgs) /\ ring \in Seq(RingMsgs)
WorkerOK ==
    /\ alive \in BOOLEAN /\ conn \in 0..MaxConns /\ conns \in 0..MaxConns /\ sockets \subseteq 1..MaxConns
    /\ enabled \in BOOLEAN /\ pending \in Seq(Requests)
    /\ paused \in BOOLEAN /\ resuming \in BOOLEAN
GhostsOK ==
    /\ since \in [Requests -> Nat] /\ told \subseteq Requests
    /\ given \in [Requests -> 0..MaxConns] /\ lost \subseteq Requests /\ breaks \in Nat

LEMMA Groups == /\ TypeOK <=> MainOK /\ WiresOK /\ WorkerOK /\ GhostsOK
                /\ (TypeOK <=> MainOK /\ WiresOK /\ WorkerOK /\ GhostsOK)'
  BY DEF TypeOK, MainOK, WiresOK, WorkerOK, GhostsOK, Fates, PipeMsgs, RingMsgs

-----------------------------------------------------------------------------
(* Sequences. *)

Has(q, r) == \E i \in DOMAIN q : q[i] = r
Once(q) == \A i, j \in DOMAIN q : q[i] = q[j] => i = j
Says(q, k) == \E i \in DOMAIN q : q[i].kind = k

LEMMA TailIs ==
    ASSUME NEW S, NEW q \in Seq(S), q # <<>>
    PROVE  /\ Head(q) \in S /\ Head(q) = q[1] /\ 1 \in DOMAIN q /\ DOMAIN q = 1..Len(q) /\ Len(q) \in Nat
           /\ Tail(q) \in Seq(S) /\ DOMAIN Tail(q) = 1..(Len(q) - 1)
           /\ \A i \in 1..(Len(q) - 1) : Tail(q)[i] = q[i+1]
           /\ \A i \in DOMAIN q : i # 1 => i - 1 \in DOMAIN Tail(q) /\ Tail(q)[i-1] = q[i]
  OBVIOUS

LEMMA CatIs ==
    ASSUME NEW S, NEW q \in Seq(S), NEW t \in Seq(S)
    PROVE  /\ q \o t \in Seq(S) /\ DOMAIN q = 1..Len(q) /\ DOMAIN t = 1..Len(t) /\ Len(q) \in Nat /\ Len(t) \in Nat
           /\ DOMAIN (q \o t) = 1..(Len(q) + Len(t))
           /\ \A i \in DOMAIN q : i \in DOMAIN (q \o t) /\ (q \o t)[i] = q[i]
           /\ \A i \in DOMAIN t : Len(q) + i \in DOMAIN (q \o t) /\ (q \o t)[Len(q) + i] = t[i]
           /\ \A i \in DOMAIN (q \o t) :
                \/ i \in DOMAIN q /\ (q \o t)[i] = q[i]
                \/ i - Len(q) \in DOMAIN t /\ i > Len(q) /\ (q \o t)[i] = t[i - Len(q)]
  OBVIOUS

\* Taking out the one at `k` leaves the others.
LEMMA FrontIs ==
    ASSUME NEW S, NEW q \in Seq(S), NEW k \in 1..Len(q), NEW a, a = SubSeq(q, 1, k - 1)
    PROVE  a \in Seq(S) /\ Len(a) = k - 1 /\ \A i \in 1..(k-1) : a[i] = q[i]
  <1>1. Len(q) \in Nat /\ k \in Int /\ 1 <= k /\ k <= Len(q)
    BY LenProperties
  <1>2. 1 \in Int /\ k - 1 \in Int /\ \A i \in 1..(k-1) : q[i] \in S
    BY <1>1
  <1>3. a \in Seq(S) /\ Len(a) = (IF 1 <= k - 1 THEN (k-1)-1+1 ELSE 0) /\ \A i \in 1..((k-1)-1+1) : a[i] = q[1+i-1]
    BY <1>2, SubSeqProperties
  <1> QED BY <1>1, <1>3

LEMMA BackIs ==
    ASSUME NEW S, NEW q \in Seq(S), NEW k \in 1..Len(q), NEW b, b = SubSeq(q, k + 1, Len(q))
    PROVE  b \in Seq(S) /\ Len(b) = Len(q) - k /\ \A i \in 1..(Len(q) - k) : b[i] = q[k + i]
  <1>1. Len(q) \in Nat /\ k \in Int /\ 1 <= k /\ k <= Len(q)
    BY LenProperties
  <1>2. k + 1 \in Int /\ Len(q) \in Int /\ \A i \in (k+1)..Len(q) : q[i] \in S
    BY <1>1
  <1>3. /\ b \in Seq(S) /\ Len(b) = IF k + 1 <= Len(q) THEN Len(q)-(k+1)+1 ELSE 0
        /\ \A i \in 1..(Len(q)-(k+1)+1) : b[i] = q[(k+1)+i-1]
    BY <1>2, SubSeqProperties
  <1> QED BY <1>1, <1>3

LEMMA JoinedIs ==
    ASSUME NEW S, NEW q \in Seq(S), NEW k \in 1..Len(q), NEW a \in Seq(S), NEW b \in Seq(S),
           Len(a) = k - 1, \A i \in 1..(k-1) : a[i] = q[i],
           Len(b) = Len(q) - k, \A i \in 1..(Len(q) - k) : b[i] = q[k + i]
    PROVE  /\ a \o b \in Seq(S) /\ Len(a \o b) = Len(q) - 1
           /\ \A i \in 1..(Len(q) - 1) : (a \o b)[i] = IF i < k THEN q[i] ELSE q[i+1]
  <1>1. Len(q) \in Nat /\ k \in Int /\ 1 <= k /\ k <= Len(q)
    BY LenProperties
  <1>2. PICK t : t = a \o b
    OBVIOUS
  <1>3. /\ t \in Seq(S) /\ Len(t) = Len(a) + Len(b)
        /\ \A i \in 1..(Len(a) + Len(b)) : t[i] = IF i <= Len(a) THEN a[i] ELSE b[i - Len(a)]
    BY <1>2, ConcatProperties
  <1>4. ASSUME NEW i \in 1..(Len(q) - 1) PROVE t[i] = IF i < k THEN q[i] ELSE q[i+1]
    <2>1. i \in 1..(Len(a) + Len(b)) /\ i \in Nat
      BY <1>1
    <2>2. t[i] = IF i <= Len(a) THEN a[i] ELSE b[i - Len(a)]
      BY <1>3, <2>1
    <2>3. CASE i < k
      <3>1. i <= Len(a) /\ i \in 1..(k-1)
        BY <1>1, <2>1, <2>3
      <3> QED BY <2>2, <2>3, <3>1
    <2>4. CASE ~(i < k)
      <3>1. /\ ~(i <= Len(a)) /\ i - Len(a) \in 1..(Len(q) - k)
            /\ k + (i - Len(a)) = i + 1
        BY <1>1, <2>1, <2>4
      <3> QED BY <2>2, <2>4, <3>1
    <2> QED BY <2>3, <2>4
  <1> QED BY <1>1, <1>2, <1>3, <1>4

LEMMA TakenOut ==
    ASSUME NEW S, NEW q \in Seq(S), NEW k \in 1..Len(q), Once(q), NEW t \in Seq(S), Len(t) = Len(q) - 1,
           \A i \in 1..(Len(q) - 1) : t[i] = IF i < k THEN q[i] ELSE q[i+1]
    PROVE  Once(t) /\ \A r : Has(t, r) <=> Has(q, r) /\ r # q[k]
  <1>1. Len(q) \in Nat /\ k \in Int /\ 1 <= k /\ k <= Len(q) /\ DOMAIN q = 1..Len(q)
    BY LenProperties
  <1>2. DOMAIN t = 1..(Len(q) - 1)
    BY <1>1, LenProperties
  <1>3. \A i \in 1..(Len(q) - 1) : t[i] = IF i < k THEN q[i] ELSE q[i+1]
    OBVIOUS
  <1>4. \A i \in 1..(Len(q) - 1) : \E x \in 1..Len(q) :
            t[i] = q[x] /\ x # k /\ (i < k => x = i) /\ (~(i < k) => x = i + 1)
    <2> SUFFICES ASSUME NEW i \in 1..(Len(q) - 1)
                 PROVE  \E x \in 1..Len(q) : t[i] = q[x] /\ x # k /\ (i < k => x = i) /\ (~(i < k) => x = i + 1)
      OBVIOUS
    <2>1. CASE i < k
      BY <1>1, <1>3, <2>1
    <2>2. CASE ~(i < k)
      <3>1. i + 1 \in 1..Len(q) /\ i + 1 # k
        BY <1>1, <2>2
      <3> QED BY <1>3, <2>2, <3>1
    <2> QED BY <2>1, <2>2
  <1>5. Once(t)
    <2> SUFFICES ASSUME NEW i \in 1..(Len(q) - 1), NEW j \in 1..(Len(q) - 1), t[i] = t[j] PROVE i = j
      BY <1>2 DEF Once
    <2>1. PICK x \in 1..Len(q) : t[i] = q[x] /\ x # k /\ (i < k => x = i) /\ (~(i < k) => x = i + 1)
      BY <1>4
    <2>2. PICK y \in 1..Len(q) : t[j] = q[y] /\ y # k /\ (j < k => y = j) /\ (~(j < k) => y = j + 1)
      BY <1>4
    <2>3. x = y
      BY <1>1, <2>1, <2>2 DEF Once
    <2> QED BY <1>1, <2>1, <2>2, <2>3
  <1>6. ASSUME NEW r, Has(t, r) PROVE Has(q, r) /\ r # q[k]
    <2>1. PICK i \in 1..(Len(q) - 1) : t[i] = r
      BY <1>2, <1>6 DEF Has
    <2>2. PICK x \in 1..Len(q) : t[i] = q[x] /\ x # k
      BY <1>4
    <2> QED BY <1>1, <2>1, <2>2 DEF Has, Once
  <1>7. ASSUME NEW r, Has(q, r), r # q[k] PROVE Has(t, r)
    <2>1. PICK x \in 1..Len(q) : q[x] = r /\ x # k
      BY <1>1, <1>7 DEF Has
    <2>2. CASE x < k
      <3>1. x \in 1..(Len(q) - 1) /\ t[x] = q[x]
        BY <1>1, <1>3, <2>1, <2>2
      <3> QED BY <1>2, <2>1, <3>1 DEF Has
    <2>3. CASE x > k
      <3>1. x - 1 \in 1..(Len(q) - 1) /\ ~(x - 1 < k) /\ (x - 1) + 1 = x
        BY <1>1, <2>1, <2>3
      <3>2. t[x - 1] = q[x]
        BY <1>3, <3>1
      <3> QED BY <1>2, <2>1, <3>1, <3>2 DEF Has
    <2> QED BY <1>1, <2>1, <2>2, <2>3
  <1> QED BY <1>5, <1>6, <1>7

-----------------------------------------------------------------------------
(* Messages. *)

LEMMA ComingInCat ==
    ASSUME NEW S, NEW q \in Seq(S), NEW t \in Seq(S), NEW r
    PROVE  Coming(q \o t, r) <=> Coming(q, r) \/ Coming(t, r)
  <1>1. ASSUME Coming(q \o t, r) PROVE Coming(q, r) \/ Coming(t, r)
    <2>1. PICK i \in DOMAIN (q \o t) : (q \o t)[i].kind = "result" /\ (q \o t)[i].of = r
      BY <1>1 DEF Coming
    <2> QED BY <2>1, CatIs DEF Coming
  <1>2. ASSUME Coming(q, r) PROVE Coming(q \o t, r)
    BY <1>2, CatIs DEF Coming
  <1>3. ASSUME Coming(t, r) PROVE Coming(q \o t, r)
    <2>1. PICK i \in DOMAIN t : t[i].kind = "result" /\ t[i].of = r
      BY <1>3 DEF Coming
    <2>2. Len(q) + i \in DOMAIN (q \o t) /\ (q \o t)[Len(q) + i] = t[i]
      BY CatIs
    <2> QED BY <2>1, <2>2 DEF Coming
  <1> QED BY <1>1, <1>2, <1>3

LEMMA SaysInCat ==
    ASSUME NEW S, NEW q \in Seq(S), NEW t \in Seq(S), NEW k
    PROVE  Says(q \o t, k) <=> Says(q, k) \/ Says(t, k)
  <1>1. ASSUME Says(q \o t, k) PROVE Says(q, k) \/ Says(t, k)
    <2>1. PICK i \in DOMAIN (q \o t) : (q \o t)[i].kind = k
      BY <1>1 DEF Says
    <2> QED BY <2>1, CatIs DEF Says
  <1>2. ASSUME Says(q, k) PROVE Says(q \o t, k)
    BY <1>2, CatIs DEF Says
  <1>3. ASSUME Says(t, k) PROVE Says(q \o t, k)
    <2>1. PICK i \in DOMAIN t : t[i].kind = k
      BY <1>3 DEF Says
    <2>2. Len(q) + i \in DOMAIN (q \o t) /\ (q \o t)[Len(q) + i] = t[i]
      BY CatIs
    <2> QED BY <2>1, <2>2 DEF Says
  <1> QED BY <1>1, <1>2, <1>3

LEMMA HasInAppend ==
    ASSUME NEW S, NEW q \in Seq(S), NEW x \in S, NEW r
    PROVE  Has(Append(q, x), r) <=> Has(q, r) \/ r = x
  <1>1. PICK t : t = Append(q, x)
    OBVIOUS
  <1>2. /\ DOMAIN q = 1..Len(q) /\ Len(q) \in Nat /\ DOMAIN t = 1..(Len(q) + 1)
        /\ t[Len(q) + 1] = x /\ \A i \in 1..Len(q) : t[i] = q[i]
    BY <1>1
  <1>3. ASSUME Has(t, r) PROVE Has(q, r) \/ r = x
    <2>1. PICK i \in 1..(Len(q) + 1) : t[i] = r
      BY <1>2, <1>3 DEF Has
    <2>2. CASE i = Len(q) + 1
      BY <1>2, <2>1, <2>2
    <2>3. CASE i \in 1..Len(q)
      BY <1>2, <2>1, <2>3 DEF Has
    <2> QED BY <1>2, <2>2, <2>3
  <1>4. ASSUME Has(q, r) PROVE Has(t, r)
    <2>1. PICK i \in 1..Len(q) : q[i] = r
      BY <1>2, <1>4 DEF Has
    <2>2. i \in 1..(Len(q) + 1) /\ t[i] = r
      BY <1>2, <2>1
    <2> QED BY <1>2, <2>2 DEF Has
  <1>5. ASSUME r = x PROVE Has(t, r)
    <2>1. Len(q) + 1 \in 1..(Len(q) + 1) /\ t[Len(q) + 1] = r
      BY <1>2, <1>5
    <2> QED BY <1>2, <2>1 DEF Has
  <1> QED BY <1>1, <1>3, <1>4, <1>5

\* What is left of a queue whose first is taken.
LEMMA ComingInTail ==
    ASSUME NEW S, NEW q \in Seq(S), q # <<>>, NEW r
    PROVE  Coming(q, r) <=> Coming(Tail(q), r) \/ (Head(q).kind = "result" /\ Head(q).of = r)
  <1>1. ASSUME Coming(q, r) PROVE Coming(Tail(q), r) \/ (Head(q).kind = "result" /\ Head(q).of = r)
    <2>1. PICK i \in DOMAIN q : q[i].kind = "result" /\ q[i].of = r
      BY <1>1 DEF Coming
    <2> QED BY <2>1, TailIs DEF Coming
  <1>2. ASSUME Coming(Tail(q), r) PROVE Coming(q, r)
    <2>1. PICK i \in DOMAIN Tail(q) : Tail(q)[i].kind = "result" /\ Tail(q)[i].of = r
      BY <1>2 DEF Coming
    <2>2. i + 1 \in DOMAIN q /\ Tail(q)[i] = q[i+1]
      BY TailIs
    <2> QED BY <2>1, <2>2 DEF Coming
  <1>3. ASSUME Head(q).kind = "result", Head(q).of = r PROVE Coming(q, r)
    BY <1>3, TailIs DEF Coming
  <1> QED BY <1>1, <1>2, <1>3

LEMMA HasInTail ==
    ASSUME NEW S, NEW q \in Seq(S), q # <<>>, NEW r
    PROVE  Has(q, r) <=> Has(Tail(q), r) \/ Head(q) = r
  <1>1. ASSUME Has(q, r) PROVE Has(Tail(q), r) \/ Head(q) = r
    <2>1. PICK i \in DOMAIN q : q[i] = r
      BY <1>1 DEF Has
    <2> QED BY <2>1, TailIs DEF Has
  <1>2. ASSUME Has(Tail(q), r) PROVE Has(q, r)
    <2>1. PICK i \in DOMAIN Tail(q) : Tail(q)[i] = r
      BY <1>2 DEF Has
    <2>2. i + 1 \in DOMAIN q /\ Tail(q)[i] = q[i+1]
      BY TailIs
    <2> QED BY <2>1, <2>2 DEF Has
  <1>3. ASSUME Head(q) = r PROVE Has(q, r)
    BY <1>3, TailIs DEF Has
  <1> QED BY <1>1, <1>2, <1>3

LEMMA AnswersAre ==
    ASSUME NEW rs \in Seq(Requests), NEW null \in BOOLEAN
    PROVE  /\ Answers(rs, null) \in Seq(Answered)
           /\ \A r : Coming(Answers(rs, null), r) <=> Has(rs, r)
  <1>1. PICK a : a = Answers(rs, null)
    OBVIOUS
  <1>2. DOMAIN a = 1..Len(rs) /\ Len(rs) \in Nat
    BY <1>1 DEF Answers
  <1>3. \A i \in DOMAIN a : a[i] = [kind |-> "result", of |-> rs[i], null |-> null] /\ a[i] \in Answered
    BY <1>1 DEF Answers, Answered
  <1>4. a \in Seq(Answered)
    BY <1>1, <1>2, <1>3, IsASeq DEF Answers
  <1>5. \A r : Coming(a, r) <=> Has(rs, r)
    BY <1>2, <1>3 DEF Coming, Has
  <1> QED BY <1>1, <1>4, <1>5

LEMMA NarrowSeq ==
    ASSUME NEW S, NEW T, S \subseteq T, NEW q \in Seq(S)
    PROVE  q \in Seq(T)
  OBVIOUS

LEMMA Kinds ==
    /\ Answered \subseteq PipeMsgs /\ Answered \subseteq RingMsgs
    /\ \A m \in Answered : m.kind = "result" /\ m.of \in Requests
    /\ \A m \in RingMsgs : m.kind = "result" => m \in Answered
    /\ \A m \in PipeMsgs : /\ m.kind \in {"result", "connected", "disconnected", "closed"}
                           /\ m.kind = "result" => m \in Answered
                           /\ m.kind = "connected" => m.of \in 1..MaxConns
    /\ [kind |-> "disconnected"] \in PipeMsgs /\ [kind |-> "closed"] \in PipeMsgs
    /\ [kind |-> "inspect"] \in RingMsgs /\ [kind |-> "resume"] \in RingMsgs
    /\ \A c \in 1..MaxConns : [kind |-> "connected", of |-> c] \in PipeMsgs
  BY DEF Answered, PipeMsgs, RingMsgs

\* The part of the messages the ring takes.
LEMMA EnteringIs ==
    ASSUME WiresOK, NEW S, NEW msgs \in Seq(S)
    PROVE  /\ Entering(msgs) \in Seq(S)
           /\ \A i \in DOMAIN Entering(msgs) : i \in DOMAIN msgs /\ Entering(msgs)[i] = msgs[i]
           /\ \A i \in DOMAIN msgs : i > Room \/ (i \in DOMAIN Entering(msgs) /\ Entering(msgs)[i] = msgs[i])
  <1>1. Len(ring) \in Nat /\ RingCap \in Nat /\ Len(msgs) \in Nat
    BY RingAssumption, LenProperties DEF WiresOK
  <1>2. Room \in Nat
    BY <1>1 DEF Room
  <1>3. PICK n \in Nat : n = IF Len(msgs) < Room THEN Len(msgs) ELSE Room
    BY <1>1, <1>2
  <1>4. n <= Len(msgs) /\ \A i \in DOMAIN msgs : i > Room \/ i <= n
    BY <1>1, <1>2, <1>3
  <1>5. Entering(msgs) = SubSeq(msgs, 1, n)
    BY <1>3 DEF Entering
  <1>6. PICK e : e = SubSeq(msgs, 1, n)
    OBVIOUS
  <1>7. 1 \in Int /\ n \in Int /\ \A i \in 1..n : msgs[i] \in S
    BY <1>1, <1>4
  <1>8. e \in Seq(S) /\ Len(e) = (IF 1 <= n THEN n - 1 + 1 ELSE 0) /\ \A i \in 1..(n - 1 + 1) : e[i] = msgs[1 + i - 1]
    BY <1>6, <1>7, SubSeqProperties
  <1>9. Len(e) = n /\ DOMAIN e = 1..n /\ \A i \in 1..n : e[i] = msgs[i]
    BY <1>8, LenProperties
  <1>10. DOMAIN msgs = 1..Len(msgs)
    BY LenProperties
  <1> QED BY <1>1, <1>4, <1>5, <1>6, <1>8, <1>9, <1>10

\* What notify does, whichever way it takes.
LEMMA NotifyIs ==
    ASSUME TypeOK, NEW msgs \in Seq(RingMsgs), ~paused => msgs \in Seq(Answered),
           NEW last \in Seq(PipeMsgs), Notify(msgs, last)
    PROVE  /\ ring' \in Seq(RingMsgs) /\ lost' \subseteq Requests /\ lost \subseteq lost'
           /\ \E mid \in Seq(Answered) : /\ toMain' = (toMain \o mid) \o last
                                         /\ \A r : Coming(mid, r) => Coming(msgs, r)
           /\ toMain' \in Seq(PipeMsgs)
           /\ \A r : Coming(toMain, r) => Coming(toMain', r)
           /\ \A r : Coming(ring, r) => Coming(ring', r)
           /\ \A r : Coming(msgs, r) => Coming(toMain', r) \/ Coming(ring', r) \/ r \in lost'
           /\ \A r : Coming(toMain', r) => Coming(toMain, r) \/ Coming(msgs, r) \/ Coming(last, r)
           /\ \A r : Coming(ring', r) => Coming(ring, r) \/ Coming(msgs, r)
           /\ \A k : Says(toMain, k) => Says(toMain', k)
  <1>1. WiresOK /\ ring \in Seq(RingMsgs) /\ toMain \in Seq(PipeMsgs) /\ paused \in BOOLEAN /\ lost \subseteq Requests
    BY Groups DEF WiresOK, WorkerOK, GhostsOK
  <1>2. CASE paused
    <2>1. PICK e : e = Entering(msgs)
      OBVIOUS
    <2>2. /\ e \in Seq(RingMsgs)
          /\ \A i \in DOMAIN e : i \in DOMAIN msgs /\ e[i] = msgs[i]
          /\ \A i \in DOMAIN msgs : i > Room \/ (i \in DOMAIN e /\ e[i] = msgs[i])
      BY <1>1, <2>1, EnteringIs
    <2>3. ring' = ring \o e /\ lost' = lost \cup Refusals(msgs) /\ toMain' = toMain \o last
      BY <1>2, <2>1 DEF Notify
    <2>4. Refusals(msgs) \subseteq Requests
      BY Kinds DEF Refusals
    <2>5. \A r : Coming(e, r) => Coming(msgs, r)
      BY <2>2 DEF Coming
    <2>6. \A r : Coming(msgs, r) => Coming(e, r) \/ r \in Refusals(msgs)
      BY <2>2 DEF Coming, Refusals
    <2>7. \A r : Coming(ring', r) <=> Coming(ring, r) \/ Coming(e, r)
      BY <1>1, <2>2, <2>3, ComingInCat
    <2>8. \A r : Coming(toMain', r) <=> Coming(toMain, r) \/ Coming(last, r)
      BY <1>1, <2>3, ComingInCat
    <2>9. \A k : Says(toMain, k) => Says(toMain', k)
      BY <1>1, <2>3, SaysInCat
    <2>10. <<>> \in Seq(Answered) /\ toMain' = (toMain \o <<>>) \o last /\ \A r : ~Coming(<<>>, r)
      BY <1>1, <2>3 DEF Coming
    <2>11. ring' \in Seq(RingMsgs) /\ toMain' \in Seq(PipeMsgs)
      BY <1>1, <2>2, <2>3, CatIs
    <2> QED BY <1>1, <2>3, <2>4, <2>5, <2>6, <2>7, <2>8, <2>9, <2>10, <2>11
  <1>3. CASE ~paused
    <2>1. msgs \in Seq(Answered) /\ msgs \in Seq(PipeMsgs)
      BY <1>3, Kinds, NarrowSeq
    <2>2. toMain' = (toMain \o msgs) \o last /\ ring' = ring /\ lost' = lost
      BY <1>3 DEF Notify
    <2>3. PICK t : t = toMain \o msgs
      OBVIOUS
    <2>4. t \in Seq(PipeMsgs) /\ toMain' = t \o last
      BY <1>1, <2>1, <2>2, <2>3, CatIs
    <2>5. \A r : Coming(t, r) <=> Coming(toMain, r) \/ Coming(msgs, r)
      BY <1>1, <2>1, <2>3, ComingInCat
    <2>6. \A r : Coming(toMain', r) <=> Coming(t, r) \/ Coming(last, r)
      BY <2>4, ComingInCat
    <2>7. \A k : Says(toMain, k) => Says(toMain', k)
      BY <1>1, <2>1, <2>3, <2>4, SaysInCat
    <2>8. toMain' \in Seq(PipeMsgs)
      BY <2>4, CatIs
    <2> QED BY <1>1, <2>1, <2>2, <2>5, <2>6, <2>7, <2>8
  <1> QED BY <1>2, <1>3

\* The messages of releaseSession.
LEMMA ReleaseIs ==
    ASSUME TypeOK, NEW then \in Seq(PipeMsgs), ReleaseSession(then)
    PROVE  /\ resuming' \in BOOLEAN /\ enabled' = FALSE /\ pending' = <<>>
           /\ \E msgs \in Seq(RingMsgs), last \in Seq(PipeMsgs) :
                /\ ~paused => msgs \in Seq(Answered)
                /\ last = <<[kind |-> "disconnected"]>> \o then
                /\ Notify(msgs, last)
                /\ \A r : Coming(msgs, r) <=> Has(pending, r)
                /\ \A r : Coming(last, r) <=> Coming(then, r)
  <1>1. pending \in Seq(Requests) /\ paused \in BOOLEAN /\ resuming \in BOOLEAN
    BY Groups DEF WorkerOK
  <1>2. PICK a : a = Answers(pending, TRUE)
    OBVIOUS
  <1>3. a \in Seq(Answered) /\ a \in Seq(RingMsgs) /\ \A r : Coming(a, r) <=> Has(pending, r)
    BY <1>1, <1>2, AnswersAre, Kinds, NarrowSeq
  <1>4. PICK h : h = Inspects
    OBVIOUS
  <1>5. h \in Seq(RingMsgs) /\ (~paused => h = <<>>) /\ \A r : ~Coming(h, r)
    BY <1>4, Kinds DEF Inspects, Coming
  <1>6. PICK msgs : msgs = h \o a
    OBVIOUS
  <1>7. msgs \in Seq(RingMsgs) /\ (~paused => msgs = a)
    <2>1. msgs \in Seq(RingMsgs)
      BY <1>3, <1>5, <1>6, CatIs
    <2>2. <<>> \o a = a
      BY <1>3
    <2> QED BY <1>5, <1>6, <2>1, <2>2
  <1>8. \A r : Coming(msgs, r) <=> Has(pending, r)
    BY <1>3, <1>5, <1>6, ComingInCat
  <1>9. PICK d : d = <<[kind |-> "disconnected"]>>
    OBVIOUS
  <1>10. d \in Seq(PipeMsgs) /\ \A r : ~Coming(d, r)
    BY <1>9, Kinds DEF Coming
  <1>11. PICK last : last = d \o then
    OBVIOUS
  <1>12. last \in Seq(PipeMsgs) /\ \A r : Coming(last, r) <=> Coming(then, r)
    BY <1>10, <1>11, CatIs, ComingInCat
  <1>13. Notify(msgs, last) /\ resuming' = (resuming \/ paused) /\ enabled' = FALSE /\ pending' = <<>>
    BY <1>2, <1>4, <1>6, <1>9, <1>11 DEF ReleaseSession
  <1>14. resuming' \in BOOLEAN
    BY <1>13
  <1> QED BY <1>3, <1>7, <1>8, <1>9, <1>11, <1>12, <1>13, <1>14

-----------------------------------------------------------------------------
(* Every step keeps the types. *)

LEMMA TypeMain == ASSUME TypeOK, Main PROVE TypeOK'
  <1> USE DEF mainVars, wires, workerVars, clientVars, domainVars, ghosts
  <1>0. MainOK /\ WiresOK /\ WorkerOK /\ GhostsOK
    BY Groups
  <1>1. ASSUME NEW r \in Requests, Fetch(r) PROVE TypeOK'
    <2>1. fetch' \in [Requests -> Fates] /\ since' \in [Requests -> Nat] /\ toWorker' \in Seq(Requests)
      BY <1>0, <1>1, BoundsAssumption DEF Fetch, MainOK, WiresOK, WorkerOK, GhostsOK, Fates
    <2>2. UNCHANGED <<hooked, known, attached, stopped, toMain, ring, alive, conn, conns, sockets, enabled, pending, paused, resuming, told, given, lost, breaks>>
      BY <1>1 DEF Fetch
    <2> QED BY <1>0, <2>1, <2>2, Groups DEF MainOK, WiresOK, WorkerOK, GhostsOK
  <1>2. Released \in [Requests -> Fates] /\ TornDown \in [Requests -> Fates]
    BY <1>0 DEF Released, TornDown, MainOK, Fates
  <1>3. ASSUME NEW m, m \in Answered PROVE Resolved(m) \in [Requests -> Fates]
    BY <1>0, <1>3 DEF Resolved, MainOK, Fates, Answered
  <1>4. ASSUME ServePipe PROVE TypeOK'
    <2>1. PICK m : m = Head(toMain)
      OBVIOUS
    <2>2. toMain # <<>> /\ m \in PipeMsgs /\ toMain' = Tail(toMain) /\ toMain' \in Seq(PipeMsgs)
      BY <1>0, <1>4, <2>1, TailIs DEF ServePipe, WiresOK
    <2>3. /\ fetch' = IF ~hooked THEN fetch
                      ELSE IF m.kind = "result" THEN Resolved(m)
                      ELSE IF m.kind = "disconnected" THEN Released
                      ELSE IF m.kind = "closed" THEN TornDown
                      ELSE fetch
          /\ known' = IF m.kind = "connected" THEN m.of ELSE known
          /\ attached' = (m.kind = "connected" \/ (attached /\ m.kind = "result"))
          /\ hooked' = (hooked /\ m.kind # "closed")
          /\ UNCHANGED <<stopped, toWorker, ring, alive, conn, conns, sockets, enabled, pending, paused, resuming, since, told, given, lost, breaks>>
      BY <1>4, <2>1 DEF ServePipe
    <2>4. m.kind = "result" => m \in Answered
      BY <2>2, Kinds
    <2>5. fetch' \in [Requests -> Fates]
      BY <1>0, <1>2, <1>3, <2>3, <2>4 DEF MainOK
    <2>6. known' \in 0..MaxConns
      BY <1>0, <2>2, <2>3, Kinds, BoundsAssumption DEF MainOK
    <2>7. hooked' \in BOOLEAN /\ attached' \in BOOLEAN
      BY <1>0, <2>3 DEF MainOK
    <2> QED BY <1>0, <2>2, <2>3, <2>5, <2>6, <2>7, Groups DEF MainOK, WiresOK, WorkerOK, GhostsOK
  <1>5. ASSUME Detach PROVE TypeOK'
    BY <1>0, <1>2, <1>5, Groups DEF Detach, MainOK, WiresOK, WorkerOK, GhostsOK
  <1>6. ASSUME Stop PROVE TypeOK'
    <2>1. breaks' \in Nat
      BY <1>0, <1>6 DEF Stop, GhostsOK
    <2> QED BY <1>0, <1>6, <2>1, Groups DEF Stop, MainOK, WiresOK, WorkerOK, GhostsOK
  <1>7. ASSUME ServeRing PROVE TypeOK'
    <2>1. ring' \in Seq(RingMsgs) /\ stopped' \in BOOLEAN
      <3>1. ring # <<>> => Tail(ring) \in Seq(RingMsgs)
        BY <1>0, TailIs DEF WiresOK
      <3>2. ring' = <<>> \/ (ring # <<>> /\ ring' = Tail(ring))
        BY <1>7 DEF ServeRing
      <3>3. stopped' = FALSE \/ stopped' = (Head(ring).kind # "resume")
        BY <1>7 DEF ServeRing
      <3>4. ring' \in Seq(RingMsgs)
        BY <3>1, <3>2, EmptySeq
      <3>5. stopped' \in BOOLEAN
        BY <3>3
      <3> QED BY <3>4, <3>5
    <2>2. fetch' \in [Requests -> Fates]
      <3>1. CASE alive
        <4>1. ring # <<>> /\ Head(ring) \in RingMsgs
          BY <1>0, <1>7, <3>1, TailIs DEF ServeRing, WiresOK
        <4>2. Head(ring).kind = "result" => Head(ring) \in Answered
          BY <4>1, Kinds
        <4>3. fetch' = IF Head(ring).kind = "result" THEN Resolved(Head(ring)) ELSE fetch
          BY <1>7, <3>1 DEF ServeRing
        <4> QED BY <1>0, <1>3, <4>2, <4>3 DEF MainOK
      <3>2. CASE ~alive
        BY <1>0, <1>7, <3>2 DEF ServeRing, MainOK
      <3> QED BY <3>1, <3>2
    <2>3. UNCHANGED <<hooked, known, attached, toWorker, toMain, alive, conn, conns, sockets, enabled, pending, paused, resuming, since, told, given, lost, breaks>>
      BY <1>7 DEF ServeRing
    <2> QED BY <1>0, <2>1, <2>2, <2>3, Groups DEF MainOK, WiresOK, WorkerOK, GhostsOK
  <1> QED BY <1>1, <1>4, <1>5, <1>6, <1>7 DEF Main

\* A notification that says nothing about a request: an inspect call.
LEMMA InspectIs ==
    ASSUME TypeOK, Notify(Inspects, <<>>)
    PROVE  /\ ring' \in Seq(RingMsgs) /\ lost' \subseteq Requests /\ lost \subseteq lost' /\ toMain' = toMain
           /\ \A r : Coming(ring', r) <=> Coming(ring, r)
  <1>1. WiresOK /\ toMain \in Seq(PipeMsgs)
    BY Groups DEF WiresOK
  <1>2. PICK h : h = Inspects
    OBVIOUS
  <1>3. h \in Seq(RingMsgs) /\ (~paused => h = <<>>) /\ \A r : ~Coming(h, r)
    BY <1>2, Kinds DEF Inspects, Coming
  <1>4. <<>> \in Seq(PipeMsgs) /\ <<>> \in Seq(Answered)
    OBVIOUS
  <1>5. Notify(h, <<>>)
    BY <1>2
  <1>6. /\ ring' \in Seq(RingMsgs) /\ lost' \subseteq Requests /\ lost \subseteq lost'
        /\ \A r : Coming(ring, r) => Coming(ring', r)
        /\ \A r : Coming(ring', r) => Coming(ring, r) \/ Coming(h, r)
    BY <1>3, <1>4, <1>5, NotifyIs
  <1>7. toMain' = toMain
    BY <1>1, <1>3, <1>5 DEF Notify
  <1> QED BY <1>3, <1>6, <1>7

\* A notification that answers some requests.
LEMMA AnsweringIs ==
    ASSUME TypeOK, NEW rs \in Seq(Requests), NEW null \in BOOLEAN, Notify(Answers(rs, null), <<>>)
    PROVE  /\ ring' \in Seq(RingMsgs) /\ lost' \subseteq Requests /\ lost \subseteq lost'
           /\ \E mid \in Seq(Answered) : toMain' = toMain \o mid
           /\ toMain' \in Seq(PipeMsgs)
           /\ \A r : Coming(toMain, r) => Coming(toMain', r)
           /\ \A r : Coming(ring, r) => Coming(ring', r)
           /\ \A r : Has(rs, r) => Coming(toMain', r) \/ Coming(ring', r) \/ r \in lost'
           /\ \A r : Coming(toMain', r) => Coming(toMain, r) \/ Has(rs, r)
           /\ \A r : Coming(ring', r) => Coming(ring, r) \/ Has(rs, r)
           /\ \A k : Says(toMain, k) => Says(toMain', k)
  <1>1. PICK a : a = Answers(rs, null)
    OBVIOUS
  <1>2. a \in Seq(Answered) /\ a \in Seq(RingMsgs) /\ \A r : Coming(a, r) <=> Has(rs, r)
    BY <1>1, AnswersAre, Kinds, NarrowSeq
  <1>3. PICK none : none = <<>>
    OBVIOUS
  <1>4. none \in Seq(PipeMsgs) /\ \A r : ~Coming(none, r)
    BY <1>3 DEF Coming
  <1>5. Notify(a, none)
    BY <1>1, <1>3
  <1>6. /\ ring' \in Seq(RingMsgs) /\ lost' \subseteq Requests /\ lost \subseteq lost'
        /\ \E mid \in Seq(Answered) : toMain' = (toMain \o mid) \o none
        /\ toMain' \in Seq(PipeMsgs)
        /\ \A r : Coming(toMain, r) => Coming(toMain', r)
        /\ \A r : Coming(ring, r) => Coming(ring', r)
        /\ \A r : Coming(a, r) => Coming(toMain', r) \/ Coming(ring', r) \/ r \in lost'
        /\ \A r : Coming(toMain', r) => Coming(toMain, r) \/ Coming(a, r) \/ Coming(none, r)
        /\ \A r : Coming(ring', r) => Coming(ring, r) \/ Coming(a, r)
        /\ \A k : Says(toMain, k) => Says(toMain', k)
    BY <1>2, <1>4, <1>5, NotifyIs
  <1>7. \E mid \in Seq(Answered) : toMain' = toMain \o mid
    <2>1. PICK mid \in Seq(Answered) : toMain' = (toMain \o mid) \o none
      BY <1>6
    <2>2. toMain \in Seq(PipeMsgs) /\ mid \in Seq(PipeMsgs)
      BY Groups, Kinds, NarrowSeq DEF WiresOK
    <2>3. PICK t : t = toMain \o mid
      OBVIOUS
    <2>4. t \in Seq(PipeMsgs) /\ t \o <<>> = t
      BY <2>2, <2>3, CatIs
    <2> QED BY <1>3, <2>1, <2>3, <2>4
  <1> QED BY <1>2, <1>4, <1>6, <1>7

\* A message that stands alone at the end of a queue.
LEMMA AppendIs ==
    ASSUME NEW S, NEW q \in Seq(S), NEW m \in S
    PROVE  /\ Append(q, m) \in Seq(S)
           /\ \A r : Coming(Append(q, m), r) <=> Coming(q, r) \/ (m.kind = "result" /\ m.of = r)
           /\ \A k : Says(Append(q, m), k) <=> Says(q, k) \/ m.kind = k
  <1>1. PICK one : one = <<m>>
    OBVIOUS
  <1>2. one \in Seq(S) /\ DOMAIN one = {1} /\ one[1] = m
    BY <1>1
  <1>3. Append(q, m) = q \o one
    BY <1>1
  <1>4. \A r : Coming(one, r) <=> m.kind = "result" /\ m.of = r
    BY <1>2 DEF Coming
  <1>5. \A k : Says(one, k) <=> m.kind = k
    BY <1>2 DEF Says
  <1> QED BY <1>2, <1>3, <1>4, <1>5, CatIs, ComingInCat, SaysInCat

LEMMA LeavingIs ==
    ASSUME TypeOK, ring' = Leaving
    PROVE  ring' \in Seq(RingMsgs) /\ \A r : Coming(ring', r) <=> Coming(ring, r)
  <1>1. ring \in Seq(RingMsgs)
    BY Groups DEF WiresOK
  <1>2. PICK m : m = [kind |-> "resume"]
    OBVIOUS
  <1>3. m \in RingMsgs /\ m.kind # "result" /\ ring' = Append(ring, m)
    BY <1>2, Kinds DEF Leaving
  <1> QED BY <1>1, <1>3, AppendIs

-----------------------------------------------------------------------------
(* The steps of the worker and its clients, the arrival of a request aside. *)

\* Such a step moves requests from the pending ones into answers, and no other way;
\* what is on its way to the main thread stays on its way.
Relay ==
    /\ UNCHANGED <<hooked, fetch, known, attached, stopped, toWorker, since>>
    /\ lost \subseteq lost'
    /\ \A k : Says(toMain, k) => Says(toMain', k)
    /\ \A r : /\ Coming(toMain, r) => Coming(toMain', r)
              /\ Coming(ring, r) => Coming(ring', r)
              /\ Has(pending', r) => Has(pending, r)
              /\ Has(pending, r) => Has(pending', r) \/ Coming(toMain', r) \/ Coming(ring', r) \/ r \in lost'
              /\ Coming(toMain', r) => Coming(toMain, r) \/ (Has(pending, r) /\ ~Has(pending', r))
              /\ Coming(ring', r) => Coming(ring, r) \/ (Has(pending, r) /\ ~Has(pending', r))
    /\ Once(pending')

LEMMA Pending == ASSUME TypeOK PROVE pending \in Seq(Requests) /\ Once(<<>>) /\ \A r : ~Has(<<>>, r)
  BY Groups DEF WorkerOK, Once, Has

LEMMA WorkerRelays ==
    ASSUME TypeOK, Once(pending), SeePause \/ Resume \/ GraceTimer \/ WorkerExit
    PROVE  /\ TypeOK' /\ Relay /\ UNCHANGED <<conn, conns, enabled, pending>>
           /\ \/ UNCHANGED <<toMain, alive, told>>
              \/ toMain' = Append(toMain, [kind |-> "closed"]) /\ alive' = FALSE /\ told' = {}
  <1> USE DEF mainVars, wires, workerVars, clientVars, domainVars, ghosts
  <1>0. MainOK /\ WiresOK /\ WorkerOK /\ GhostsOK
    BY Groups
  <1>1. ASSUME SeePause PROVE TypeOK' /\ Relay /\ UNCHANGED <<conn, conns, enabled, pending, toMain, alive, told>>
    <2>1. PICK m : m = [kind |-> "resume"]
      OBVIOUS
    <2>2. m \in RingMsgs /\ m.kind # "result"
      BY <2>1, Kinds
    <2>3. ring' = ring \/ (ring = <<>> /\ ring' = <<m>>)
      BY <1>1, <2>1 DEF SeePause
    <2>4. ring' \in Seq(RingMsgs)
      <3>1. PICK one : one = <<m>>
        OBVIOUS
      <3>2. one \in Seq(RingMsgs)
        BY <2>2, <3>1
      <3>3. ring \in Seq(RingMsgs) /\ (ring' = ring \/ ring' = one)
        BY <1>0, <2>3, <3>1 DEF WiresOK
      <3> QED BY <3>2, <3>3
    <2>5. \A r : Coming(ring', r) <=> Coming(ring, r)
      BY <2>2, <2>3 DEF Coming
    <2>6. paused' \in BOOLEAN
      BY <1>0, <1>1 DEF SeePause, WorkerOK
    <2>7. UNCHANGED <<hooked, fetch, known, attached, stopped, toWorker, toMain, alive, conn, conns, sockets, enabled, pending, resuming, since, told, given, lost, breaks>>
      BY <1>1 DEF SeePause
    <2>8. TypeOK'
      BY <1>0, <2>4, <2>6, <2>7, Groups DEF MainOK, WiresOK, WorkerOK, GhostsOK
    <2> QED BY <2>5, <2>7, <2>8 DEF Relay
  <1>2. ASSUME Resume \/ GraceTimer PROVE TypeOK' /\ Relay /\ UNCHANGED <<conn, conns, enabled, pending, toMain, alive, told>>
    <2>1. ring' \in Seq(RingMsgs) /\ \A r : Coming(ring', r) <=> Coming(ring, r)
      BY <1>2, LeavingIs DEF Resume, GraceTimer
    <2>2. paused' \in BOOLEAN /\ resuming' \in BOOLEAN
      BY <1>0, <1>2 DEF Resume, GraceTimer, WorkerOK
    <2>3. UNCHANGED <<hooked, fetch, known, attached, stopped, toWorker, toMain, alive, conn, conns, sockets, enabled, pending, since, told, given, lost, breaks>>
      BY <1>2 DEF Resume, GraceTimer
    <2>4. TypeOK'
      BY <1>0, <2>1, <2>2, <2>3, Groups DEF MainOK, WiresOK, WorkerOK, GhostsOK
    <2> QED BY <2>1, <2>3, <2>4 DEF Relay
  <1>3. ASSUME WorkerExit
        PROVE  /\ TypeOK' /\ Relay /\ UNCHANGED <<conn, conns, enabled, pending>>
               /\ toMain' = Append(toMain, [kind |-> "closed"]) /\ alive' = FALSE /\ told' = {}
    <2>1. PICK m : m = [kind |-> "closed"]
      OBVIOUS
    <2>2. m \in PipeMsgs /\ m.kind # "result" /\ toMain' = Append(toMain, m)
      BY <1>3, <2>1, Kinds DEF WorkerExit
    <2>3. /\ toMain' \in Seq(PipeMsgs) /\ \A r : Coming(toMain', r) <=> Coming(toMain, r)
          /\ \A k : Says(toMain, k) => Says(toMain', k)
      BY <1>0, <2>2, AppendIs DEF WiresOK
    <2>4. UNCHANGED <<hooked, fetch, known, attached, stopped, toWorker, ring, conn, conns, sockets, enabled, pending, paused, resuming, since, given, lost, breaks>>
          /\ alive' = FALSE /\ told' = {}
      BY <1>3 DEF WorkerExit
    <2>5. TypeOK'
      BY <1>0, <2>3, <2>4, Groups DEF MainOK, WiresOK, WorkerOK, GhostsOK
    <2> QED BY <2>1, <2>2, <2>3, <2>4, <2>5 DEF Relay
  <1> QED BY <1>1, <1>2, <1>3

\* What a release sends is what was pending, and its own end.
LEMMA ReleaseRelays ==
    ASSUME TypeOK, NEW then \in Seq(PipeMsgs), \A r : ~Coming(then, r), ReleaseSession(then),
           UNCHANGED <<hooked, fetch, known, attached, stopped, toWorker, since>>
    PROVE  /\ Relay /\ resuming' \in BOOLEAN /\ enabled' = FALSE /\ pending' = <<>>
           /\ ring' \in Seq(RingMsgs) /\ toMain' \in Seq(PipeMsgs) /\ lost' \subseteq Requests
           /\ \E mid \in Seq(Answered) : toMain' = (toMain \o mid) \o (<<[kind |-> "disconnected"]>> \o then)
  <1>1. /\ resuming' \in BOOLEAN /\ enabled' = FALSE /\ pending' = <<>>
        /\ \E msgs \in Seq(RingMsgs), last \in Seq(PipeMsgs) :
                /\ ~paused => msgs \in Seq(Answered)
                /\ last = <<[kind |-> "disconnected"]>> \o then
                /\ Notify(msgs, last)
                /\ \A r : Coming(msgs, r) <=> Has(pending, r)
                /\ \A r : Coming(last, r) <=> Coming(then, r)
    BY ReleaseIs
  <1>2. PICK msgs \in Seq(RingMsgs), last \in Seq(PipeMsgs) :
                /\ ~paused => msgs \in Seq(Answered)
                /\ last = <<[kind |-> "disconnected"]>> \o then
                /\ Notify(msgs, last)
                /\ \A r : Coming(msgs, r) <=> Has(pending, r)
                /\ \A r : Coming(last, r) <=> Coming(then, r)
    BY <1>1
  <1>3. /\ ring' \in Seq(RingMsgs) /\ lost' \subseteq Requests /\ lost \subseteq lost'
        /\ \E mid \in Seq(Answered) : toMain' = (toMain \o mid) \o last
        /\ toMain' \in Seq(PipeMsgs)
        /\ \A r : Coming(toMain, r) => Coming(toMain', r)
        /\ \A r : Coming(ring, r) => Coming(ring', r)
        /\ \A r : Coming(msgs, r) => Coming(toMain', r) \/ Coming(ring', r) \/ r \in lost'
        /\ \A r : Coming(toMain', r) => Coming(toMain, r) \/ Coming(msgs, r) \/ Coming(last, r)
        /\ \A r : Coming(ring', r) => Coming(ring, r) \/ Coming(msgs, r)
        /\ \A k : Says(toMain, k) => Says(toMain', k)
    <2>1. (~paused => msgs \in Seq(Answered)) /\ Notify(msgs, last)
      BY <1>2
    <2> HIDE <1>1, <1>2
    <2> QED BY <2>1, NotifyIs
  <1>4. Once(pending') /\ \A r : ~Has(pending', r)
    BY <1>1, Pending
  <1>5. Relay
    BY <1>2, <1>3, <1>4 DEF Relay
  <1> QED BY <1>1, <1>2, <1>3, <1>5

LEMMA ConnectRelays ==
    ASSUME TypeOK, Once(pending), Connect
    PROVE  /\ TypeOK' /\ Relay
           /\ conns' = conns + 1 /\ conn' = conns' /\ told' = {} /\ UNCHANGED <<alive, given>>
           /\ \/ toMain' = Append(toMain, [kind |-> "connected", of |-> conns']) /\ ~Connected
              \/ \E mid \in Seq(Answered) :
                     toMain' = Append(Append(toMain \o mid, [kind |-> "disconnected"]), [kind |-> "connected", of |-> conns'])
  <1> USE DEF mainVars, wires, workerVars, clientVars, domainVars, ghosts
  <1>0. MainOK /\ WiresOK /\ WorkerOK /\ GhostsOK
    BY Groups
  <1>1. PICK c : c = conns + 1
    OBVIOUS
  <1>2. /\ conns' = c /\ conn' = c /\ c \in 1..MaxConns /\ sockets' = sockets \cup {c} /\ told' = {}
        /\ UNCHANGED <<hooked, fetch, known, attached, stopped, toWorker, alive, paused, since, given, breaks>>
    BY <1>0, <1>1, BoundsAssumption DEF Connect, WorkerOK
  <1>3. PICK m : m = [kind |-> "connected", of |-> c]
    OBVIOUS
  <1>4. m \in PipeMsgs /\ m.kind = "connected"
    BY <1>2, <1>3, Kinds
  <1>5. PICK hello : hello = <<m>>
    OBVIOUS
  <1>6. hello \in Seq(PipeMsgs) /\ \A r : ~Coming(hello, r)
    BY <1>4, <1>5 DEF Coming
  <1>7. CASE Connected
    <2>1. ReleaseSession(hello)
      BY <1>2, <1>3, <1>5, <1>7 DEF Connect
    <2>2. /\ Relay /\ resuming' \in BOOLEAN /\ enabled' = FALSE /\ pending' = <<>>
          /\ ring' \in Seq(RingMsgs) /\ toMain' \in Seq(PipeMsgs) /\ lost' \subseteq Requests
          /\ \E mid \in Seq(Answered) : toMain' = (toMain \o mid) \o (<<[kind |-> "disconnected"]>> \o hello)
      BY <1>2, <1>6, <2>1, ReleaseRelays
    <2>3. TypeOK'
      <3>1. MainOK' /\ WiresOK'
        BY <1>0, <1>2, <2>2 DEF MainOK, WiresOK
      <3>2. WorkerOK'
        <4>1. resuming' \in BOOLEAN /\ enabled' \in BOOLEAN /\ pending' \in Seq(Requests)
          BY <2>2, EmptySeq
        <4>2. c \in 0..MaxConns /\ sockets' \subseteq 1..MaxConns
          BY <1>0, <1>2, BoundsAssumption DEF WorkerOK
        <4> QED BY <1>0, <1>2, <4>1, <4>2 DEF WorkerOK
      <3>3. GhostsOK'
        BY <1>0, <1>2, <2>2 DEF GhostsOK
      <3> QED BY <3>1, <3>2, <3>3, Groups
    <2>4. PICK mid \in Seq(Answered) : toMain' = (toMain \o mid) \o (<<[kind |-> "disconnected"]>> \o hello)
      BY <2>2
    <2>5. toMain' = Append(Append(toMain \o mid, [kind |-> "disconnected"]), m)
      <3>1. PICK d, t : d = [kind |-> "disconnected"] /\ t = toMain \o mid
        OBVIOUS
      <3>2. d \in PipeMsgs /\ mid \in Seq(PipeMsgs) /\ toMain \in Seq(PipeMsgs)
        BY <1>0, <3>1, Kinds, NarrowSeq DEF WiresOK
      <3>3. t \in Seq(PipeMsgs) /\ <<d>> \in Seq(PipeMsgs)
        BY <3>1, <3>2, CatIs
      <3>4. t \o (<<d>> \o hello) = (t \o <<d>>) \o hello
        BY <1>6, <3>3, ConcatAssociative
      <3>5. t \o <<d>> = Append(t, d) /\ Append(t, d) \in Seq(PipeMsgs)
        BY <3>2, <3>3, AppendIsConcat, AppendProperties
      <3>6. Append(t, d) \o hello = Append(Append(t, d), m)
        BY <1>4, <1>5, <3>5, AppendIsConcat
      <3> QED BY <2>4, <3>1, <3>4, <3>5, <3>6
    <2> QED BY <1>1, <1>2, <1>3, <2>2, <2>3, <2>5
  <1>8. CASE ~Connected
    <2>1. toMain' = toMain \o hello /\ UNCHANGED <<ring, lost, resuming, enabled, pending>>
      BY <1>2, <1>3, <1>5, <1>8 DEF Connect
    <2>2. toMain' \in Seq(PipeMsgs) /\ \A r : Coming(toMain', r) <=> Coming(toMain, r)
      BY <1>0, <1>6, <2>1, CatIs, ComingInCat DEF WiresOK
    <2>3. \A k : Says(toMain, k) => Says(toMain', k)
      BY <1>0, <1>6, <2>1, SaysInCat DEF WiresOK
    <2>4. Relay
      BY <1>2, <2>1, <2>2, <2>3 DEF Relay
    <2>5. TypeOK'
      BY <1>0, <1>2, <2>1, <2>2, Groups, BoundsAssumption DEF MainOK, WiresOK, WorkerOK, GhostsOK
    <2>6. toMain' = Append(toMain, m)
      BY <1>0, <1>4, <1>5, <2>1, AppendIsConcat DEF WiresOK
    <2> QED BY <1>1, <1>2, <1>3, <1>8, <2>4, <2>5, <2>6
  <1> QED BY <1>7, <1>8

LEMMA CloseRelays ==
    ASSUME TypeOK, Once(pending), NEW c \in 1..MaxConns, Close(c)
    PROVE  /\ TypeOK' /\ Relay
           /\ \/ /\ c = conn /\ conn' = 0 /\ told' = {} /\ enabled' = FALSE
                 /\ \E mid \in Seq(Answered) : toMain' = Append(toMain \o mid, [kind |-> "disconnected"])
              \/ c # conn /\ UNCHANGED <<conn, told, toMain, ring, lost, pending, enabled>>
           /\ UNCHANGED <<alive, conns, given>>
  <1> USE DEF mainVars, wires, workerVars, clientVars, domainVars, ghosts
  <1>0. MainOK /\ WiresOK /\ WorkerOK /\ GhostsOK
    BY Groups
  <1>1. /\ sockets' \subseteq sockets
        /\ UNCHANGED <<hooked, fetch, known, attached, stopped, toWorker, alive, conns, paused, since, given, breaks>>
    BY <1>0 DEF Close, ReleaseSession
  <1>2. CASE c = conn
    <2>1. PICK none : none = <<>>
      OBVIOUS
    <2>2. none \in Seq(PipeMsgs) /\ \A r : ~Coming(none, r)
      BY <2>1 DEF Coming
    <2>3. ReleaseSession(none) /\ conn' = 0 /\ told' = {}
      BY <1>2, <2>1 DEF Close, Detaches
    <2>4. /\ Relay /\ resuming' \in BOOLEAN /\ enabled' = FALSE /\ pending' = <<>>
          /\ ring' \in Seq(RingMsgs) /\ toMain' \in Seq(PipeMsgs) /\ lost' \subseteq Requests
          /\ \E mid \in Seq(Answered) : toMain' = (toMain \o mid) \o (<<[kind |-> "disconnected"]>> \o none)
      BY <1>1, <2>2, <2>3, ReleaseRelays
    <2>5. \E mid \in Seq(Answered) : toMain' = Append(toMain \o mid, [kind |-> "disconnected"])
      <3>1. PICK mid \in Seq(Answered) : toMain' = (toMain \o mid) \o (<<[kind |-> "disconnected"]>> \o none)
        BY <2>4
      <3>2. <<[kind |-> "disconnected"]>> \o none = <<[kind |-> "disconnected"]>>
        BY <2>1
      <3>3. mid \in Seq(PipeMsgs) /\ toMain \in Seq(PipeMsgs)
        BY <1>0, Kinds, NarrowSeq DEF WiresOK
      <3>4. PICK t : t = toMain \o mid
        OBVIOUS
      <3>5. t \in Seq(PipeMsgs)
        BY <3>3, <3>4, CatIs
      <3> QED BY <3>1, <3>2, <3>4, <3>5, Kinds, AppendIsConcat
    <2>6. TypeOK'
      <3>1. MainOK' /\ WiresOK'
        BY <1>0, <1>1, <2>4 DEF MainOK, WiresOK
      <3>2. WorkerOK'
        <4>1. resuming' \in BOOLEAN /\ enabled' \in BOOLEAN /\ pending' \in Seq(Requests)
          BY <2>4, EmptySeq
        <4>2. 0 \in 0..MaxConns
          BY BoundsAssumption
        <4> QED BY <1>0, <1>1, <2>3, <4>1, <4>2 DEF WorkerOK
      <3>3. GhostsOK'
        BY <1>0, <1>1, <2>3, <2>4 DEF GhostsOK
      <3> QED BY <3>1, <3>2, <3>3, Groups
    <2> QED BY <1>1, <1>2, <2>3, <2>4, <2>5, <2>6
  <1>3. CASE c # conn
    <2>1. UNCHANGED <<conn, told, toMain, ring, lost, resuming, enabled, pending>>
      BY <1>3 DEF Close, Detaches
    <2>2. TypeOK'
      BY <1>0, <1>1, <2>1, Groups DEF MainOK, WiresOK, WorkerOK, GhostsOK
    <2>3. Relay
      BY <1>1, <2>1 DEF Relay
    <2> QED BY <1>1, <1>3, <2>1, <2>2, <2>3
  <1> QED BY <1>2, <1>3

LEMMA CommandRelays ==
    ASSUME TypeOK, Once(pending), Enable \/ Disable \/ Inspect \/ AskResume
    PROVE  /\ TypeOK' /\ Relay
           /\ \E mid \in Seq(Answered) : toMain' = toMain \o mid
           /\ UNCHANGED <<alive, conn, conns, given>> /\ Connected
           /\ (told' = {} \/ (told' = told /\ pending' = pending))
  <1> USE DEF mainVars, wires, workerVars, clientVars, domainVars, ghosts
  <1>0. MainOK /\ WiresOK /\ WorkerOK /\ GhostsOK /\ toMain \in Seq(PipeMsgs)
    BY Groups DEF WiresOK
  <1>1. /\ UNCHANGED <<hooked, fetch, known, attached, stopped, toWorker, alive, conn, conns, sockets, paused, since, given, breaks>>
        /\ Connected
    BY DEF Enable, Disable, Inspect, AskResume, Command
  <1>2. <<>> \in Seq(Answered) /\ toMain = toMain \o <<>>
    BY <1>0, EmptySeq, ConcatEmptySeq
  <1>3. CASE Enable
    <2>1. enabled' = TRUE /\ UNCHANGED <<toMain, ring, lost, pending, told, resuming>>
      BY <1>3 DEF Enable
    <2>2. TypeOK'
      BY <1>0, <1>1, <2>1, Groups DEF MainOK, WiresOK, WorkerOK, GhostsOK
    <2>3. Relay
      BY <1>1, <2>1 DEF Relay
    <2> QED BY <1>1, <1>2, <2>1, <2>2, <2>3
  <1>4. CASE Inspect \/ AskResume
    <2>1. /\ ring' \in Seq(RingMsgs) /\ lost' \subseteq Requests /\ lost \subseteq lost' /\ toMain' = toMain
          /\ \A r : Coming(ring', r) <=> Coming(ring, r)
      BY <1>4, InspectIs DEF Inspect, AskResume
    <2>2. UNCHANGED <<pending, told, enabled>> /\ resuming' \in BOOLEAN
      BY <1>0, <1>4 DEF Inspect, AskResume, WorkerOK
    <2>3. TypeOK'
      BY <1>0, <1>1, <2>1, <2>2, Groups DEF MainOK, WiresOK, WorkerOK, GhostsOK
    <2>4. Relay
      BY <1>1, <2>1, <2>2 DEF Relay
    <2> QED BY <1>1, <1>2, <2>1, <2>2, <2>3, <2>4
  <1>5. CASE Disable
    <2>1. pending \in Seq(Requests) /\ Notify(Answers(pending, TRUE), <<>>)
      BY <1>5, Pending DEF Disable
    <2>2. /\ ring' \in Seq(RingMsgs) /\ lost' \subseteq Requests /\ lost \subseteq lost'
          /\ \E mid \in Seq(Answered) : toMain' = toMain \o mid
          /\ toMain' \in Seq(PipeMsgs)
          /\ \A r : Coming(toMain, r) => Coming(toMain', r)
          /\ \A r : Coming(ring, r) => Coming(ring', r)
          /\ \A r : Has(pending, r) => Coming(toMain', r) \/ Coming(ring', r) \/ r \in lost'
          /\ \A r : Coming(toMain', r) => Coming(toMain, r) \/ Has(pending, r)
          /\ \A r : Coming(ring', r) => Coming(ring, r) \/ Has(pending, r)
          /\ \A k : Says(toMain, k) => Says(toMain', k)
      <3> HIDE <1>0
      <3> QED BY <2>1, AnsweringIs
    <2>3. enabled' = FALSE /\ pending' = <<>> /\ told' = {} /\ UNCHANGED resuming
      BY <1>5 DEF Disable
    <2>4. Once(pending') /\ \A r : ~Has(pending', r)
      BY <2>3, Pending
    <2>5. Relay
      BY <1>1, <2>2, <2>4 DEF Relay
    <2>6. TypeOK'
      <3>1. MainOK' /\ WiresOK'
        BY <1>0, <1>1, <2>2 DEF MainOK, WiresOK
      <3>2. WorkerOK'
        BY <1>0, <1>1, <2>3, EmptySeq DEF WorkerOK
      <3>3. GhostsOK'
        BY <1>0, <1>1, <2>2, <2>3 DEF GhostsOK
      <3> QED BY <3>1, <3>2, <3>3, Groups
    <2> QED BY <1>1, <2>2, <2>3, <2>5, <2>6
  <1> QED BY <1>3, <1>4, <1>5

LEMMA AnswerRelays ==
    ASSUME TypeOK, Once(pending), NEW r \in Requests, Answer(r)
    PROVE  /\ TypeOK' /\ Relay
           /\ \E mid \in Seq(Answered) : toMain' = toMain \o mid
           /\ UNCHANGED <<alive, conn, conns>> /\ Connected
           /\ r \in told /\ told' = told \ {r} /\ Has(pending, r) /\ given' = [given EXCEPT ![r] = conn]
           /\ \A s : Has(pending', s) <=> Has(pending, s) /\ s # r
  <1> USE DEF mainVars, wires, workerVars, clientVars, domainVars, ghosts
  <1>0. MainOK /\ WiresOK /\ WorkerOK /\ GhostsOK /\ pending \in Seq(Requests)
    BY Groups DEF WorkerOK
  <1>1. /\ UNCHANGED <<hooked, fetch, known, attached, stopped, toWorker, alive, conn, conns, sockets, enabled, paused, resuming, since, breaks>>
        /\ Connected /\ r \in told /\ told' = told \ {r} /\ given' = [given EXCEPT ![r] = conn]
    BY DEF Answer, Command
  <1>2. PICK rs : rs = <<r>>
    OBVIOUS
  <1>3. rs \in Seq(Requests) /\ \A s : Has(rs, s) <=> s = r
    BY <1>2 DEF Has
  <1>4. /\ ring' \in Seq(RingMsgs) /\ lost' \subseteq Requests /\ lost \subseteq lost'
        /\ \E mid \in Seq(Answered) : toMain' = toMain \o mid
        /\ toMain' \in Seq(PipeMsgs)
        /\ \A s : Coming(toMain, s) => Coming(toMain', s)
        /\ \A s : Coming(ring, s) => Coming(ring', s)
        /\ \A s : Has(rs, s) => Coming(toMain', s) \/ Coming(ring', s) \/ s \in lost'
        /\ \A s : Coming(toMain', s) => Coming(toMain, s) \/ Has(rs, s)
        /\ \A s : Coming(ring', s) => Coming(ring, s) \/ Has(rs, s)
        /\ \A k : Says(toMain, k) => Says(toMain', k)
    <2>1. Notify(Answers(rs, FALSE), <<>>)
      BY <1>2 DEF Answer
    <2> HIDE <1>0
    <2> QED BY <1>3, <2>1, AnsweringIs
  <1>5. PICK i \in DOMAIN pending :
            pending[i] = r /\ pending' = SubSeq(pending, 1, i - 1) \o SubSeq(pending, i + 1, Len(pending))
    BY DEF Answer
  <1>6. i \in 1..Len(pending)
    BY <1>0, <1>5, LenProperties
  <1>7. PICK a, b : a = SubSeq(pending, 1, i - 1) /\ b = SubSeq(pending, i + 1, Len(pending))
    OBVIOUS
  <1>8. /\ a \in Seq(Requests) /\ Len(a) = i - 1 /\ \A x \in 1..(i-1) : a[x] = pending[x]
        /\ b \in Seq(Requests) /\ Len(b) = Len(pending) - i /\ \A x \in 1..(Len(pending) - i) : b[x] = pending[i + x]
    <2>1. a \in Seq(Requests) /\ Len(a) = i - 1 /\ \A x \in 1..(i-1) : a[x] = pending[x]
      BY <1>0, <1>6, <1>7, FrontIs
    <2>2. b \in Seq(Requests) /\ Len(b) = Len(pending) - i /\ \A x \in 1..(Len(pending) - i) : b[x] = pending[i + x]
      BY <1>0, <1>6, <1>7, BackIs
    <2> QED BY <2>1, <2>2
  <1>9. PICK t : t = a \o b
    OBVIOUS
  <1>10. /\ t \in Seq(Requests) /\ Len(t) = Len(pending) - 1
         /\ \A x \in 1..(Len(pending) - 1) : t[x] = IF x < i THEN pending[x] ELSE pending[x+1]
    <2>1. pending \in Seq(Requests)
      BY <1>0
    <2>2. /\ a \o b \in Seq(Requests) /\ Len(a \o b) = Len(pending) - 1
          /\ \A x \in 1..(Len(pending) - 1) : (a \o b)[x] = IF x < i THEN pending[x] ELSE pending[x+1]
      <3> HIDE <1>0
      <3> QED BY <1>6, <1>8, <2>1, JoinedIs
    <2> QED BY <1>9, <2>2
  <1>11. Once(t) /\ \A s : Has(t, s) <=> Has(pending, s) /\ s # pending[i]
    BY <1>0, <1>6, <1>10, TakenOut
  <1>12. pending' = t
    BY <1>5, <1>7, <1>9
  <1>13. Has(pending, r)
    BY <1>5 DEF Has
  <1>14. Relay
    BY <1>1, <1>3, <1>4, <1>5, <1>11, <1>12, <1>13 DEF Relay
  <1>15. TypeOK'
    <2>1. MainOK' /\ WiresOK'
      BY <1>0, <1>1, <1>4 DEF MainOK, WiresOK
    <2>2. WorkerOK'
      BY <1>0, <1>1, <1>10, <1>12 DEF WorkerOK
    <2>3. GhostsOK'
      BY <1>0, <1>1, <1>4 DEF GhostsOK, WorkerOK
    <2> QED BY <2>1, <2>2, <2>3, Groups
  <1> QED BY <1>1, <1>4, <1>5, <1>11, <1>12, <1>13, <1>14, <1>15

-----------------------------------------------------------------------------
(* The invariant. *)

\* A fetch waits only while the hooks are there, and somebody has it; the hooks
\* outlive the worker only until the end of the pipe is read.
Owned(r) ==
    \/ Has(toWorker, r) \/ Has(pending, r)
    \/ Coming(toMain, r) \/ Coming(ring, r) \/ r \in lost \/ Says(toMain, "closed")
Owners ==
    /\ \A r \in Requests : fetch[r] = "waits" => hooked /\ Owned(r)
    /\ hooked /\ ~alive => Says(toMain, "closed")

\* A request is in one place.
Held(r) == Has(toWorker, r) \/ Has(pending, r)
Answering(r) == Coming(toMain, r) \/ Coming(ring, r)
Places ==
    /\ Once(toWorker) /\ Once(pending)
    /\ \A r \in Requests :
         /\ Has(toWorker, r) => ~Has(pending, r)
         /\ Held(r) => ~Answering(r)
         /\ Held(r) \/ Answering(r) => fetch[r] # "new"

\* Connections are announced in their order, and while one is attached nothing
\* that ends it is on the pipe: a "disconnected" there precedes its announcement.
Numbers ==
    /\ conn \in {0, conns} /\ known <= conns
    /\ \A r \in Requests : since[r] <= known
Rising(q, k, n) ==
    /\ \A i \in DOMAIN q : q[i].kind = "connected" => k < q[i].of /\ q[i].of <= n
    /\ \A i, j \in DOMAIN q : i < j /\ q[i].kind = "connected" /\ q[j].kind = "connected" => q[i].of < q[j].of
Greeted(q) == \A i \in DOMAIN q : q[i].kind = "disconnected" => \E j \in DOMAIN q : j > i /\ q[j].kind = "connected"
Announced == Rising(toMain, known, conns) /\ (Connected => Greeted(toMain))

\* What the client was told of is pending; a fetch made for the attached client
\* waits as long as the worker has it.
Told == (enabled => Connected) /\ \A r \in told : alive /\ Connected /\ Has(pending, r)
HeldWaits ==
    \A r \in Requests : Held(r) /\ hooked /\ alive /\ Connected /\ since[r] = conn => fetch[r] = "waits"

LEMMA RisingCat ==
    ASSUME NEW q \in Seq(PipeMsgs), NEW t \in Seq(Answered), NEW k, NEW n, Rising(q, k, n)
    PROVE  /\ q \o t \in Seq(PipeMsgs) /\ Rising(q \o t, k, n)
           /\ Greeted(q) => Greeted(q \o t)
  <1>1. t \in Seq(PipeMsgs)
    BY Kinds, NarrowSeq
  <1>2. PICK z : z = q \o t
    OBVIOUS
  <1>3. /\ z \in Seq(PipeMsgs)
        /\ \A i \in DOMAIN q : i \in DOMAIN z /\ z[i] = q[i]
        /\ \A i \in DOMAIN z :
                \/ i \in DOMAIN q /\ z[i] = q[i]
                \/ i - Len(q) \in DOMAIN t /\ i > Len(q) /\ z[i] = t[i - Len(q)]
    BY <1>1, <1>2, CatIs
  <1>4. \A i \in DOMAIN t : t[i].kind = "result"
    BY Kinds
  <1>5. \A i \in DOMAIN z : z[i].kind \in {"connected", "disconnected"} => i \in DOMAIN q /\ z[i] = q[i]
    BY <1>3, <1>4
  <1>6. Rising(z, k, n)
    BY <1>5 DEF Rising
  <1>7. Greeted(q) => Greeted(z)
    BY <1>3, <1>5 DEF Greeted
  <1> QED BY <1>2, <1>3, <1>6, <1>7

LEMMA RisingAppend ==
    ASSUME NEW q \in Seq(PipeMsgs), NEW k \in Nat, NEW n \in Nat, k <= n, Rising(q, k, n), NEW m \in PipeMsgs
    PROVE  /\ m.kind \notin {"connected", "disconnected"} =>
                Rising(Append(q, m), k, n) /\ (Greeted(q) => Greeted(Append(q, m)))
           /\ m.kind = "disconnected" => Rising(Append(q, m), k, n)
           /\ m.kind = "connected" /\ m.of = n + 1 => Rising(Append(q, m), k, n + 1) /\ Greeted(Append(q, m))
  <1>1. PICK z : z = Append(q, m)
    OBVIOUS
  <1>2. /\ DOMAIN q = 1..Len(q) /\ Len(q) \in Nat /\ DOMAIN z = 1..(Len(q) + 1)
        /\ z[Len(q) + 1] = m /\ \A i \in 1..Len(q) : z[i] = q[i]
    BY <1>1
  <1>3. \A i \in DOMAIN q : q[i].kind = "connected" => k < q[i].of /\ q[i].of <= n /\ q[i].of \in Nat
    BY Kinds, BoundsAssumption DEF Rising
  <1>4. ASSUME m.kind # "connected" PROVE Rising(z, k, n)
    <2>1. \A i \in DOMAIN z : z[i].kind = "connected" => i \in DOMAIN q /\ z[i] = q[i]
      BY <1>2, <1>4
    <2> QED BY <2>1 DEF Rising
  <1>5. ASSUME m.kind \notin {"connected", "disconnected"}, Greeted(q) PROVE Greeted(z)
    <2>1. \A i \in DOMAIN z : z[i].kind = "disconnected" => i \in DOMAIN q /\ z[i] = q[i]
      BY <1>2, <1>5
    <2>2. \A i \in DOMAIN q : i \in DOMAIN z /\ z[i] = q[i]
      BY <1>2
    <2> QED BY <1>5, <2>1, <2>2 DEF Greeted
  <1>6. ASSUME m.kind = "connected", m.of = n + 1 PROVE Rising(z, k, n + 1) /\ Greeted(z)
    <2>1. Greeted(z)
      BY <1>2, <1>6 DEF Greeted
    <2>2. ASSUME NEW i \in DOMAIN z, z[i].kind = "connected" PROVE k < z[i].of /\ z[i].of <= n + 1
      BY <1>2, <1>3, <1>6, <2>2
    <2>3. ASSUME NEW i \in DOMAIN z, NEW j \in DOMAIN z, i < j, z[i].kind = "connected", z[j].kind = "connected"
          PROVE  z[i].of < z[j].of
      <3>1. i \in DOMAIN q /\ z[i] = q[i]
        BY <1>2, <2>3
      <3>2. CASE j \in DOMAIN q
        BY <1>2, <2>3, <3>1, <3>2 DEF Rising
      <3>3. CASE j = Len(q) + 1
        BY <1>2, <1>3, <1>6, <2>3, <3>1, <3>3
      <3> QED BY <1>2, <3>2, <3>3
    <2> QED BY <2>1, <2>2, <2>3 DEF Rising
  <1> QED BY <1>1, <1>4, <1>5, <1>6

LEMMA RisingTail ==
    ASSUME NEW q \in Seq(PipeMsgs), q # <<>>, NEW k \in Nat, NEW n \in Nat, Rising(q, k, n)
    PROVE  /\ Rising(Tail(q), IF Head(q).kind = "connected" THEN Head(q).of ELSE k, n)
           /\ Greeted(q) => Greeted(Tail(q))
           /\ Head(q).kind = "connected" => k < Head(q).of /\ Head(q).of <= n
           /\ Greeted(q) /\ Head(q).kind = "disconnected" => k < n
  <1>1. PICK t, h : t = Tail(q) /\ h = Head(q)
    OBVIOUS
  <1>2. /\ h = q[1] /\ 1 \in DOMAIN q /\ DOMAIN q = 1..Len(q) /\ Len(q) \in Nat
        /\ DOMAIN t = 1..(Len(q) - 1) /\ \A i \in 1..(Len(q) - 1) : t[i] = q[i+1]
    BY <1>1, TailIs
  <1>3. \A i \in DOMAIN t : i + 1 \in DOMAIN q /\ t[i] = q[i+1] /\ i + 1 > 1 /\ i \in Nat
    BY <1>2
  <1>4. \A i \in DOMAIN q : q[i].kind = "connected" => k < q[i].of /\ q[i].of <= n /\ q[i].of \in Nat
    BY Kinds, BoundsAssumption DEF Rising
  <1>5. PICK x : x = IF h.kind = "connected" THEN h.of ELSE k
    OBVIOUS
  <1>6. Rising(t, x, n)
    <2>1. ASSUME NEW i \in DOMAIN t, t[i].kind = "connected" PROVE x < t[i].of /\ t[i].of <= n
      BY <1>2, <1>3, <1>4, <1>5, <2>1 DEF Rising
    <2>2. ASSUME NEW i \in DOMAIN t, NEW j \in DOMAIN t, i < j, t[i].kind = "connected", t[j].kind = "connected"
          PROVE  t[i].of < t[j].of
      <3>1. i + 1 < j + 1
        BY <1>3, <2>2
      <3> QED BY <1>3, <2>2, <3>1 DEF Rising
    <2> QED BY <2>1, <2>2 DEF Rising
  <1>7. ASSUME Greeted(q) PROVE Greeted(t)
    <2> SUFFICES ASSUME NEW i \in DOMAIN t, t[i].kind = "disconnected"
                 PROVE  \E j \in DOMAIN t : j > i /\ t[j].kind = "connected"
      BY DEF Greeted
    <2>1. PICK j \in DOMAIN q : j > i + 1 /\ q[j].kind = "connected"
      BY <1>3, <1>7 DEF Greeted
    <2>2. j - 1 \in DOMAIN t /\ j - 1 > i /\ t[j-1] = q[j]
      BY <1>2, <1>3, <2>1
    <2> QED BY <2>1, <2>2
  <1>8. ASSUME Greeted(q), h.kind = "disconnected" PROVE k < n
    <2>1. PICK j \in DOMAIN q : q[j].kind = "connected"
      BY <1>2, <1>8 DEF Greeted
    <2> QED BY <1>4, <2>1
  <1> QED BY <1>1, <1>2, <1>4, <1>5, <1>6, <1>7, <1>8

-----------------------------------------------------------------------------
(* Each part of the invariant is kept. *)

Inv == TypeOK /\ Owners /\ Places /\ Numbers /\ Announced /\ Told /\ HeldWaits

LEMMA Atoms ==
    \A r : /\ Held(r)' <=> Has(toWorker', r) \/ Has(pending', r)
           /\ Answering(r)' <=> Coming(toMain', r) \/ Coming(ring', r)
           /\ Owned(r)' <=> \/ Has(toWorker', r) \/ Has(pending', r) \/ Coming(toMain', r) \/ Coming(ring', r)
                            \/ r \in lost' \/ Says(toMain', "closed")
  BY DEF Held, Answering, Owned, Has, Coming, Says

\* What a relay leaves of the places and the owners.
LEMMA RelayPlaces == ASSUME Places, Relay PROVE Places'
  <1>1. toWorker' = toWorker /\ fetch' = fetch /\ Once(toWorker') /\ Once(pending')
    BY DEF Places, Relay
  <1>2. ASSUME NEW r \in Requests
        PROVE  /\ Has(toWorker', r) => ~Has(pending', r)
               /\ Held(r)' => ~Answering(r)'
               /\ Held(r)' \/ Answering(r)' => fetch'[r] # "new"
    <2>1. /\ Has(toWorker, r) => ~Has(pending, r)
          /\ Held(r) => ~Answering(r)
          /\ Held(r) \/ Answering(r) => fetch[r] # "new"
      BY DEF Places
    <2>2. /\ Has(pending', r) => Has(pending, r)
          /\ Coming(toMain', r) => Coming(toMain, r) \/ (Has(pending, r) /\ ~Has(pending', r))
          /\ Coming(ring', r) => Coming(ring, r) \/ (Has(pending, r) /\ ~Has(pending', r))
      BY DEF Relay
    <2> QED BY <1>1, <2>1, <2>2, Atoms DEF Held, Answering
  <1> QED BY <1>1, <1>2 DEF Places, Once, Has

LEMMA RelayOwners ==
    ASSUME Owners, Relay, alive' = alive \/ Says(toMain', "closed")
    PROVE  Owners'
  <1>1. hooked' = hooked /\ fetch' = fetch
    BY DEF Relay
  <1>2. ASSUME NEW r \in Requests, fetch'[r] = "waits" PROVE hooked' /\ Owned(r)'
    <2>1. hooked /\ Owned(r)
      BY <1>1, <1>2 DEF Owners
    <2> QED BY <1>1, <2>1, Atoms DEF Owned, Relay
  <1>3. ASSUME hooked', ~alive' PROVE Says(toMain', "closed")
    BY <1>1, <1>3 DEF Owners, Relay
  <1> QED BY <1>2, <1>3 DEF Owners, Says

LEMMA RelayHeld ==
    ASSUME TypeOK, Numbers, HeldWaits, Relay, alive' => alive, conn' = conn \/ conn' = 0 \/ conn' = conns + 1
    PROVE  HeldWaits'
  <1> SUFFICES ASSUME NEW r \in Requests, Held(r)', hooked', alive', conn' # 0, since'[r] = conn'
               PROVE  fetch'[r] = "waits"
    BY DEF HeldWaits, Connected
  <1>1. Held(r) /\ hooked /\ alive /\ since[r] = conn' /\ fetch' = fetch
    BY Atoms DEF Held, Relay
  <1>2. since[r] <= conns /\ conns \in Nat
    BY Groups, BoundsAssumption DEF Numbers, WorkerOK, MainOK, GhostsOK
  <1>3. conn' = conn
    BY <1>1, <1>2
  <1> QED BY <1>1, <1>3 DEF HeldWaits, Connected

\* A relay that only answers, on the pipe.
LEMMA RelayAnnounced ==
    ASSUME TypeOK, Announced, known' = known, conn' = conn, conns' = conns,
           NEW mid \in Seq(Answered), toMain' = toMain \o mid
    PROVE  Announced'
  <1>1. toMain \in Seq(PipeMsgs) /\ Rising(toMain, known, conns) /\ (conn # 0 => Greeted(toMain))
    BY Groups DEF WiresOK, Announced, Connected
  <1>2. Rising(toMain', known', conns') /\ (conn' # 0 => Greeted(toMain'))
    BY <1>1, RisingCat
  <1> QED BY <1>2 DEF Announced, Connected, Rising, Greeted

LEMMA OnceTail ==
    ASSUME NEW S, NEW q \in Seq(S), q # <<>>, Once(q)
    PROVE  Once(Tail(q)) /\ ~Has(Tail(q), Head(q))
  <1>1. PICK t : t = Tail(q)
    OBVIOUS
  <1>2. /\ Head(q) = q[1] /\ 1 \in DOMAIN q
        /\ \A i \in DOMAIN t : i + 1 \in DOMAIN q /\ t[i] = q[i+1] /\ i \in Nat /\ i # 0
    BY <1>1, TailIs
  <1>3. Once(t)
    <2> SUFFICES ASSUME NEW i \in DOMAIN t, NEW j \in DOMAIN t, t[i] = t[j] PROVE i = j
      BY DEF Once
    <2>1. i + 1 = j + 1
      BY <1>2 DEF Once
    <2> QED BY <1>2, <2>1
  <1>4. ~Has(t, Head(q))
    <2> SUFFICES ASSUME NEW i \in DOMAIN t, t[i] = Head(q) PROVE FALSE
      BY DEF Has
    <2>1. i + 1 = 1
      BY <1>2 DEF Once
    <2> QED BY <1>2, <2>1
  <1> QED BY <1>1, <1>3, <1>4

LEMMA OnceAppend ==
    ASSUME NEW S, NEW q \in Seq(S), NEW x \in S, Once(q), ~Has(q, x)
    PROVE  Once(Append(q, x))
  <1>1. PICK t : t = Append(q, x)
    OBVIOUS
  <1>2. /\ DOMAIN q = 1..Len(q) /\ Len(q) \in Nat /\ DOMAIN t = 1..(Len(q) + 1)
        /\ t[Len(q) + 1] = x /\ \A i \in 1..Len(q) : t[i] = q[i]
    BY <1>1
  <1>3. \A i \in DOMAIN t : i \in DOMAIN q \/ i = Len(q) + 1
    BY <1>2
  <1>4. \A i \in DOMAIN q : t[i] = q[i] /\ q[i] # x
    BY <1>2 DEF Has
  <1>5. Once(t)
    BY <1>2, <1>3, <1>4 DEF Once
  <1> QED BY <1>1, <1>5

LEMMA InvRelays ==
    ASSUME Inv, Worker \/ Client, ~Receive
    PROVE  Inv'
  <1>0. TypeOK /\ Owners /\ Places /\ Once(pending) /\ Numbers /\ Announced /\ Told /\ HeldWaits
    BY DEF Inv, Places
  <1>1. conn \in Nat /\ conns \in Nat /\ known \in Nat /\ toMain \in Seq(PipeMsgs) /\ conn \in {0, conns} /\ known <= conns
        /\ Rising(toMain, known, conns) /\ (conn # 0 => Greeted(toMain))
    BY <1>0, Groups, BoundsAssumption DEF WorkerOK, MainOK, WiresOK, Numbers, Announced, Connected
  <1>2. ASSUME TypeOK', Relay, alive' = alive \/ Says(toMain', "closed"), alive' => alive,
               conn' = conn \/ conn' = 0 \/ conn' = conns + 1,
               conns' = conns \/ conns' = conns + 1, conn' \in {0, conns'}, Announced', Told'
        PROVE  Inv'
    <2>1. Numbers'
      <3>1. known' = known /\ since' = since
        BY <1>2 DEF Relay
      <3>2. known' <= conns'
        BY <1>1, <1>2, <3>1
      <3> QED BY <1>0, <1>2, <3>1, <3>2 DEF Numbers
    <2> QED BY <1>0, <1>2, <2>1, RelayPlaces, RelayOwners, RelayHeld DEF Inv
  <1>3. ASSUME SeePause \/ Resume \/ GraceTimer \/ WorkerExit PROVE Inv'
    <2>1. /\ TypeOK' /\ Relay /\ UNCHANGED <<conn, conns, enabled, pending>>
          /\ \/ UNCHANGED <<toMain, alive, told>>
             \/ toMain' = Append(toMain, [kind |-> "closed"]) /\ alive' = FALSE /\ told' = {}
      BY <1>0, <1>3, WorkerRelays
    <2>2. known' = known
      BY <2>1 DEF Relay
    <2>3. CASE UNCHANGED <<toMain, alive, told>>
      <3>1. Announced' /\ Told'
        BY <1>0, <2>1, <2>2, <2>3 DEF Announced, Rising, Greeted, Connected, Told, Has
      <3> QED BY <1>1, <1>2, <2>1, <2>3, <3>1
    <2>4. CASE toMain' = Append(toMain, [kind |-> "closed"]) /\ alive' = FALSE /\ told' = {}
      <3>1. PICK m : m = [kind |-> "closed"]
        OBVIOUS
      <3>2. m \in PipeMsgs /\ m.kind = "closed" /\ toMain' = Append(toMain, m)
        BY <2>4, <3>1, Kinds
      <3>3. Rising(toMain', known', conns') /\ (conn' # 0 => Greeted(toMain'))
        BY <1>1, <2>1, <2>2, <3>2, RisingAppend
      <3>4. Announced' /\ Told'
        BY <1>0, <2>1, <2>4, <3>3 DEF Announced, Rising, Greeted, Connected, Told
      <3>5. Says(toMain', "closed")
        BY <1>1, <3>2, AppendIs
      <3> QED BY <1>1, <1>2, <2>1, <2>4, <3>4, <3>5
    <2> QED BY <2>1, <2>3, <2>4
  <1>4. ASSUME Connect PROVE Inv'
    <2>1. /\ TypeOK' /\ Relay
          /\ conns' = conns + 1 /\ conn' = conns' /\ told' = {} /\ UNCHANGED <<alive, given>>
          /\ \/ toMain' = Append(toMain, [kind |-> "connected", of |-> conns']) /\ ~Connected
             \/ \E mid \in Seq(Answered) :
                    toMain' = Append(Append(toMain \o mid, [kind |-> "disconnected"]), [kind |-> "connected", of |-> conns'])
      BY <1>0, <1>4, ConnectRelays
    <2>2. known' = known /\ conn' # 0 /\ conns' \in 1..MaxConns
      BY <1>1, <2>1, Groups DEF Relay, WorkerOK
    <2>3. PICK m : m = [kind |-> "connected", of |-> conns']
      OBVIOUS
    <2>4. m \in PipeMsgs /\ m.kind = "connected" /\ m.of = conns + 1
      BY <2>1, <2>2, <2>3, Kinds
    <2>5. Rising(toMain', known', conns') /\ Greeted(toMain')
      <3>1. CASE toMain' = Append(toMain, m)
        BY <1>1, <2>1, <2>2, <2>4, <3>1, RisingAppend
      <3>2. CASE \E mid \in Seq(Answered) : toMain' = Append(Append(toMain \o mid, [kind |-> "disconnected"]), m)
        <4>0. PICK d : d = [kind |-> "disconnected"]
          OBVIOUS
        <4>1. PICK mid \in Seq(Answered) : toMain' = Append(Append(toMain \o mid, d), m)
          BY <3>2, <4>0
        <4>2. d \in PipeMsgs /\ d.kind = "disconnected"
          BY <4>0, Kinds
        <4>3. PICK t : t = toMain \o mid
          OBVIOUS
        <4>4. t \in Seq(PipeMsgs) /\ Rising(t, known, conns)
          BY <1>1, <4>3, RisingCat
        <4>5. PICK u : u = Append(t, d)
          OBVIOUS
        <4>6. u \in Seq(PipeMsgs) /\ Rising(u, known, conns)
          BY <1>1, <4>2, <4>4, <4>5, RisingAppend, AppendProperties
        <4>7. toMain' = Append(u, m)
          BY <4>1, <4>3, <4>5
        <4> QED BY <1>1, <2>1, <2>2, <2>4, <4>6, <4>7, RisingAppend
      <3> QED BY <2>1, <2>3, <3>1, <3>2
    <2>6. Announced'
      BY <2>5 DEF Announced, Rising, Greeted, Connected
    <2>7. Told'
      BY <2>1, <2>2 DEF Told, Connected
    <2> QED BY <1>1, <1>2, <2>1, <2>6, <2>7
  <1>5. ASSUME NEW c \in 1..MaxConns, Close(c) PROVE Inv'
    <2>1. /\ TypeOK' /\ Relay
          /\ \/ /\ c = conn /\ conn' = 0 /\ told' = {} /\ enabled' = FALSE
                /\ \E mid \in Seq(Answered) : toMain' = Append(toMain \o mid, [kind |-> "disconnected"])
             \/ c # conn /\ UNCHANGED <<conn, told, toMain, ring, lost, pending, enabled>>
          /\ UNCHANGED <<alive, conns, given>>
      BY <1>0, <1>5, CloseRelays
    <2>2. known' = known
      BY <2>1 DEF Relay
    <2>3. CASE c # conn
      <3>1. Announced' /\ Told'
        BY <1>0, <2>1, <2>2, <2>3 DEF Announced, Rising, Greeted, Connected, Told, Has
      <3> QED BY <1>1, <1>2, <2>1, <2>3, <3>1
    <2>4. CASE c = conn
      <3>0. PICK d : d = [kind |-> "disconnected"]
        OBVIOUS
      <3>1. PICK mid \in Seq(Answered) : toMain' = Append(toMain \o mid, d)
        BY <2>1, <2>4, <3>0
      <3>2. d \in PipeMsgs /\ d.kind = "disconnected"
        BY <3>0, Kinds
      <3>3. PICK t : t = toMain \o mid
        OBVIOUS
      <3>4. t \in Seq(PipeMsgs) /\ Rising(t, known, conns)
        BY <1>1, <3>3, RisingCat
      <3>5. Rising(toMain', known', conns')
        BY <1>1, <2>1, <2>2, <3>1, <3>2, <3>3, <3>4, RisingAppend
      <3>6. conn' = 0 /\ told' = {} /\ enabled' = FALSE
        BY <2>1, <2>4
      <3>7. Announced' /\ Told'
        BY <3>5, <3>6 DEF Announced, Rising, Connected, Told
      <3> QED BY <1>1, <1>2, <2>1, <3>6, <3>7
    <2> QED BY <2>3, <2>4
  <1>6. ASSUME Enable \/ Disable \/ Inspect \/ AskResume PROVE Inv'
    <2>1. /\ TypeOK' /\ Relay
          /\ \E mid \in Seq(Answered) : toMain' = toMain \o mid
          /\ UNCHANGED <<alive, conn, conns, given>> /\ Connected
          /\ (told' = {} \/ (told' = told /\ pending' = pending))
      BY <1>0, <1>6, CommandRelays
    <2>2. known' = known
      BY <2>1 DEF Relay
    <2>3. Announced'
      BY <1>0, <2>1, <2>2, RelayAnnounced
    <2>4. Told'
      BY <1>0, <2>1 DEF Told, Connected, Has
    <2> QED BY <1>1, <1>2, <2>1, <2>3, <2>4
  <1>7. ASSUME NEW r \in Requests, Answer(r) PROVE Inv'
    <2>1. /\ TypeOK' /\ Relay
          /\ \E mid \in Seq(Answered) : toMain' = toMain \o mid
          /\ UNCHANGED <<alive, conn, conns>> /\ Connected
          /\ r \in told /\ told' = told \ {r}
          /\ \A s : Has(pending', s) <=> Has(pending, s) /\ s # r
      BY <1>0, <1>7, AnswerRelays
    <2>2. known' = known
      BY <2>1 DEF Relay
    <2>3. Announced'
      BY <1>0, <2>1, <2>2, RelayAnnounced
    <2>4. \A s \in told' : alive' /\ conn' # 0 /\ Has(pending', s)
      BY <1>0, <2>1 DEF Told, Connected
    <2>5. Told'
      BY <2>1, <2>4 DEF Told, Connected, Has
    <2> QED BY <1>1, <1>2, <2>1, <2>3, <2>5
  <1> QED BY <1>3, <1>4, <1>5, <1>6, <1>7 DEF Worker, Client

-----------------------------------------------------------------------------
(* A request reaches the worker. *)

LEMMA InvReceive ==
    ASSUME Inv, Receive
    PROVE  Inv'
  <1> USE DEF mainVars, wires, workerVars, clientVars, domainVars, ghosts
  <1>0. TypeOK /\ Owners /\ Places /\ Numbers /\ Announced /\ Told /\ HeldWaits /\ MainOK /\ WiresOK /\ WorkerOK /\ GhostsOK
    BY Groups DEF Inv
  <1>1. PICK r : r = Head(toWorker)
    OBVIOUS
  <1>2. /\ alive /\ toWorker # <<>> /\ toWorker' = Tail(toWorker)
        /\ UNCHANGED <<hooked, fetch, known, attached, stopped, alive, conn, conns, sockets, enabled, paused, resuming, since, given, breaks>>
        /\ \/ Unwanted(r) /\ UNCHANGED <<pending, told>>
           \/ /\ enabled /\ pending' = Append(pending, r) /\ told' = told \cup {r}
              /\ UNCHANGED <<toMain, ring, lost>>
    BY <1>1 DEF Receive
  <1>3. r \in Requests /\ toWorker' \in Seq(Requests) /\ \A s : Has(toWorker, s) <=> Has(toWorker', s) \/ s = r
    BY <1>0, <1>1, <1>2, TailIs, HasInTail DEF WiresOK
  <1>4. Once(toWorker') /\ ~Has(toWorker', r)
    BY <1>0, <1>1, <1>2, OnceTail DEF WiresOK, Places
  <1>5. ~Has(pending, r) /\ ~Coming(toMain, r) /\ ~Coming(ring, r) /\ fetch[r] # "new"
    BY <1>0, <1>3 DEF Places, Held, Answering
  <1>6. Numbers'
    BY <1>0, <1>2 DEF Numbers
  <1>7. CASE Unwanted(r) /\ UNCHANGED <<pending, told>>
    <2>1. PICK rs : rs = <<r>>
      OBVIOUS
    <2>2. rs \in Seq(Requests) /\ \A s : Has(rs, s) <=> s = r
      BY <1>3, <2>1 DEF Has
    <2>3. Notify(Answers(rs, TRUE), <<>>)
      BY <1>7, <2>1 DEF Unwanted
    <2>4. /\ ring' \in Seq(RingMsgs) /\ lost' \subseteq Requests /\ lost \subseteq lost'
          /\ \E mid \in Seq(Answered) : toMain' = toMain \o mid
          /\ toMain' \in Seq(PipeMsgs)
          /\ \A s : Coming(toMain, s) => Coming(toMain', s)
          /\ \A s : Coming(ring, s) => Coming(ring', s)
          /\ \A s : Has(rs, s) => Coming(toMain', s) \/ Coming(ring', s) \/ s \in lost'
          /\ \A s : Coming(toMain', s) => Coming(toMain, s) \/ Has(rs, s)
          /\ \A s : Coming(ring', s) => Coming(ring, s) \/ Has(rs, s)
          /\ \A k : Says(toMain, k) => Says(toMain', k)
      BY <1>0, <2>2, <2>3, AnsweringIs
    <2>5. TypeOK'
      BY <1>0, <1>2, <1>3, <1>7, <2>4, Groups DEF MainOK, WiresOK, WorkerOK, GhostsOK
    <2>6. Owners'
      <3>1. ASSUME NEW s \in Requests, fetch'[s] = "waits" PROVE hooked' /\ Owned(s)'
        <4>1. hooked /\ Owned(s)
          BY <1>0, <1>2, <3>1 DEF Owners
        <4> QED BY <1>2, <1>3, <1>7, <2>2, <2>4, <4>1, Atoms DEF Owned
      <3> QED BY <1>2, <3>1 DEF Owners
    <2>7. Places'
      <3>1. ASSUME NEW s \in Requests
            PROVE  /\ Has(toWorker', s) => ~Has(pending', s)
                   /\ Held(s)' => ~Answering(s)'
                   /\ Held(s)' \/ Answering(s)' => fetch'[s] # "new"
        <4>1. /\ Has(toWorker, s) => ~Has(pending, s)
              /\ Held(s) => ~Answering(s)
              /\ Held(s) \/ Answering(s) => fetch[s] # "new"
          BY <1>0 DEF Places
        <4>2. CASE s = r
          BY <1>2, <1>4, <1>5, <1>7, <4>2, Atoms
        <4>3. CASE s # r
          <5>1. (Has(toWorker', s) <=> Has(toWorker, s)) /\ pending' = pending
            BY <1>3, <1>7, <4>3
          <5>2. (Coming(toMain', s) => Coming(toMain, s)) /\ (Coming(ring', s) => Coming(ring, s))
            BY <2>2, <2>4, <4>3
          <5> QED BY <1>2, <4>1, <5>1, <5>2, Atoms DEF Held, Answering
        <4> QED BY <4>2, <4>3
      <3>2. Once(pending')
        BY <1>0, <1>7 DEF Places
      <3> QED BY <1>4, <3>1, <3>2 DEF Places, Once, Has
    <2>8. Announced'
      BY <1>0, <1>2, <2>4, RelayAnnounced
    <2>9. Told'
      BY <1>0, <1>2, <1>7 DEF Told, Connected, Has
    <2>10. HeldWaits'
      <3> SUFFICES ASSUME NEW s \in Requests, Held(s)', hooked', alive', conn' # 0, since'[s] = conn'
                   PROVE  fetch'[s] = "waits"
        BY DEF HeldWaits, Connected
      <3>1. Held(s) /\ hooked /\ alive /\ conn # 0 /\ since[s] = conn
        BY <1>2, <1>3, <1>7, Atoms DEF Held
      <3> QED BY <1>0, <1>2, <3>1 DEF HeldWaits, Connected
    <2> QED BY <1>6, <2>5, <2>6, <2>7, <2>8, <2>9, <2>10 DEF Inv
  <1>8. CASE /\ enabled /\ pending' = Append(pending, r) /\ told' = told \cup {r}
             /\ UNCHANGED <<toMain, ring, lost>>
    <2>1. pending \in Seq(Requests) /\ Once(pending)
      BY <1>0 DEF WorkerOK, Places
    <2>2. pending' \in Seq(Requests) /\ \A s : Has(pending', s) <=> Has(pending, s) \/ s = r
      BY <1>3, <1>8, <2>1, HasInAppend
    <2>3. Once(pending')
      BY <1>3, <1>5, <1>8, <2>1, OnceAppend
    <2>4. TypeOK'
      BY <1>0, <1>2, <1>3, <1>8, <2>2, Groups DEF MainOK, WiresOK, WorkerOK, GhostsOK
    <2>5. \A s : Held(s)' <=> Held(s)
      BY <1>3, <2>2, Atoms DEF Held
    <2>6. \A s : Answering(s)' <=> Answering(s)
      BY <1>8, Atoms DEF Answering
    <2>7. Owners'
      <3>1. ASSUME NEW s \in Requests, fetch'[s] = "waits" PROVE hooked' /\ Owned(s)'
        <4>1. hooked /\ Owned(s)
          BY <1>0, <1>2, <3>1 DEF Owners
        <4> QED BY <1>2, <1>3, <1>8, <2>2, <4>1, Atoms DEF Owned
      <3> QED BY <1>2, <3>1 DEF Owners
    <2>8. Places'
      <3>1. ASSUME NEW s \in Requests
            PROVE  /\ Has(toWorker', s) => ~Has(pending', s)
                   /\ Held(s)' => ~Answering(s)'
                   /\ Held(s)' \/ Answering(s)' => fetch'[s] # "new"
        BY <1>0, <1>2, <1>3, <1>4, <2>2, <2>5, <2>6 DEF Places
      <3> QED BY <1>4, <2>3, <3>1 DEF Places, Once, Has
    <2>9. Announced'
      BY <1>0, <1>2, <1>8 DEF Announced, Rising, Greeted, Connected
    <2>10. \A s \in told' : alive' /\ conn' # 0 /\ Has(pending', s)
      BY <1>0, <1>2, <1>8, <2>2 DEF Told, Connected
    <2>11. Told'
      BY <1>0, <1>2, <2>10 DEF Told, Connected, Has
    <2>12. HeldWaits'
      BY <1>0, <1>2, <2>5 DEF HeldWaits, Connected
    <2> QED BY <1>6, <2>4, <2>7, <2>8, <2>9, <2>11, <2>12 DEF Inv
  <1> QED BY <1>2, <1>7, <1>8

-----------------------------------------------------------------------------
(* The steps of the main thread. *)

LEMMA SendsFetch ==
    ASSUME Inv, NEW r \in Requests, Fetch(r)
    PROVE  Inv'
  <1> USE DEF mainVars, wires, workerVars, clientVars, domainVars, ghosts
  <1>0. TypeOK /\ Owners /\ Places /\ Numbers /\ Announced /\ Told /\ HeldWaits /\ MainOK /\ WiresOK /\ WorkerOK /\ GhostsOK
    BY Groups DEF Inv
  <1>1. /\ hooked /\ fetch[r] = "new"
        /\ fetch' = [fetch EXCEPT ![r] = "waits"] /\ since' = [since EXCEPT ![r] = known]
        /\ toWorker' = IF alive THEN Append(toWorker, r) ELSE toWorker
        /\ UNCHANGED <<hooked, known, attached, stopped, toMain, ring, alive, conn, conns, sockets, enabled, pending, paused, resuming, told, given, lost, breaks>>
    BY DEF Fetch
  <1>2. TypeOK'
    BY <1>0, TypeMain DEF Main
  <1>3. toWorker \in Seq(Requests) /\ Once(toWorker) /\ Once(pending) /\ ~Held(r) /\ ~Answering(r)
    BY <1>0, <1>1 DEF WiresOK, Places
  <1>4. \A s : Has(toWorker', s) <=> Has(toWorker, s) \/ (alive /\ s = r)
    BY <1>1, <1>3, HasInAppend
  <1>5. Once(toWorker')
    BY <1>1, <1>3, OnceAppend DEF Held
  <1>6. \A s : Held(s)' <=> Held(s) \/ (alive /\ s = r)
    BY <1>1, <1>4, Atoms DEF Held
  <1>7. \A s : Answering(s)' <=> Answering(s)
    BY <1>1, Atoms DEF Answering
  <1>8. fetch'[r] = "waits" /\ since'[r] = known /\ \A s \in Requests \ {r} : fetch'[s] = fetch[s] /\ since'[s] = since[s]
    BY <1>0, <1>1 DEF MainOK, GhostsOK
  <1>9. Owners'
    <2>1. ASSUME NEW s \in Requests, fetch'[s] = "waits" PROVE hooked' /\ Owned(s)'
      <3>1. CASE s = r
        BY <1>0, <1>1, <1>4, <3>1, Atoms DEF Owners
      <3>2. CASE s # r
        <4>1. Owned(s)
          BY <1>0, <1>8, <2>1, <3>2 DEF Owners
        <4> QED BY <1>1, <1>4, <4>1, Atoms DEF Owned
      <3> QED BY <3>1, <3>2
    <2> QED BY <1>0, <1>1, <2>1 DEF Owners
  <1>10. Places'
    <2>1. ASSUME NEW s \in Requests
          PROVE  /\ Has(toWorker', s) => ~Has(pending', s)
                 /\ Held(s)' => ~Answering(s)'
                 /\ Held(s)' \/ Answering(s)' => fetch'[s] # "new"
      BY <1>0, <1>1, <1>3, <1>4, <1>6, <1>7, <1>8 DEF Places, Held
    <2>2. Once(pending')
      BY <1>1, <1>3
    <2> QED BY <1>5, <2>1, <2>2 DEF Places, Once, Has
  <1>11. Numbers'
    <2>1. \A s \in Requests : since'[s] <= known'
      BY <1>0, <1>1, <1>8, BoundsAssumption DEF Numbers, MainOK
    <2> QED BY <1>0, <1>1, <2>1 DEF Numbers
  <1>12. Announced' /\ Told'
    BY <1>0, <1>1 DEF Announced, Rising, Greeted, Connected, Told, Has
  <1>13. HeldWaits'
    BY <1>0, <1>1, <1>6, <1>8 DEF HeldWaits, Connected
  <1> QED BY <1>2, <1>9, <1>10, <1>11, <1>12, <1>13 DEF Inv

LEMMA ReadsPipe ==
    ASSUME Inv, ServePipe
    PROVE  Inv'
  <1> USE DEF mainVars, wires, workerVars, clientVars, domainVars, ghosts
  <1>0. TypeOK /\ Owners /\ Places /\ Numbers /\ Announced /\ Told /\ HeldWaits /\ MainOK /\ WiresOK /\ WorkerOK /\ GhostsOK
    BY Groups DEF Inv
  <1>1. PICK m : m = Head(toMain)
    OBVIOUS
  <1>2. /\ toMain # <<>> /\ toMain' = Tail(toMain)
        /\ fetch' = IF ~hooked THEN fetch
                    ELSE IF m.kind = "result" THEN Resolved(m)
                    ELSE IF m.kind = "disconnected" THEN Released
                    ELSE IF m.kind = "closed" THEN TornDown
                    ELSE fetch
        /\ known' = IF m.kind = "connected" THEN m.of ELSE known
        /\ hooked' = (hooked /\ m.kind # "closed")
        /\ UNCHANGED <<toWorker, ring, alive, conn, conns, enabled, pending, since, told, given, lost, breaks>>
    BY <1>1 DEF ServePipe
  <1>3. TypeOK'
    BY <1>0, TypeMain DEF Main
  <1>4. /\ toMain \in Seq(PipeMsgs) /\ conns \in Nat /\ known \in Nat /\ conn \in Nat
        /\ conn \in {0, conns} /\ known <= conns /\ Rising(toMain, known, conns) /\ (conn # 0 => Greeted(toMain))
        /\ \A r \in Requests : since[r] \in Nat /\ since[r] <= known
    BY <1>0, BoundsAssumption DEF MainOK, WiresOK, WorkerOK, GhostsOK, Numbers, Announced, Connected
  <1>5. m \in PipeMsgs
    BY <1>1, <1>2, <1>4, TailIs
  <1>6. \A r : Coming(toMain, r) <=> Coming(toMain', r) \/ (m.kind = "result" /\ m.of = r)
    BY <1>1, <1>2, <1>4, ComingInTail
  <1>7. Says(toMain, "closed") => Says(toMain', "closed") \/ m.kind = "closed"
    <2> SUFFICES ASSUME Says(toMain, "closed"), m.kind # "closed" PROVE Says(toMain', "closed")
      OBVIOUS
    <2>1. PICK i \in DOMAIN toMain : toMain[i].kind = "closed"
      BY DEF Says
    <2>2. i # 1
      BY <1>1, <1>2, <1>4, <2>1, TailIs
    <2>3. i - 1 \in DOMAIN toMain' /\ toMain'[i - 1] = toMain[i]
      BY <1>2, <1>4, <2>2, TailIs
    <2> QED BY <2>1, <2>3 DEF Says
  <1>8. /\ Rising(toMain', known', conns) /\ (conn # 0 => Greeted(toMain'))
        /\ m.kind = "connected" => known < m.of /\ m.of <= conns
        /\ conn # 0 /\ m.kind = "disconnected" => known < conns
    BY <1>1, <1>2, <1>4, RisingTail
  <1>9. \A r \in Requests :
           /\ fetch'[r] = "waits" => fetch[r] = "waits"
           /\ fetch'[r] = "new" <=> fetch[r] = "new"
           /\ fetch[r] = "waits" /\ fetch'[r] # "waits" =>
                \/ m.kind = "result" /\ m.of = r
                \/ m.kind = "disconnected" \/ m.kind = "closed"
           /\ hooked /\ fetch'[r] = "waits" => m.kind # "closed" /\ ~(m.kind = "result" /\ m.of = r)
    <2>1. fetch \in [Requests -> Fates]
      BY <1>0 DEF MainOK
    <2>2. m.kind = "result" => m.of \in Requests /\ m.null \in BOOLEAN
      BY <1>5, Kinds DEF Answered
    <2> QED BY <1>2, <2>1, <2>2 DEF Resolved, Released, TornDown
  <1>10. Owners'
    <2>1. ASSUME NEW r \in Requests, fetch'[r] = "waits" PROVE hooked' /\ Owned(r)'
      <3>1. hooked /\ Owned(r)
        BY <1>0, <1>9, <2>1 DEF Owners
      <3>2. m.kind # "closed" /\ ~(m.kind = "result" /\ m.of = r)
        BY <1>9, <2>1, <3>1
      <3> QED BY <1>2, <1>6, <1>7, <3>1, <3>2, Atoms DEF Owned
    <2>2. hooked' /\ ~alive' => Says(toMain', "closed")
      BY <1>0, <1>2, <1>7 DEF Owners
    <2> QED BY <2>1, <2>2 DEF Owners, Says
  <1>11. Places'
    <2>1. ASSUME NEW r \in Requests
          PROVE  /\ Has(toWorker', r) => ~Has(pending', r)
                 /\ Held(r)' => ~Answering(r)'
                 /\ Held(r)' \/ Answering(r)' => fetch'[r] # "new"
      BY <1>0, <1>2, <1>6, <1>9, Atoms DEF Places, Held, Answering
    <2> QED BY <1>0, <1>2, <2>1 DEF Places, Once, Has
  <1>12. Numbers'
    <2>1. known' <= conns /\ \A r \in Requests : since[r] <= known'
      <3>1. CASE m.kind = "connected"
        <4>1. m.of \in Nat
          BY <1>5, <3>1, Kinds
        <4> QED BY <1>2, <1>4, <1>8, <3>1, <4>1
      <3>2. CASE m.kind # "connected"
        BY <1>2, <1>4, <3>2
      <3> QED BY <3>1, <3>2
    <2> QED BY <1>2, <1>4, <2>1 DEF Numbers
  <1>13. Announced' /\ Told'
    BY <1>0, <1>2, <1>8 DEF Announced, Rising, Greeted, Connected, Told, Has
  <1>14. HeldWaits'
    <2> SUFFICES ASSUME NEW r \in Requests, Held(r)', hooked', alive', conn' # 0, since'[r] = conn'
                 PROVE  fetch'[r] = "waits"
      BY DEF HeldWaits, Connected
    <2>1. Held(r) /\ hooked /\ alive /\ conn # 0 /\ since[r] = conn /\ m.kind # "closed"
      BY <1>2, Atoms DEF Held
    <2>2. fetch[r] = "waits"
      BY <1>0, <2>1 DEF HeldWaits, Connected
    <2>3. ~(m.kind = "result" /\ m.of = r)
      BY <1>0, <1>6, <2>1 DEF Places, Answering
    <2>4. m.kind # "disconnected"
      BY <1>4, <1>8, <2>1
    <2> QED BY <1>9, <2>1, <2>2, <2>3, <2>4
  <1> QED BY <1>3, <1>10, <1>11, <1>12, <1>13, <1>14 DEF Inv

LEMMA ReadsRing ==
    ASSUME Inv, ServeRing
    PROVE  Inv'
  <1> USE DEF mainVars, wires, workerVars, clientVars, domainVars, ghosts
  <1>0. TypeOK /\ Owners /\ Places /\ Numbers /\ Announced /\ Told /\ HeldWaits /\ MainOK /\ WiresOK /\ WorkerOK /\ GhostsOK
    BY Groups DEF Inv
  <1>1. UNCHANGED <<hooked, known, toWorker, toMain, alive, conn, conns, enabled, pending, since, told, given, lost, breaks>>
    BY DEF ServeRing
  <1>2. TypeOK'
    BY <1>0, TypeMain DEF Main
  <1>3. Numbers' /\ Announced' /\ Told'
    BY <1>0, <1>1 DEF Numbers, Announced, Rising, Greeted, Connected, Told, Has
  <1>4. CASE alive
    <2>1. PICK m : m = Head(ring)
      OBVIOUS
    <2>2. ring # <<>> /\ ring' = Tail(ring) /\ fetch' = IF m.kind = "result" THEN Resolved(m) ELSE fetch
      BY <1>4, <2>1 DEF ServeRing
    <2>3. ring \in Seq(RingMsgs) /\ m \in RingMsgs
      BY <1>0, <2>1, <2>2, TailIs DEF WiresOK
    <2>4. \A r : Coming(ring, r) <=> Coming(ring', r) \/ (m.kind = "result" /\ m.of = r)
      BY <2>1, <2>2, <2>3, ComingInTail
    <2>5. \A r \in Requests :
             /\ fetch'[r] = "waits" => fetch[r] = "waits" /\ ~(m.kind = "result" /\ m.of = r)
             /\ fetch'[r] = "new" <=> fetch[r] = "new"
             /\ fetch[r] = "waits" /\ fetch'[r] # "waits" => m.kind = "result" /\ m.of = r
      <3>1. fetch \in [Requests -> Fates]
        BY <1>0 DEF MainOK
      <3>2. m.kind = "result" => m.of \in Requests /\ m.null \in BOOLEAN
        BY <2>3, Kinds DEF Answered
      <3> QED BY <2>2, <3>1, <3>2 DEF Resolved
    <2>6. Owners'
      <3>1. ASSUME NEW r \in Requests, fetch'[r] = "waits" PROVE hooked' /\ Owned(r)'
        <4>1. hooked /\ Owned(r)
          BY <1>0, <2>5, <3>1 DEF Owners
        <4> QED BY <1>1, <2>4, <2>5, <3>1, <4>1, Atoms DEF Owned
      <3> QED BY <1>1, <1>4, <3>1 DEF Owners
    <2>7. Places'
      <3>1. ASSUME NEW r \in Requests
            PROVE  /\ Has(toWorker', r) => ~Has(pending', r)
                   /\ Held(r)' => ~Answering(r)'
                   /\ Held(r)' \/ Answering(r)' => fetch'[r] # "new"
        BY <1>0, <1>1, <2>4, <2>5, Atoms DEF Places, Held, Answering
      <3> QED BY <1>0, <1>1, <3>1 DEF Places, Once, Has
    <2>8. HeldWaits'
      <3> SUFFICES ASSUME NEW r \in Requests, Held(r)', hooked', alive', conn' # 0, since'[r] = conn'
                   PROVE  fetch'[r] = "waits"
        BY DEF HeldWaits, Connected
      <3>1. Held(r) /\ fetch[r] = "waits"
        BY <1>0, <1>1, Atoms DEF Held, HeldWaits, Connected
      <3>2. ~(m.kind = "result" /\ m.of = r)
        BY <1>0, <2>4, <3>1 DEF Places, Answering
      <3> QED BY <2>5, <3>1, <3>2
    <2> QED BY <1>2, <1>3, <2>6, <2>7, <2>8 DEF Inv
  <1>5. CASE ~alive
    <2>1. ring' = <<>> /\ fetch' = fetch
      BY <1>5 DEF ServeRing
    <2>2. \A r : ~Coming(ring', r)
      BY <2>1 DEF Coming
    <2>3. Owners'
      <3>1. ASSUME NEW r \in Requests, fetch'[r] = "waits" PROVE hooked' /\ Owned(r)'
        <4>1. hooked /\ Says(toMain, "closed")
          BY <1>0, <1>5, <2>1, <3>1 DEF Owners
        <4> QED BY <1>1, <4>1, Atoms
      <3> QED BY <1>0, <1>1, <3>1 DEF Owners, Says
    <2>4. Places'
      <3>1. ASSUME NEW r \in Requests
            PROVE  /\ Has(toWorker', r) => ~Has(pending', r)
                   /\ Held(r)' => ~Answering(r)'
                   /\ Held(r)' \/ Answering(r)' => fetch'[r] # "new"
        BY <1>0, <1>1, <2>1, <2>2, Atoms DEF Places, Held, Answering
      <3> QED BY <1>0, <1>1, <3>1 DEF Places, Once, Has
    <2>5. HeldWaits'
      BY <1>1, <1>5 DEF HeldWaits
    <2> QED BY <1>2, <1>3, <2>3, <2>4, <2>5 DEF Inv
  <1> QED BY <1>4, <1>5

LEMMA DetachesOrStops ==
    ASSUME Inv, Detach \/ Stop \/ UNCHANGED vars
    PROVE  Inv'
  <1> USE DEF vars, mainVars, wires, workerVars, clientVars, domainVars, ghosts
  <1>0. TypeOK /\ Owners /\ Places /\ Numbers /\ Announced /\ Told /\ HeldWaits /\ fetch \in [Requests -> Fates]
    BY Groups DEF Inv, MainOK
  <1>1. UNCHANGED <<known, toWorker, toMain, ring, alive, conn, conns, enabled, pending, since, told, given, lost>>
    BY DEF Detach, Stop
  <1>2. TypeOK'
    <2>1. CASE UNCHANGED vars
      BY <1>0, <2>1 DEF TypeOK
    <2> QED BY <1>0, <2>1, TypeMain DEF Main
  <1>3. Numbers' /\ Announced' /\ Told'
    BY <1>0, <1>1 DEF Numbers, Announced, Rising, Greeted, Connected, Told, Has
  <1>4. \/ hooked' = hooked /\ fetch' = fetch
        \/ ~hooked' /\ \A r \in Requests : fetch'[r] # "waits" /\ (fetch'[r] = "new" <=> fetch[r] = "new")
    BY <1>0 DEF Detach, Stop, TornDown, Released
  <1>5. \A r : (Held(r)' <=> Held(r)) /\ (Answering(r)' <=> Answering(r)) /\ (Owned(r)' <=> Owned(r))
    BY <1>1, Atoms DEF Held, Answering, Owned
  <1>6. Owners' /\ Places' /\ HeldWaits'
    <2>1. Owners'
      BY <1>0, <1>1, <1>4, <1>5 DEF Owners, Says
    <2>2. Places'
      BY <1>0, <1>1, <1>4, <1>5 DEF Places, Once, Has
    <2>3. HeldWaits'
      BY <1>0, <1>1, <1>4, <1>5 DEF HeldWaits, Connected
    <2> QED BY <2>1, <2>2, <2>3
  <1> QED BY <1>2, <1>3, <1>6 DEF Inv

-----------------------------------------------------------------------------
LEMMA Invariance == Spec => []Inv
  <1>1. Init => Inv
    <2> SUFFICES ASSUME Init PROVE Inv
      OBVIOUS
    <2>1. TypeOK
      <3>1. <<>> \in Seq(Requests) /\ <<>> \in Seq(PipeMsgs) /\ <<>> \in Seq(RingMsgs) /\ 0 \in 0..MaxConns
        BY BoundsAssumption, EmptySeq
      <3> QED BY <3>1, Groups DEF Init, MainOK, WiresOK, WorkerOK, GhostsOK, Fates
    <2>2. \A r : ~Has(<<>>, r) /\ ~Coming(<<>>, r)
      BY DEF Has, Coming
    <2>3. Owners /\ Places
      BY <2>2 DEF Init, Owners, Places, Held, Answering, Owned, Once
    <2>4. Numbers /\ Announced /\ Told /\ HeldWaits
      BY <2>2 DEF Init, Numbers, Announced, Rising, Connected, Told, HeldWaits, Held
    <2> QED BY <2>1, <2>3, <2>4 DEF Inv
  <1>2. Inv /\ [Next]_vars => Inv'
    BY InvRelays, InvReceive, SendsFetch, ReadsPipe, ReadsRing, DetachesOrStops DEF Next, Main
  <1> QED BY <1>1, <1>2, PTL DEF Spec

\* The types of every part, on both threads and between them.
THEOREM TypeCorrect == Spec => []TypeOK
  <1>1. Inv => TypeOK
    BY DEF Inv
  <1> QED BY <1>1, Invariance, PTL

\* No fetch waits on the main thread that nobody else knows of.
THEOREM WaitsAreOwned == Spec => []EveryWaitIsOwned
  <1>1. Inv => EveryWaitIsOwned
    BY DEF Inv, Owners, Owned, Has, Says, EveryWaitIsOwned
  <1> QED BY <1>1, Invariance, PTL

\* A fetch the client was told of waits for it.
THEOREM HeldForClient == Spec => []HeldForItsClient
  <1>1. Inv => HeldForItsClient
    <2> SUFFICES ASSUME Inv, NEW r \in told, hooked, since[r] = conn PROVE fetch[r] = "waits"
      BY DEF HeldForItsClient
    <2>1. r \in Requests /\ alive /\ Connected /\ Held(r)
      BY Groups DEF Inv, GhostsOK, Told, Held
    <2> QED BY <2>1 DEF Inv, HeldWaits
  <1> QED BY <1>1, Invariance, PTL

-----------------------------------------------------------------------------
(* An answer is not overtaken.  The ring is served while the main thread is *)
(* stopped, and emptied before it goes on; the pipe keeps its order.       *)

NonNull(q, r) == \A i \in DOMAIN q : q[i].kind = "result" /\ q[i].of = r => ~q[i].null
Ahead(q, r) ==
    \E i \in DOMAIN q : /\ q[i].kind = "result" /\ q[i].of = r
                        /\ \A j \in DOMAIN q : j < i => q[j].kind # "disconnected"

\* Only a stopped main thread has a ring to serve, and a resume ends the ring.
RingServed ==
    /\ paused /\ alive => stopped /\ ~Says(ring, "resume")
    /\ ring # <<>> /\ alive => stopped
    /\ \A i \in DOMAIN ring : ring[i].kind = "resume" => i = Len(ring)

\* A request that was answered is nowhere but in its answer.
OnlyItsAnswer ==
    \A r \in Requests : given[r] # 0 =>
        ~Held(r) /\ fetch[r] # "new" /\ NonNull(toMain, r) /\ NonNull(ring, r)

\* The answer of the client the fetch was made for has arrived or will be first.
AnswerLeads ==
    \A r \in Requests : given[r] # 0 /\ given[r] = since[r] /\ hooked /\ alive /\ r \notin lost =>
        \/ fetch[r] = "answered"
        \/ fetch[r] = "waits" /\ (Ahead(toMain, r) \/ Coming(ring, r))
Leads == RingServed /\ OnlyItsAnswer /\ AnswerLeads

\* What a step adds to the two ways: answers for some requests, all of one kind,
\* and on the ring only while paused.
Results(q, who, null) == \A i \in DOMAIN q : q[i].kind = "result" => q[i].of \in who /\ q[i].null = null
Adds(who, null) ==
    \E t \in Seq(PipeMsgs), u \in Seq(RingMsgs) :
        /\ toMain' = toMain \o t /\ ring' = ring \o u
        /\ Results(t, who, null) /\ Results(u, who, null)
        /\ (u # <<>> => paused) /\ ~Says(u, "resume")

LEMMA ResultsInCat ==
    ASSUME NEW S, NEW q \in Seq(S), NEW t \in Seq(S), NEW who, NEW null, Results(q, who, null), Results(t, who, null)
    PROVE  Results(q \o t, who, null)
  <1>1. PICK z : z = q \o t
    OBVIOUS
  <1>2. \A i \in DOMAIN z : (i \in DOMAIN q /\ z[i] = q[i]) \/ (i - Len(q) \in DOMAIN t /\ z[i] = t[i - Len(q)])
    BY <1>1, CatIs
  <1> QED BY <1>1, <1>2 DEF Results

LEMMA NotifyAdds ==
    ASSUME TypeOK, NEW msgs \in Seq(RingMsgs), ~paused => msgs \in Seq(Answered),
           NEW last \in Seq(PipeMsgs), Notify(msgs, last), NEW who, NEW null,
           Results(msgs, who, null), Results(last, who, null), ~Says(msgs, "resume")
    PROVE  Adds(who, null)
  <1>1. WiresOK /\ ring \in Seq(RingMsgs) /\ toMain \in Seq(PipeMsgs) /\ paused \in BOOLEAN
    BY Groups DEF WiresOK, WorkerOK
  <1>2. CASE paused
    <2>1. PICK e : e = Entering(msgs)
      OBVIOUS
    <2>2. e \in Seq(RingMsgs) /\ \A i \in DOMAIN e : i \in DOMAIN msgs /\ e[i] = msgs[i]
      BY <1>1, <2>1, EnteringIs
    <2>3. ring' = ring \o e /\ toMain' = toMain \o last
      BY <1>2, <2>1 DEF Notify
    <2>4. Results(e, who, null) /\ ~Says(e, "resume")
      BY <2>2 DEF Results, Says
    <2> QED BY <1>2, <2>2, <2>3, <2>4 DEF Adds
  <1>3. CASE ~paused
    <2>1. msgs \in Seq(Answered) /\ msgs \in Seq(PipeMsgs)
      BY <1>3, Kinds, NarrowSeq
    <2>2. toMain' = (toMain \o msgs) \o last /\ ring' = ring
      BY <1>3 DEF Notify
    <2>3. PICK t : t = msgs \o last
      OBVIOUS
    <2>4. t \in Seq(PipeMsgs) /\ Results(t, who, null)
      BY <2>1, <2>3, CatIs, ResultsInCat
    <2>5. toMain' = toMain \o t
      BY <1>1, <2>1, <2>2, <2>3, ConcatAssociative
    <2>6. PICK u : u = <<>>
      OBVIOUS
    <2>7. u \in Seq(RingMsgs) /\ ring' = ring \o u /\ Results(u, who, null) /\ ~Says(u, "resume")
      BY <1>1, <2>2, <2>6, EmptySeq, ConcatEmptySeq DEF Results, Says
    <2> QED BY <2>4, <2>5, <2>6, <2>7 DEF Adds
  <1> QED BY <1>2, <1>3

\* Nothing new on either way.
LEMMA NothingAdds ==
    ASSUME TypeOK, UNCHANGED <<toMain, ring>>, NEW who, NEW null
    PROVE  Adds(who, null)
  <1>1. ring \in Seq(RingMsgs) /\ toMain \in Seq(PipeMsgs)
    BY Groups DEF WiresOK
  <1>2. PICK u : u = <<>>
    OBVIOUS
  <1>3. /\ u \in Seq(RingMsgs) /\ u \in Seq(PipeMsgs) /\ ring' = ring \o u /\ toMain' = toMain \o u
        /\ Results(u, who, null) /\ ~Says(u, "resume")
    BY <1>1, <1>2, EmptySeq, ConcatEmptySeq DEF Results, Says
  <1> QED BY <1>2, <1>3 DEF Adds

LEMMA AnswersAdd ==
    ASSUME TypeOK, NEW rs \in Seq(Requests), NEW null \in BOOLEAN, Notify(Answers(rs, null), <<>>)
    PROVE  Adds({r \in Requests : Has(rs, r)}, null)
  <1>1. PICK a, none, who : a = Answers(rs, null) /\ none = <<>> /\ who = {r \in Requests : Has(rs, r)}
    OBVIOUS
  <1>2. a \in Seq(Answered) /\ a \in Seq(RingMsgs) /\ none \in Seq(PipeMsgs)
    BY <1>1, AnswersAre, Kinds, NarrowSeq, EmptySeq
  <1>3. DOMAIN a = DOMAIN rs /\ \A i \in DOMAIN a : rs[i] \in Requests /\ a[i] = [kind |-> "result", of |-> rs[i], null |-> null]
    BY <1>1 DEF Answers
  <1>4. Results(a, who, null) /\ ~Says(a, "resume") /\ Results(none, who, null)
    BY <1>1, <1>3 DEF Results, Says, Has
  <1>5. Notify(a, none)
    BY <1>1
  <1> QED BY <1>1, <1>2, <1>4, <1>5, NotifyAdds

LEMMA InspectAdds ==
    ASSUME TypeOK, Notify(Inspects, <<>>), NEW who, NEW null
    PROVE  Adds(who, null)
  <1>1. PICK h, none : h = Inspects /\ none = <<>>
    OBVIOUS
  <1>2. h \in Seq(RingMsgs) /\ (~paused => h = <<>>) /\ Results(h, who, null) /\ ~Says(h, "resume")
    BY <1>1, Kinds DEF Inspects, Results, Says
  <1>3. none \in Seq(PipeMsgs) /\ none \in Seq(Answered) /\ Results(none, who, null)
    BY <1>1, EmptySeq DEF Results
  <1>4. Notify(h, none)
    BY <1>1
  <1> QED BY <1>1, <1>2, <1>3, <1>4, NotifyAdds

LEMMA ReleaseAdds ==
    ASSUME TypeOK, NEW then \in Seq(PipeMsgs), \A i \in DOMAIN then : then[i].kind # "result", ReleaseSession(then)
    PROVE  Adds({r \in Requests : Has(pending, r)}, TRUE)
  <1>1. PICK a, h, d, who : /\ a = Answers(pending, TRUE) /\ h = Inspects /\ d = <<[kind |-> "disconnected"]>>
                            /\ who = {r \in Requests : Has(pending, r)}
    OBVIOUS
  <1>2. pending \in Seq(Requests)
    BY Pending
  <1>3. a \in Seq(Answered) /\ a \in Seq(RingMsgs)
    BY <1>1, <1>2, AnswersAre, Kinds, NarrowSeq
  <1>4. DOMAIN a = DOMAIN pending /\ \A i \in DOMAIN a : pending[i] \in Requests /\ a[i] = [kind |-> "result", of |-> pending[i], null |-> TRUE]
    BY <1>1, <1>2 DEF Answers
  <1>5. Results(a, who, TRUE) /\ ~Says(a, "resume")
    <2>1. \A i \in DOMAIN a : pending[i] \in who
      BY <1>1, <1>4 DEF Has
    <2>2. \A i \in DOMAIN a : a[i].kind = "result" /\ a[i].of = pending[i] /\ a[i].null = TRUE
      BY <1>4
    <2> QED BY <2>1, <2>2 DEF Results, Says
  <1>6. h \in Seq(RingMsgs) /\ (~paused => h = <<>>) /\ Results(h, who, TRUE) /\ ~Says(h, "resume")
    BY <1>1, Kinds DEF Inspects, Results, Says
  <1>7. d \in Seq(PipeMsgs) /\ Results(d, who, TRUE) /\ Results(then, who, TRUE)
    BY <1>1, Kinds DEF Results
  <1>8. PICK msgs, last : msgs = h \o a /\ last = d \o then
    OBVIOUS
  <1>9. /\ msgs \in Seq(RingMsgs) /\ Results(msgs, who, TRUE) /\ ~Says(msgs, "resume")
        /\ last \in Seq(PipeMsgs) /\ Results(last, who, TRUE)
    BY <1>3, <1>5, <1>6, <1>7, <1>8, CatIs, ResultsInCat, SaysInCat
  <1>10. ~paused => msgs \in Seq(Answered)
    BY <1>3, <1>6, <1>8, ConcatEmptySeq
  <1>11. Notify(msgs, last)
    BY <1>1, <1>8 DEF ReleaseSession
  <1> QED BY <1>1, <1>9, <1>10, <1>11, NotifyAdds

LEMMA Primed ==
    /\ OnlyItsAnswer' <=> \A r \in Requests : given'[r] # 0 =>
           ~Held(r)' /\ fetch'[r] # "new" /\ NonNull(toMain', r) /\ NonNull(ring', r)
    /\ AnswerLeads' <=> \A r \in Requests : given'[r] # 0 /\ given'[r] = since'[r] /\ hooked' /\ alive' /\ r \notin lost' =>
           fetch'[r] = "answered" \/ (fetch'[r] = "waits" /\ (Ahead(toMain', r) \/ Coming(ring', r)))
    /\ RingServed' <=> /\ paused' /\ alive' => stopped' /\ ~Says(ring', "resume")
                       /\ ring' # <<>> /\ alive' => stopped'
                       /\ \A i \in DOMAIN ring' : ring'[i].kind = "resume" => i = Len(ring')
  <1>1. \A r : (NonNull(toMain, r)' <=> NonNull(toMain', r)) /\ (NonNull(ring, r)' <=> NonNull(ring', r))
    BY DEF NonNull
  <1>2. \A r : (Ahead(toMain, r)' <=> Ahead(toMain', r)) /\ (Coming(ring, r)' <=> Coming(ring', r))
    BY DEF Ahead, Coming
  <1>3. Says(ring, "resume")' <=> Says(ring', "resume")
    BY DEF Says
  <1>4. OnlyItsAnswer' <=> \A r \in Requests : given'[r] # 0 =>
           ~Held(r)' /\ fetch'[r] # "new" /\ NonNull(toMain', r) /\ NonNull(ring', r)
    BY <1>1 DEF OnlyItsAnswer
  <1>5. AnswerLeads' <=> \A r \in Requests : given'[r] # 0 /\ given'[r] = since'[r] /\ hooked' /\ alive' /\ r \notin lost' =>
           fetch'[r] = "answered" \/ (fetch'[r] = "waits" /\ (Ahead(toMain', r) \/ Coming(ring', r)))
    BY <1>2 DEF AnswerLeads
  <1>6. RingServed' <=> /\ paused' /\ alive' => stopped' /\ ~Says(ring', "resume")
                        /\ ring' # <<>> /\ alive' => stopped'
                        /\ \A i \in DOMAIN ring' : ring'[i].kind = "resume" => i = Len(ring')
    BY <1>3 DEF RingServed
  <1> QED BY <1>4, <1>5, <1>6

\* What is added keeps the ring served: nothing is added to a ring that ends.
LEMMA AddsServed ==
    ASSUME TypeOK, RingServed, NEW who, NEW null, Adds(who, null), alive, UNCHANGED <<paused, stopped, alive>>
    PROVE  RingServed'
  <1>1. ring \in Seq(RingMsgs)
    BY Groups DEF WiresOK
  <1>2. PICK u \in Seq(RingMsgs) : ring' = ring \o u /\ (u # <<>> => paused) /\ ~Says(u, "resume")
    BY DEF Adds
  <1>3. CASE u = <<>>
    <2>1. ring' = ring
      BY <1>1, <1>2, <1>3
    <2> QED BY <2>1, Primed DEF RingServed
  <1>4. CASE u # <<>>
    <2>1. Says(ring', "resume") <=> Says(ring, "resume")
      BY <1>1, <1>2, SaysInCat
    <2>2. stopped /\ ~Says(ring', "resume")
      BY <1>2, <1>4, <2>1 DEF RingServed
    <2>3. \A i \in DOMAIN ring' : ring'[i].kind # "resume"
      BY <2>2 DEF Says
    <2> QED BY <2>2, <2>3, Primed
  <1> QED BY <1>3, <1>4

\* What is added keeps what is said of the answers.
LEMMA AddsOnly ==
    ASSUME TypeOK, NEW who, NEW null, Adds(who, null), NEW r, NonNull(toMain, r), NonNull(ring, r),
           null = FALSE \/ r \notin who
    PROVE  NonNull(toMain', r) /\ NonNull(ring', r)
  <1>1. ring \in Seq(RingMsgs) /\ toMain \in Seq(PipeMsgs)
    BY Groups DEF WiresOK
  <1>2. PICK t \in Seq(PipeMsgs), u \in Seq(RingMsgs) :
            toMain' = toMain \o t /\ ring' = ring \o u /\ Results(t, who, null) /\ Results(u, who, null)
    BY DEF Adds
  <1>3. ASSUME NEW S, NEW q \in Seq(S), NEW v \in Seq(S), NonNull(q, r), Results(v, who, null)
        PROVE  NonNull(q \o v, r)
    <2>1. PICK z : z = q \o v
      OBVIOUS
    <2>2. \A i \in DOMAIN z : (i \in DOMAIN q /\ z[i] = q[i]) \/ (i - Len(q) \in DOMAIN v /\ z[i] = v[i - Len(q)])
      BY <2>1, CatIs
    <2>3. \A i \in DOMAIN v : v[i].kind = "result" /\ v[i].of = r => ~v[i].null
      BY <1>3 DEF Results
    <2> QED BY <1>3, <2>1, <2>2, <2>3 DEF NonNull
  <1> QED BY <1>1, <1>2, <1>3

LEMMA AddsAhead ==
    ASSUME TypeOK, NEW who, NEW null, Adds(who, null), NEW r, Ahead(toMain, r)
    PROVE  Ahead(toMain', r)
  <1>1. toMain \in Seq(PipeMsgs)
    BY Groups DEF WiresOK
  <1>2. PICK t \in Seq(PipeMsgs) : toMain' = toMain \o t
    BY DEF Adds
  <1>3. PICK z : z = toMain \o t
    OBVIOUS
  <1>4. /\ DOMAIN toMain = 1..Len(toMain) /\ DOMAIN z = 1..(Len(toMain) + Len(t)) /\ Len(toMain) \in Nat /\ Len(t) \in Nat
        /\ \A i \in DOMAIN toMain : i \in DOMAIN z /\ z[i] = toMain[i]
    BY <1>1, <1>3, CatIs
  <1>5. PICK i \in DOMAIN toMain : /\ toMain[i].kind = "result" /\ toMain[i].of = r
                                   /\ \A j \in DOMAIN toMain : j < i => toMain[j].kind # "disconnected"
    BY DEF Ahead
  <1>6. \A j \in DOMAIN z : j < i => j \in DOMAIN toMain /\ z[j] = toMain[j]
    BY <1>4
  <1>7. Ahead(z, r)
    BY <1>4, <1>5, <1>6 DEF Ahead
  <1> QED BY <1>2, <1>3, <1>7

\* While a client is attached, nothing on the pipe ends what was made for it.
LEMMA NoneLeft ==
    ASSUME Inv, Connected, NEW r \in Requests, since[r] = conn
    PROVE  ~Says(toMain, "disconnected")
  <1>1. conn = conns /\ since[r] <= known /\ known <= conns /\ known \in Nat /\ conns \in Nat
        /\ Rising(toMain, known, conns) /\ Greeted(toMain) /\ toMain \in Seq(PipeMsgs)
    BY Groups, BoundsAssumption DEF Inv, Numbers, Announced, Connected, MainOK, WorkerOK, WiresOK
  <1>2. known = conns
    BY <1>1
  <1> SUFFICES ASSUME NEW i \in DOMAIN toMain, toMain[i].kind = "disconnected" PROVE FALSE
    BY DEF Says
  <1>3. PICK j \in DOMAIN toMain : toMain[j].kind = "connected"
    BY <1>1 DEF Greeted
  <1>4. known < toMain[j].of /\ toMain[j].of <= conns /\ toMain[j].of \in Nat
    BY <1>1, <1>3, Kinds DEF Rising
  <1> QED BY <1>1, <1>2, <1>4

\* A step of the worker or a client that gives no answer.
LEMMA AddsLeads ==
    ASSUME Inv, Leads, Relay, Adds({r \in Requests : Has(pending, r)}, TRUE), given' = given,
           UNCHANGED <<paused, stopped, alive>>, alive
    PROVE  Leads'
  <1>0. TypeOK /\ RingServed /\ OnlyItsAnswer /\ AnswerLeads
    BY DEF Inv, Leads
  <1>1. RingServed'
    BY <1>0, AddsServed
  <1>2. hooked' = hooked /\ fetch' = fetch /\ since' = since /\ toWorker' = toWorker /\ lost \subseteq lost'
    BY DEF Relay
  <1>3. OnlyItsAnswer'
    <2> SUFFICES ASSUME NEW r \in Requests, given'[r] # 0
                 PROVE  ~Held(r)' /\ fetch'[r] # "new" /\ NonNull(toMain', r) /\ NonNull(ring', r)
      BY Primed
    <2>1. ~Held(r) /\ fetch[r] # "new" /\ NonNull(toMain, r) /\ NonNull(ring, r)
      BY <1>0 DEF OnlyItsAnswer
    <2>2. NonNull(toMain', r) /\ NonNull(ring', r)
      <3>1. PICK who : who = {s \in Requests : Has(pending, s)}
        OBVIOUS
      <3>2. Adds(who, TRUE) /\ r \notin who
        BY <2>1, <3>1 DEF Held
      <3> QED BY <1>0, <2>1, <3>2, AddsOnly
    <2>3. ~Held(r)'
      BY <2>1, Atoms DEF Held, Relay
    <2> QED BY <1>2, <2>1, <2>2, <2>3
  <1>4. AnswerLeads'
    <2> SUFFICES ASSUME NEW r \in Requests, given'[r] # 0, given'[r] = since'[r], hooked', alive', r \notin lost'
                 PROVE  fetch'[r] = "answered" \/ (fetch'[r] = "waits" /\ (Ahead(toMain', r) \/ Coming(ring', r)))
      BY Primed
    <2>1. fetch[r] = "answered" \/ (fetch[r] = "waits" /\ (Ahead(toMain, r) \/ Coming(ring, r)))
      <3>1. given[r] # 0 /\ given[r] = since[r] /\ hooked /\ alive /\ r \notin lost
        BY <1>2
      <3> QED BY <1>0, <3>1 DEF AnswerLeads
    <2>2. Coming(ring, r) => Coming(ring', r)
      BY DEF Relay
    <2> QED BY <1>0, <1>2, <2>1, <2>2, AddsAhead
  <1> QED BY <1>1, <1>3, <1>4 DEF Leads

LEMMA Led == Inv /\ Leads => /\ TypeOK /\ Owners /\ Places /\ Numbers /\ Announced /\ Told /\ HeldWaits
                             /\ RingServed /\ OnlyItsAnswer /\ AnswerLeads
                             /\ MainOK /\ WiresOK /\ WorkerOK /\ GhostsOK /\ Once(pending)
  BY Groups DEF Inv, Leads, Places

\* The answers and the ways to the main thread are as they were.
LEMMA SameLeads ==
    ASSUME Leads, UNCHANGED <<hooked, fetch, since, given, lost>>, \A r : Held(r)' => Held(r), alive' => alive,
           \A r : /\ Coming(ring, r) => Coming(ring', r)
                  /\ NonNull(ring, r) => NonNull(ring', r)
                  /\ Ahead(toMain, r) => Ahead(toMain', r)
                  /\ NonNull(toMain, r) => NonNull(toMain', r),
           RingServed'
    PROVE  Leads'
  <1>0. RingServed /\ OnlyItsAnswer /\ AnswerLeads
    BY DEF Leads
  <1>1. OnlyItsAnswer'
    <2> SUFFICES ASSUME NEW r \in Requests, given'[r] # 0
                 PROVE  ~Held(r)' /\ fetch'[r] # "new" /\ NonNull(toMain', r) /\ NonNull(ring', r)
      BY Primed
    <2>1. ~Held(r) /\ fetch[r] # "new" /\ NonNull(toMain, r) /\ NonNull(ring, r)
      BY <1>0 DEF OnlyItsAnswer
    <2> QED BY <2>1
  <1>2. AnswerLeads'
    <2> SUFFICES ASSUME NEW r \in Requests, given'[r] # 0, given'[r] = since'[r], hooked', alive', r \notin lost'
                 PROVE  fetch'[r] = "answered" \/ (fetch'[r] = "waits" /\ (Ahead(toMain', r) \/ Coming(ring', r)))
      BY Primed
    <2>1. fetch[r] = "answered" \/ (fetch[r] = "waits" /\ (Ahead(toMain, r) \/ Coming(ring, r)))
      BY <1>0 DEF AnswerLeads
    <2> QED BY <2>1
  <1> QED BY <1>1, <1>2 DEF Leads

\* A message at the end that is no answer.
LEMMA PlainAppend ==
    ASSUME NEW S, NEW q \in Seq(S), NEW m \in S, m.kind # "result", NEW r
    PROVE  /\ Coming(q, r) => Coming(Append(q, m), r)
           /\ NonNull(q, r) => NonNull(Append(q, m), r)
           /\ Ahead(q, r) => Ahead(Append(q, m), r)
  <1>1. PICK z : z = Append(q, m)
    OBVIOUS
  <1>2. /\ DOMAIN q = 1..Len(q) /\ Len(q) \in Nat /\ DOMAIN z = 1..(Len(q) + 1)
        /\ z[Len(q) + 1] = m /\ \A i \in 1..Len(q) : z[i] = q[i]
    BY <1>1
  <1>3. \A i \in DOMAIN z : z[i].kind = "result" => i \in DOMAIN q /\ z[i] = q[i]
    BY <1>2
  <1>4. \A i \in DOMAIN q : i \in DOMAIN z /\ z[i] = q[i]
    BY <1>2
  <1>5. NonNull(q, r) => NonNull(z, r)
    BY <1>3 DEF NonNull
  <1>6. Coming(q, r) => Coming(z, r)
    BY <1>4 DEF Coming
  <1>7. ASSUME Ahead(q, r) PROVE Ahead(z, r)
    <2>1. PICK i \in DOMAIN q : /\ q[i].kind = "result" /\ q[i].of = r
                                /\ \A j \in DOMAIN q : j < i => q[j].kind # "disconnected"
      BY <1>7 DEF Ahead
    <2>2. \A j \in DOMAIN z : j < i => j \in DOMAIN q /\ z[j] = q[j]
      BY <1>2
    <2> QED BY <1>4, <2>1, <2>2 DEF Ahead
  <1> QED BY <1>1, <1>5, <1>6, <1>7

LEMMA LeadsWorker ==
    ASSUME Inv, Leads, SeePause \/ Resume \/ GraceTimer \/ WorkerExit
    PROVE  Leads'
  <1> USE DEF mainVars, wires, workerVars, clientVars, domainVars, ghosts
  <1>0. TypeOK /\ Places /\ RingServed /\ WiresOK /\ Once(pending) /\ ring \in Seq(RingMsgs) /\ toMain \in Seq(PipeMsgs)
    BY Led DEF WiresOK
  <1>1. UNCHANGED <<hooked, stopped, fetch, since, given, lost>> /\ (alive' => alive) /\ \A r : Held(r)' => Held(r)
    <2>1. Relay
      BY <1>0, WorkerRelays
    <2> QED BY <2>1, Atoms DEF Relay, Held, SeePause, Resume, GraceTimer, WorkerExit
  <1>2. CASE SeePause
    <2>1. /\ alive /\ stopped /\ ~paused /\ ring = <<>> /\ toMain' = toMain
          /\ \/ paused' = TRUE /\ ring' = ring
             \/ ring' = <<[kind |-> "resume"]>> /\ paused' = paused
      BY <1>2 DEF SeePause
    <2>2. DOMAIN ring = {} /\ ~Says(ring, "resume") /\ \A r : ~Coming(ring, r)
      BY <2>1 DEF Says, Coming
    <2>3. CASE paused' = TRUE /\ ring' = ring
      <3>1. RingServed'
        BY <1>1, <2>1, <2>2, <2>3, Primed
      <3> QED BY <1>1, <2>1, <2>3, <3>1, SameLeads
    <2>4. CASE ring' = <<[kind |-> "resume"]>> /\ paused' = paused
      <3>1. DOMAIN ring' = {1} /\ ring'[1].kind = "resume" /\ Len(ring') = 1
        BY <2>4
      <3>2. RingServed'
        BY <1>1, <2>1, <2>4, <3>1, Primed
      <3>3. \A r : NonNull(ring', r)
        BY <3>1 DEF NonNull
      <3> QED BY <1>1, <2>1, <2>2, <3>2, <3>3, SameLeads
    <2> QED BY <2>1, <2>3, <2>4
  <1>3. CASE Resume \/ GraceTimer
    <2>1. PICK m : m = [kind |-> "resume"]
      OBVIOUS
    <2>2. m \in RingMsgs /\ m.kind = "resume" /\ m.kind # "result"
      BY <2>1, Kinds
    <2>3. ring' = Append(ring, m) /\ paused /\ alive /\ paused' = FALSE /\ toMain' = toMain
      BY <1>3, <2>1 DEF Resume, GraceTimer, Leaving, Command
    <2>4. stopped /\ ~Says(ring, "resume")
      BY <1>0, <2>3 DEF RingServed
    <2>5. \A i \in DOMAIN ring' : ring'[i].kind = "resume" => i = Len(ring')
      BY <1>0, <2>2, <2>3, <2>4, AppendProperties, LenProperties DEF Says
    <2>6. RingServed'
      BY <1>1, <2>3, <2>4, <2>5, Primed
    <2> QED BY <1>0, <1>1, <2>2, <2>3, <2>6, PlainAppend, SameLeads
  <1>4. CASE WorkerExit
    <2>1. PICK m : m = [kind |-> "closed"]
      OBVIOUS
    <2>2. m \in PipeMsgs /\ m.kind # "result"
      BY <2>1, Kinds
    <2>3. toMain' = Append(toMain, m) /\ ring' = ring /\ alive' = FALSE /\ paused' = paused
      BY <1>4, <2>1 DEF WorkerExit
    <2>4. RingServed'
      BY <1>0, <2>3, Primed DEF RingServed
    <2> QED BY <1>0, <1>1, <2>2, <2>3, <2>4, PlainAppend, SameLeads
  <1> QED BY <1>2, <1>3, <1>4

LEMMA LeadsClient ==
    ASSUME Inv, Leads, Client, \A r \in Requests : ~Answer(r)
    PROVE  Leads'
  <1> USE DEF mainVars, wires, workerVars, clientVars, domainVars, ghosts
  <1>0. TypeOK /\ Once(pending)
    BY Led
  <1>1. PICK who : who = {r \in Requests : Has(pending, r)}
    OBVIOUS
  <1>2. ASSUME Relay, Adds(who, TRUE), given' = given, UNCHANGED <<paused, stopped, alive>>, alive PROVE Leads'
    BY <1>1, <1>2, AddsLeads
  <1>3. CASE Connect
    <2>1. Relay /\ UNCHANGED <<paused, stopped, alive, given>> /\ alive
      BY <1>0, <1>3, ConnectRelays DEF Connect
    <2>2. PICK hello : hello = <<[kind |-> "connected", of |-> conns']>>
      OBVIOUS
    <2>3. conns' \in 1..MaxConns
      BY <1>0, <1>3, Groups, BoundsAssumption DEF Connect, WorkerOK
    <2>4. hello \in Seq(PipeMsgs) /\ \A i \in DOMAIN hello : hello[i].kind # "result"
      BY <2>2, <2>3, Kinds
    <2>5. Adds(who, TRUE)
      <3>1. CASE Connected
        <4>1. ReleaseSession(hello)
          BY <1>3, <2>2, <3>1 DEF Connect
        <4> QED BY <1>0, <1>1, <2>4, <4>1, ReleaseAdds
      <3>2. CASE ~Connected
        <4>1. toMain' = toMain \o hello /\ ring' = ring
          BY <1>3, <2>2, <3>2 DEF Connect
        <4>2. PICK u : u = <<>>
          OBVIOUS
        <4>3. ring \in Seq(RingMsgs)
          BY <1>0, Groups DEF WiresOK
        <4>4. u \in Seq(RingMsgs) /\ ring' = ring \o u /\ Results(u, who, TRUE) /\ ~Says(u, "resume")
          BY <4>1, <4>2, <4>3, EmptySeq, ConcatEmptySeq DEF Results, Says
        <4>5. Results(hello, who, TRUE)
          BY <2>4 DEF Results
        <4> QED BY <2>4, <4>1, <4>2, <4>4, <4>5 DEF Adds
      <3> QED BY <3>1, <3>2
    <2> QED BY <1>2, <2>1, <2>5
  <1>4. ASSUME NEW c \in 1..MaxConns, Close(c) PROVE Leads'
    <2>1. Relay
      BY <1>0, <1>4, CloseRelays
    <2>2. UNCHANGED <<paused, stopped, alive, given>> /\ alive
      BY <1>4 DEF Close
    <2>3. Adds(who, TRUE)
      <3>1. CASE c = conn
        <4>1. PICK none : none = <<>>
          OBVIOUS
        <4>2. none \in Seq(PipeMsgs) /\ \A i \in DOMAIN none : none[i].kind # "result"
          BY <4>1, EmptySeq
        <4>3. ReleaseSession(none)
          BY <1>4, <3>1, <4>1 DEF Close, Detaches
        <4> QED BY <1>0, <1>1, <4>2, <4>3, ReleaseAdds
      <3>2. CASE c # conn
        <4>1. UNCHANGED <<toMain, ring>>
          BY <1>4, <3>2 DEF Close, Detaches
        <4> QED BY <1>0, <4>1, NothingAdds
      <3> QED BY <3>1, <3>2
    <2> QED BY <1>2, <2>1, <2>2, <2>3
  <1>5. CASE Enable \/ Disable \/ Inspect \/ AskResume
    <2>1. Relay
      BY <1>0, <1>5, CommandRelays
    <2>2. UNCHANGED <<paused, stopped, alive, given>> /\ alive
      BY <1>5 DEF Enable, Disable, Inspect, AskResume, Command
    <2>3. Adds(who, TRUE)
      <3>1. CASE Enable
        <4>1. UNCHANGED <<toMain, ring>>
          BY <3>1 DEF Enable
        <4> QED BY <1>0, <4>1, NothingAdds
      <3>2. CASE Disable
        BY <1>0, <1>1, <3>2, Pending, AnswersAdd DEF Disable
      <3>3. CASE Inspect \/ AskResume
        BY <1>0, <3>3, InspectAdds DEF Inspect, AskResume
      <3> QED BY <1>5, <3>1, <3>2, <3>3
    <2> QED BY <1>2, <2>1, <2>2, <2>3
  <1> QED BY <1>3, <1>4, <1>5 DEF Client

LEMMA LeadsAnswer ==
    ASSUME Inv, Leads, NEW r \in Requests, Answer(r)
    PROVE  Leads'
  <1> USE DEF mainVars, wires, workerVars, clientVars, domainVars, ghosts
  <1>0. TypeOK /\ Once(pending) /\ Places /\ Told /\ HeldWaits /\ RingServed /\ OnlyItsAnswer /\ AnswerLeads /\ WiresOK /\ GhostsOK
    BY Led
  <1>1. /\ Relay /\ UNCHANGED <<alive, conn>> /\ Connected /\ Has(pending, r)
        /\ given' = [given EXCEPT ![r] = conn]
        /\ \E mid \in Seq(Answered) : toMain' = toMain \o mid
        /\ \A s : Has(pending', s) <=> Has(pending, s) /\ s # r
    BY <1>0, AnswerRelays
  <1>2. UNCHANGED <<paused, stopped>> /\ alive
    BY DEF Answer, Command
  <1>3. PICK rs, who : rs = <<r>> /\ who = {s \in Requests : Has(rs, s)}
    OBVIOUS
  <1>4. rs \in Seq(Requests) /\ Notify(Answers(rs, FALSE), <<>>) /\ \A s : Has(rs, s) <=> s = r
    <2>1. Notify(Answers(rs, FALSE), <<>>)
      BY <1>3 DEF Answer
    <2>2. rs \in Seq(Requests) /\ DOMAIN rs = {1} /\ rs[1] = r
      BY <1>3
    <2> QED BY <2>1, <2>2 DEF Has
  <1>5. Adds(who, FALSE)
    BY <1>0, <1>3, <1>4, AnswersAdd
  <1>6. Coming(toMain', r) \/ Coming(ring', r) \/ r \in lost'
    <2>1. \A s : Has(rs, s) => Coming(toMain', s) \/ Coming(ring', s) \/ s \in lost'
      BY <1>0, <1>4, AnsweringIs
    <2> QED BY <1>4, <2>1
  <1>7. hooked' = hooked /\ fetch' = fetch /\ since' = since /\ toWorker' = toWorker /\ lost \subseteq lost'
    BY <1>1 DEF Relay
  <1>8. RingServed'
    BY <1>0, <1>1, <1>2, <1>5, AddsServed
  <1>9. ~Has(toWorker, r) /\ ~Coming(toMain, r) /\ ~Coming(ring, r) /\ fetch[r] # "new" /\ Held(r)
    BY <1>0, <1>1 DEF Places, Held, Answering
  <1>10. \A s \in Requests \ {r} : given'[s] = given[s]
    BY <1>0, <1>1 DEF GhostsOK
  <1>11. OnlyItsAnswer'
    <2> SUFFICES ASSUME NEW s \in Requests, given'[s] # 0
                 PROVE  ~Held(s)' /\ fetch'[s] # "new" /\ NonNull(toMain', s) /\ NonNull(ring', s)
      BY Primed
    <2>1. ~Held(s)' /\ fetch'[s] # "new" /\ NonNull(toMain, s) /\ NonNull(ring, s)
      <3>1. CASE s = r
        <4>1. NonNull(toMain, r) /\ NonNull(ring, r)
          BY <1>9 DEF NonNull, Coming
        <4> QED BY <1>1, <1>7, <1>9, <3>1, <4>1, Atoms
      <3>2. CASE s # r
        <4>1. ~Held(s) /\ fetch[s] # "new" /\ NonNull(toMain, s) /\ NonNull(ring, s)
          BY <1>0, <1>10, <3>2 DEF OnlyItsAnswer
        <4> QED BY <1>1, <1>7, <4>1, Atoms DEF Held
      <3> QED BY <3>1, <3>2
    <2> QED BY <1>0, <1>5, <2>1, AddsOnly
  <1>12. AnswerLeads'
    <2> SUFFICES ASSUME NEW s \in Requests, given'[s] # 0, given'[s] = since'[s], hooked', alive', s \notin lost'
                 PROVE  fetch'[s] = "answered" \/ (fetch'[s] = "waits" /\ (Ahead(toMain', s) \/ Coming(ring', s)))
      BY Primed
    <2>1. CASE s = r
      <3>1. since[r] = conn
        BY <1>0, <1>1, <1>7, <2>1 DEF GhostsOK
      <3>2. fetch'[r] = "waits"
        BY <1>0, <1>1, <1>2, <1>7, <1>9, <3>1 DEF HeldWaits
      <3>3. PICK mid \in Seq(Answered) : toMain' = toMain \o mid
        BY <1>1
      <3>4. toMain \in Seq(PipeMsgs) /\ mid \in Seq(PipeMsgs) /\ ~Says(mid, "disconnected")
        BY <1>0, Kinds, NarrowSeq DEF WiresOK, Says
      <3>5. ~Says(toMain', "disconnected")
        BY <1>1, <3>1, <3>3, <3>4, NoneLeft, SaysInCat
      <3>6. Coming(toMain', r) => Ahead(toMain', r)
        BY <3>5 DEF Coming, Ahead, Says
      <3> QED BY <1>6, <2>1, <3>2, <3>6
    <2>2. CASE s # r
      <3>1. given[s] # 0 /\ given[s] = since[s] /\ hooked /\ alive /\ s \notin lost
        BY <1>1, <1>7, <1>10, <2>2
      <3>2. fetch[s] = "answered" \/ (fetch[s] = "waits" /\ (Ahead(toMain, s) \/ Coming(ring, s)))
        BY <1>0, <3>1 DEF AnswerLeads
      <3>3. Coming(ring, s) => Coming(ring', s)
        BY <1>1 DEF Relay
      <3> QED BY <1>0, <1>5, <1>7, <3>2, <3>3, AddsAhead
    <2> QED BY <2>1, <2>2
  <1> QED BY <1>8, <1>11, <1>12 DEF Leads

LEMMA LeadsReceive ==
    ASSUME Inv, Leads, Receive
    PROVE  Leads'
  <1> USE DEF mainVars, wires, workerVars, clientVars, domainVars, ghosts
  <1>0. TypeOK /\ Places /\ RingServed /\ OnlyItsAnswer /\ AnswerLeads /\ WiresOK /\ WorkerOK
    BY Led
  <1>1. PICK r : r = Head(toWorker)
    OBVIOUS
  <1>2. /\ alive /\ toWorker # <<>> /\ toWorker' = Tail(toWorker)
        /\ UNCHANGED <<hooked, fetch, stopped, alive, paused, since, given>>
        /\ \/ Unwanted(r) /\ UNCHANGED <<pending, told>>
           \/ pending' = Append(pending, r) /\ UNCHANGED <<toMain, ring, lost>>
    BY <1>1 DEF Receive
  <1>3. r \in Requests /\ Has(toWorker, r) /\ Held(r) /\ \A s : Has(toWorker', s) => Has(toWorker, s)
    BY <1>0, <1>1, <1>2, TailIs, HasInTail DEF WiresOK, Held
  <1>4. \A s : Held(s)' => Held(s)
    <2>1. \A s : Has(pending', s) => Has(pending, s) \/ s = r
      <3>1. \A s : Has(Append(pending, r), s) <=> Has(pending, s) \/ s = r
        BY <1>0, <1>3, HasInAppend DEF WorkerOK
      <3> QED BY <1>2, <3>1
    <2> QED BY <1>3, <2>1, Atoms DEF Held
  <1>5. CASE UNCHANGED <<toMain, ring, lost>>
    <2>1. RingServed'
      BY <1>0, <1>2, <1>5, Primed DEF RingServed
    <2> QED BY <1>2, <1>4, <1>5, <2>1, SameLeads
  <1>6. CASE Unwanted(r) /\ UNCHANGED <<pending, told>>
    <2>1. PICK rs, who : rs = <<r>> /\ who = {s \in Requests : Has(rs, s)}
      OBVIOUS
    <2>2. rs \in Seq(Requests) /\ Notify(Answers(rs, TRUE), <<>>) /\ \A s : Has(rs, s) <=> s = r
      <3>1. Notify(Answers(rs, TRUE), <<>>)
        BY <1>6, <2>1 DEF Unwanted
      <3>2. rs \in Seq(Requests) /\ DOMAIN rs = {1} /\ rs[1] = r
        BY <1>3, <2>1
      <3> QED BY <3>1, <3>2 DEF Has
    <2>3. Adds(who, TRUE) /\ \A s \in who : s = r
      BY <1>0, <2>1, <2>2, AnswersAdd
    <2>4. lost \subseteq lost' /\ \A s : Coming(ring, s) => Coming(ring', s)
      BY <1>0, <2>2, AnsweringIs
    <2>5. RingServed'
      BY <1>0, <1>2, <2>3, AddsServed
    <2>6. OnlyItsAnswer'
      <3> SUFFICES ASSUME NEW s \in Requests, given'[s] # 0
                   PROVE  ~Held(s)' /\ fetch'[s] # "new" /\ NonNull(toMain', s) /\ NonNull(ring', s)
        BY Primed
      <3>1. ~Held(s) /\ fetch[s] # "new" /\ NonNull(toMain, s) /\ NonNull(ring, s)
        BY <1>0, <1>2 DEF OnlyItsAnswer
      <3>2. s \notin who
        BY <1>3, <2>3, <3>1
      <3> QED BY <1>0, <1>2, <1>4, <2>3, <3>1, <3>2, AddsOnly
    <2>7. AnswerLeads'
      <3> SUFFICES ASSUME NEW s \in Requests, given'[s] # 0, given'[s] = since'[s], hooked', alive', s \notin lost'
                   PROVE  fetch'[s] = "answered" \/ (fetch'[s] = "waits" /\ (Ahead(toMain', s) \/ Coming(ring', s)))
        BY Primed
      <3>1. given[s] # 0 /\ given[s] = since[s] /\ hooked /\ alive /\ s \notin lost
        BY <1>2, <2>4
      <3>2. fetch[s] = "answered" \/ (fetch[s] = "waits" /\ (Ahead(toMain, s) \/ Coming(ring, s)))
        BY <1>0, <3>1 DEF AnswerLeads
      <3> QED BY <1>0, <1>2, <2>3, <2>4, <3>2, AddsAhead
    <2> QED BY <2>5, <2>6, <2>7 DEF Leads
  <1> QED BY <1>2, <1>5, <1>6

\* What taking the first message leaves.
LEMMA TailLeads ==
    ASSUME NEW S, NEW q \in Seq(S), q # <<>>, NEW r
    PROVE  /\ NonNull(q, r) => NonNull(Tail(q), r)
           /\ NonNull(q, r) /\ Head(q).kind = "result" /\ Head(q).of = r => ~Head(q).null
           /\ Ahead(q, r) /\ ~(Head(q).kind = "result" /\ Head(q).of = r) =>
                  Ahead(Tail(q), r) /\ Head(q).kind # "disconnected"
  <1>1. PICK t, h : t = Tail(q) /\ h = Head(q)
    OBVIOUS
  <1>2. /\ h = q[1] /\ 1 \in DOMAIN q /\ DOMAIN q = 1..Len(q) /\ Len(q) \in Nat
        /\ DOMAIN t = 1..(Len(q) - 1) /\ \A i \in 1..(Len(q) - 1) : t[i] = q[i+1]
    BY <1>1, TailIs
  <1>3. \A i \in DOMAIN t : i + 1 \in DOMAIN q /\ t[i] = q[i+1] /\ i \in Nat
    BY <1>2
  <1>4. NonNull(q, r) => NonNull(t, r)
    BY <1>3 DEF NonNull
  <1>5. NonNull(q, r) /\ h.kind = "result" /\ h.of = r => ~h.null
    BY <1>2 DEF NonNull
  <1>6. ASSUME Ahead(q, r), ~(h.kind = "result" /\ h.of = r) PROVE Ahead(t, r) /\ h.kind # "disconnected"
    <2>1. PICK i \in DOMAIN q : /\ q[i].kind = "result" /\ q[i].of = r
                                /\ \A j \in DOMAIN q : j < i => q[j].kind # "disconnected"
      BY <1>6 DEF Ahead
    <2>2. i > 1
      BY <1>2, <1>6, <2>1
    <2>3. i - 1 \in DOMAIN t /\ t[i-1] = q[i]
      BY <1>2, <2>2
    <2>4. ASSUME NEW j \in DOMAIN t, j < i - 1 PROVE t[j].kind # "disconnected"
      <3>1. j + 1 \in DOMAIN q /\ j + 1 < i /\ t[j] = q[j+1]
        BY <1>2, <1>3, <2>4
      <3> QED BY <2>1, <3>1
    <2>5. Ahead(t, r)
      BY <2>1, <2>3, <2>4 DEF Ahead
    <2> QED BY <1>2, <2>1, <2>2, <2>5
  <1> QED BY <1>1, <1>4, <1>5, <1>6

LEMMA LeadsPipe ==
    ASSUME Inv, Leads, ServePipe
    PROVE  Leads'
  <1> USE DEF mainVars, wires, workerVars, clientVars, domainVars, ghosts
  <1>0. TypeOK /\ Places /\ RingServed /\ OnlyItsAnswer /\ AnswerLeads /\ MainOK /\ WiresOK /\ WorkerOK
    BY Led
  <1>1. PICK m : m = Head(toMain)
    OBVIOUS
  <1>2. /\ ~stopped /\ toMain # <<>> /\ toMain' = Tail(toMain)
        /\ fetch' = IF ~hooked THEN fetch
                    ELSE IF m.kind = "result" THEN Resolved(m)
                    ELSE IF m.kind = "disconnected" THEN Released
                    ELSE IF m.kind = "closed" THEN TornDown
                    ELSE fetch
        /\ hooked' = (hooked /\ m.kind # "closed")
        /\ UNCHANGED <<stopped, toWorker, ring, alive, pending, paused, since, given, lost>>
    BY <1>1 DEF ServePipe
  <1>3. toMain \in Seq(PipeMsgs) /\ m \in PipeMsgs /\ fetch \in [Requests -> Fates]
    BY <1>0, <1>1, <1>2, TailIs DEF WiresOK, MainOK
  <1>4. m.kind = "result" => m.of \in Requests /\ m.null \in BOOLEAN
    BY <1>3, Kinds DEF Answered
  <1>5. RingServed'
    BY <1>0, <1>2, Primed DEF RingServed
  <1>6. OnlyItsAnswer'
    <2> SUFFICES ASSUME NEW r \in Requests, given'[r] # 0
                 PROVE  ~Held(r)' /\ fetch'[r] # "new" /\ NonNull(toMain', r) /\ NonNull(ring', r)
      BY Primed
    <2>1. ~Held(r) /\ fetch[r] # "new" /\ NonNull(toMain, r) /\ NonNull(ring, r)
      BY <1>0, <1>2 DEF OnlyItsAnswer
    <2>2. ~Held(r)' /\ NonNull(toMain', r)
      BY <1>2, <1>3, <2>1, Atoms, TailLeads DEF Held
    <2>3. fetch'[r] # "new"
      BY <1>2, <1>3, <1>4, <2>1 DEF Resolved, Released, TornDown
    <2> QED BY <1>2, <2>1, <2>2, <2>3
  <1>7. AnswerLeads'
    <2> SUFFICES ASSUME NEW r \in Requests, given'[r] # 0, given'[r] = since'[r], hooked', alive', r \notin lost'
                 PROVE  fetch'[r] = "answered" \/ (fetch'[r] = "waits" /\ (Ahead(toMain', r) \/ Coming(ring', r)))
      BY Primed
    <2>1. given[r] # 0 /\ given[r] = since[r] /\ hooked /\ alive /\ r \notin lost /\ m.kind # "closed"
      BY <1>2
    <2>2. fetch[r] = "answered" \/ (fetch[r] = "waits" /\ (Ahead(toMain, r) \/ Coming(ring, r)))
      BY <1>0, <2>1 DEF AnswerLeads
    <2>3. ~Coming(ring, r)
      BY <1>0, <1>2, <2>1 DEF RingServed, Coming
    <2>4. NonNull(toMain, r)
      BY <1>0, <2>1 DEF OnlyItsAnswer
    <2>5. CASE fetch[r] = "answered"
      BY <1>2, <1>3, <1>4, <2>1, <2>5 DEF Resolved, Released
    <2>6. CASE fetch[r] = "waits" /\ m.kind = "result" /\ m.of = r
      <3>1. ~m.null
        BY <1>1, <1>2, <1>3, <2>4, <2>6, TailLeads
      <3> QED BY <1>2, <1>3, <2>1, <2>6, <3>1 DEF Resolved
    <2>7. CASE fetch[r] = "waits" /\ ~(m.kind = "result" /\ m.of = r)
      <3>1. Ahead(toMain', r) /\ m.kind # "disconnected"
        BY <1>1, <1>2, <1>3, <2>2, <2>3, <2>7, TailLeads
      <3>2. fetch'[r] = "waits"
        BY <1>2, <1>3, <1>4, <2>1, <2>7, <3>1 DEF Resolved
      <3> QED BY <3>1, <3>2
    <2> QED BY <2>2, <2>5, <2>6, <2>7
  <1> QED BY <1>5, <1>6, <1>7 DEF Leads

LEMMA LeadsRing ==
    ASSUME Inv, Leads, ServeRing
    PROVE  Leads'
  <1> USE DEF mainVars, wires, workerVars, clientVars, domainVars, ghosts
  <1>0. TypeOK /\ Places /\ RingServed /\ OnlyItsAnswer /\ AnswerLeads /\ MainOK /\ WiresOK /\ WorkerOK
    BY Led
  <1>1. UNCHANGED <<hooked, toWorker, toMain, alive, pending, paused, since, given, lost>> /\ stopped
    BY DEF ServeRing
  <1>2. \A r : Held(r)' <=> Held(r)
    BY <1>1, Atoms DEF Held
  <1>3. CASE ~alive
    <2>1. ring' = <<>> /\ fetch' = fetch
      BY <1>3 DEF ServeRing
    <2>2. \A r : NonNull(ring', r)
      BY <2>1 DEF NonNull
    <2>3. RingServed'
      BY <1>1, <1>3, <2>1, Primed
    <2>4. OnlyItsAnswer'
      BY <1>0, <1>1, <1>2, <2>1, <2>2, Primed DEF OnlyItsAnswer
    <2>5. AnswerLeads'
      BY <1>1, <1>3, Primed
    <2> QED BY <2>3, <2>4, <2>5 DEF Leads
  <1>4. CASE alive
    <2>1. PICK m : m = Head(ring)
      OBVIOUS
    <2>2. /\ ring # <<>> /\ ring' = Tail(ring) /\ fetch' = IF m.kind = "result" THEN Resolved(m) ELSE fetch
          /\ stopped' = (m.kind # "resume")
      BY <1>4, <2>1 DEF ServeRing
    <2>3. ring \in Seq(RingMsgs) /\ m \in RingMsgs /\ fetch \in [Requests -> Fates]
      BY <1>0, <2>1, <2>2, TailIs DEF WiresOK, MainOK
    <2>4. m.kind = "result" => m.of \in Requests /\ m.null \in BOOLEAN
      BY <2>3, Kinds DEF Answered
    <2>5. /\ m = ring[1] /\ 1 \in DOMAIN ring /\ DOMAIN ring = 1..Len(ring) /\ Len(ring) \in Nat
          /\ ring' \in Seq(RingMsgs) /\ DOMAIN ring' = 1..(Len(ring) - 1)
          /\ \A i \in 1..(Len(ring) - 1) : ring'[i] = ring[i+1]
      BY <2>1, <2>2, <2>3, TailIs
    <2>6. Len(ring') \in Nat /\ Len(ring') = Len(ring) - 1
      <3>1. Len(Tail(ring)) = Len(ring) - 1
        BY <2>2, <2>3, HeadTailProperties
      <3> QED BY <2>2, <2>5, <3>1, LenProperties
    <2>7. m.kind = "resume" => ring' = <<>> /\ ~paused
      <3> SUFFICES ASSUME m.kind = "resume" PROVE ring' = <<>> /\ ~paused
        OBVIOUS
      <3>1. Len(ring) = 1
        BY <1>0, <2>5 DEF RingServed
      <3>2. ring' = <<>>
        BY <2>5, <2>6, <3>1, EmptySeq
      <3>3. ~paused
        BY <1>0, <1>4, <2>5 DEF RingServed, Says
      <3> QED BY <3>2, <3>3
    <2>8. RingServed'
      <3>1. \A i \in DOMAIN ring' : i + 1 \in DOMAIN ring /\ ring'[i] = ring[i+1] /\ i \in Nat
        BY <2>5
      <3>2. Says(ring', "resume") => Says(ring, "resume")
        BY <3>1 DEF Says
      <3>3. ASSUME NEW i \in DOMAIN ring', ring'[i].kind = "resume" PROVE i = Len(ring')
        <4>1. i + 1 = Len(ring)
          BY <1>0, <3>1, <3>3 DEF RingServed
        <4> QED BY <2>5, <2>6, <3>1, <4>1
      <3>4. paused' => stopped' /\ ~Says(ring', "resume")
        BY <1>0, <1>1, <1>4, <2>2, <2>7, <3>2 DEF RingServed
      <3>5. ring' # <<>> => stopped'
        BY <2>2, <2>7
      <3> QED BY <3>3, <3>4, <3>5, Primed
    <2>9. OnlyItsAnswer'
      <3> SUFFICES ASSUME NEW r \in Requests, given'[r] # 0
                   PROVE  ~Held(r)' /\ fetch'[r] # "new" /\ NonNull(toMain', r) /\ NonNull(ring', r)
        BY Primed
      <3>1. ~Held(r) /\ fetch[r] # "new" /\ NonNull(toMain, r) /\ NonNull(ring, r)
        BY <1>0, <1>1 DEF OnlyItsAnswer
      <3>2. NonNull(ring', r)
        BY <2>2, <2>3, <3>1, TailLeads
      <3>3. fetch'[r] # "new"
        BY <2>2, <2>3, <2>4, <3>1 DEF Resolved
      <3> QED BY <1>1, <1>2, <3>1, <3>2, <3>3
    <2>10. AnswerLeads'
      <3> SUFFICES ASSUME NEW r \in Requests, given'[r] # 0, given'[r] = since'[r], hooked', alive', r \notin lost'
                   PROVE  fetch'[r] = "answered" \/ (fetch'[r] = "waits" /\ (Ahead(toMain', r) \/ Coming(ring', r)))
        BY Primed
      <3>1. given[r] # 0 /\ given[r] = since[r] /\ hooked /\ alive /\ r \notin lost
        BY <1>1
      <3>2. fetch[r] = "answered" \/ (fetch[r] = "waits" /\ (Ahead(toMain, r) \/ Coming(ring, r)))
        BY <1>0, <3>1 DEF AnswerLeads
      <3>3. NonNull(ring, r)
        BY <1>0, <3>1 DEF OnlyItsAnswer
      <3>4. CASE fetch[r] = "answered"
        BY <2>2, <2>3, <2>4, <3>4 DEF Resolved
      <3>5. CASE fetch[r] = "waits" /\ m.kind = "result" /\ m.of = r
        <4>1. ~m.null
          BY <2>1, <2>2, <2>3, <3>3, <3>5, TailLeads
        <4> QED BY <2>2, <2>3, <3>5, <4>1 DEF Resolved
      <3>6. CASE fetch[r] = "waits" /\ ~(m.kind = "result" /\ m.of = r)
        <4>1. fetch'[r] = "waits"
          BY <2>2, <2>3, <2>4, <3>6 DEF Resolved
        <4>2. Coming(ring, r) => Coming(ring', r)
          BY <2>1, <2>2, <2>3, <3>6, ComingInTail
        <4> QED BY <1>1, <3>2, <3>6, <4>1, <4>2
      <3> QED BY <3>2, <3>4, <3>5, <3>6
    <2> QED BY <2>8, <2>9, <2>10 DEF Leads
  <1> QED BY <1>3, <1>4

LEMMA LeadsRest ==
    ASSUME Inv, Leads, (\E r \in Requests : Fetch(r)) \/ Detach \/ Stop \/ UNCHANGED vars
    PROVE  Leads'
  <1> USE DEF vars, mainVars, wires, workerVars, clientVars, domainVars, ghosts
  <1>0. TypeOK /\ Places /\ RingServed /\ OnlyItsAnswer /\ AnswerLeads /\ MainOK /\ WiresOK /\ WorkerOK /\ GhostsOK
    BY Led
  <1>1. UNCHANGED <<toMain, ring, alive, pending, paused, given, lost>>
    BY DEF Fetch, Detach, Stop
  <1>2. CASE \E r \in Requests : Fetch(r)
    <2>1. PICK r \in Requests : Fetch(r)
      BY <1>2
    <2>2. /\ fetch[r] = "new" /\ fetch' = [fetch EXCEPT ![r] = "waits"] /\ since' = [since EXCEPT ![r] = known]
          /\ UNCHANGED <<hooked, stopped>> /\ (toWorker' = toWorker \/ toWorker' = Append(toWorker, r))
      BY <2>1 DEF Fetch
    <2>3. given[r] = 0
      BY <1>0, <2>2 DEF OnlyItsAnswer
    <2>4. \A s \in Requests \ {r} : fetch'[s] = fetch[s] /\ since'[s] = since[s] /\ (Held(s)' <=> Held(s))
      <3>1. \A s \in Requests \ {r} : Has(toWorker', s) <=> Has(toWorker, s)
        <4>1. \A s : Has(Append(toWorker, r), s) <=> Has(toWorker, s) \/ s = r
          BY <1>0, HasInAppend DEF WiresOK
        <4> QED BY <2>2, <4>1
      <3> QED BY <1>0, <1>1, <2>2, <3>1, Atoms DEF MainOK, GhostsOK, Held
    <2>5. OnlyItsAnswer'
      BY <1>0, <1>1, <2>3, <2>4, Primed DEF OnlyItsAnswer
    <2>6. AnswerLeads'
      <3> SUFFICES ASSUME NEW s \in Requests, given'[s] # 0, given'[s] = since'[s], hooked', alive', s \notin lost'
                   PROVE  fetch'[s] = "answered" \/ (fetch'[s] = "waits" /\ (Ahead(toMain', s) \/ Coming(ring', s)))
        BY Primed
      <3>1. s # r
        BY <1>1, <2>3
      <3>2. given[s] # 0 /\ given[s] = since[s] /\ hooked /\ alive /\ s \notin lost
        BY <1>1, <2>2, <2>4, <3>1
      <3> QED BY <1>0, <1>1, <2>4, <3>1, <3>2 DEF AnswerLeads
    <2>7. RingServed'
      BY <1>0, <1>1, <2>2, Primed DEF RingServed
    <2> QED BY <2>5, <2>6, <2>7 DEF Leads
  <1>3. CASE Detach
    <2>1. hooked' = FALSE /\ fetch' = Released /\ UNCHANGED <<stopped, toWorker, since>>
      BY <1>3 DEF Detach, TornDown
    <2>2. \A r \in Requests : fetch'[r] = "new" => fetch[r] = "new"
      BY <2>1 DEF Released
    <2>3. \A r : Held(r)' <=> Held(r)
      BY <1>1, <2>1, Atoms DEF Held
    <2>4. OnlyItsAnswer'
      BY <1>0, <1>1, <2>2, <2>3, Primed DEF OnlyItsAnswer
    <2>5. AnswerLeads' /\ RingServed'
      BY <1>0, <1>1, <2>1, Primed DEF RingServed
    <2> QED BY <2>4, <2>5 DEF Leads
  <1>4. CASE Stop \/ UNCHANGED vars
    <2>1. UNCHANGED <<hooked, fetch, toWorker, since>> /\ (stopped' = stopped \/ stopped' = TRUE)
      BY <1>4 DEF Stop
    <2>2. RingServed'
      BY <1>0, <1>1, <2>1, Primed DEF RingServed
    <2>3. \A r : Held(r)' => Held(r)
      BY <1>1, <2>1, Atoms DEF Held
    <2> QED BY <1>1, <2>1, <2>2, <2>3, SameLeads
  <1> QED BY <1>2, <1>3, <1>4

\* What a client answered arrives before whatever would let the fetch go.
THEOREM AnswerIsFirst == Spec => []AnswerIsNotOvertaken
  <1>1. Init => Leads
    BY DEF Init, Leads, RingServed, OnlyItsAnswer, AnswerLeads
  <1>2. Inv /\ Leads /\ [Next]_vars => Leads'
    BY LeadsWorker, LeadsClient, LeadsAnswer, LeadsReceive, LeadsPipe, LeadsRing, LeadsRest DEF Next, Main, Worker
  <1>3. Leads => AnswerIsNotOvertaken
    BY DEF Leads, AnswerLeads, AnswerIsNotOvertaken
  <1> QED BY <1>1, <1>2, <1>3, Invariance, PTL DEF Spec
=============================================================================
