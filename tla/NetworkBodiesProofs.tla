------------------------ MODULE NetworkBodiesProofs ------------------------
(***************************************************************************)
(* The theorems about response bodies: the count of buffered bytes, the    *)
(* order of events, and what reaches the client of a body.                 *)
(***************************************************************************)
EXTENDS NetworkBodies, SequenceTheorems, FiniteSetTheorems, WellFoundedInduction, TLAPS

-----------------------------------------------------------------------------
(* The inductive invariant.                                                *)

\* No request has two entries in a map.
Distinct(map) == \A i, j \in DOMAIN map : map[i].id = map[j].id => i = j
Shape == TypeOK /\ Distinct(buffers) /\ Distinct(completed)

\* What the main thread keeps of a request, it keeps while the request is open,
\* and of a streamed one it keeps nothing.
Phases ==
    /\ now # 0
    /\ \A r \in Requests :
         /\ r \in Ids(buffers) \cup Ids(completed) \cup dropped => fetch[r].phase = "open"
         /\ r \in live => registered[r] # 0 /\ r \notin Ids(buffers) \cup Ids(completed) \cup dropped
         /\ registered[r] # 0 => r \in live \cup lost
         /\ fetch[r].phase = "new" => fetch[r].body = 0

\* A request is announced once: by the one message of it, which finds a client that
\* has heard nothing of it.
Announces(i, r) == pipe[i].kind = "request" /\ pipe[i].id = r
AnnouncedOnce ==
    /\ ~enabled => announced = {}
    /\ streamed \subseteq announced
    /\ \A r \in Requests :
         /\ seen[r] # "stray"
         /\ r \in announced => seen[r] = "sent" /\ fetch[r].phase # "new"
         /\ fetch[r].phase = "new" => seen[r] = "none"
         /\ \A i \in DOMAIN pipe : Announces(i, r) =>
              /\ fetch[r].phase # "new" /\ seen[r] = "none"
              /\ \A j \in DOMAIN pipe : Announces(j, r) => i = j

\* Of a request of which nothing is lost, what is kept is the whole.
Entries(map) == {map[i] : i \in DOMAIN map}
HasWhole(e) == e.from = 0 /\ e.to = fetch[e.id].body
KeptOf(r) ==
    /\ \A x \in Entries(buffers) : x.id = r =>
         r \notin Ids(completed) \cup dropped /\ HasWhole(x) /\ fetch[r].body # 0
    /\ \A x \in Entries(completed) : x.id = r => r \in dropped /\ HasWhole(x)
    /\ fetch[r].phase = "open" /\ r \notin live \cup Ids(buffers) \cup Ids(completed)
         => fetch[r].body = 0
KeptWhole == \A r \in Requests \ lost : KeptOf(r)

\* The worker will never know the request again.
Past(r) == /\ r \notin announced /\ fetch[r].phase # "new"
           /\ \A i \in DOMAIN pipe : ~Announces(i, r)

\* The message brings bytes of the request, or starts its stream.
Carries(i, r) == /\ pipe[i].id = r /\ pipe[i].kind \in {"data", "reply"}
                 /\ pipe[i].from # pipe[i].to
Replies(i, r) == pipe[i].kind = "reply" /\ pipe[i].id = r

\* A request is streamed only if the client asked for it.
Traces(r) ==
    \/ r \in live \/ stream[r].on
    \/ \E i \in DOMAIN calls : calls[i] = r
    \/ \E i \in DOMAIN pipe : Carries(i, r) \/ Replies(i, r)
StreamedIfAsked == \A r \in Requests : Traces(r) => r \in streamed \/ Past(r)

\* The bytes of the request the client has, and those before message i end at p.
Base(r) == IF stream[r].on THEN stream[r].to ELSE 0
Before(i, r) == {j \in DOMAIN pipe : j < i /\ Carries(j, r)}
EndsAt(i, r, p) ==
    IF Before(i, r) = {} THEN p = Base(r)
    ELSE \E j \in Before(i, r) : pipe[j].to = p /\ \A k \in Before(i, r) : k <= j

\* What the client has, what is on its way and what will be sent fit together.
Starts(r) ==
    /\ stream[r].on => stream[r].from = 0 /\ ~stream[r].gap
    /\ \A i \in DOMAIN pipe : Replies(i, r) => pipe[i].from = 0
Chain(r) ==
    /\ \A i \in DOMAIN pipe : Carries(i, r) =>
         /\ EndsAt(i, r, pipe[i].from)
         /\ stream[r].on \/ \E j \in DOMAIN pipe : j <= i /\ Replies(j, r)
    /\ fetch[r].phase = "open" =>
         IF r \in live
         THEN /\ EndsAt(Len(pipe) + 1, r, fetch[r].body)
              /\ stream[r].on \/ \E j \in DOMAIN pipe : Replies(j, r)
         ELSE ~stream[r].on /\ \A i \in DOMAIN pipe : ~Carries(i, r) /\ ~Replies(i, r)
Chained ==
    /\ \A r \in Requests \ lost : Starts(r)
    /\ \A r \in streamed \ lost : Chain(r)

\* What the Done message of a request brings is the whole body, and what is cached.
Delivered ==
    /\ \A r \in streamed : pending[r] \in {"none", "live"}
    /\ \A i \in DOMAIN pipe : pipe[i].kind = "done" =>
         LET r == pipe[i].id
         IN /\ fetch[r].phase = "done"
            /\ r \notin lost =>
                 /\ \A e \in pipe[i].body : e.from = 0 /\ e.to = fetch[r].body
                 /\ pipe[i].body = {} => fetch[r].body = 0 \/ r \in streamed \/ Past(r)
    /\ \A i \in DOMAIN cache :
         /\ fetch[cache[i].id].phase = "done"
         /\ cache[i].id \notin lost /\ ~cache[i].cut => Whole(cache[i])

-----------------------------------------------------------------------------
(* Recursion along the numbers, and sets of numbers.                       *)

\* A set of numbers that is not empty has a least one.
LEMMA LeastNumber ==
    ASSUME NEW S \in SUBSET Nat, S # {}
    PROVE  \E x \in S : \A y \in S : x <= y
  <1>1. IsWellFoundedOn(OpToRel(<, Nat), Nat)
    BY NatLessThanWellFounded
  <1>2. PICK x \in S : \A y \in S : ~(<<y, x>> \in OpToRel(<, Nat))
    BY <1>1, WFMin
  <1>3. \A y \in S : ~(y < x)
    BY <1>2 DEF OpToRel
  <1> QED BY <1>3

\* The function has the value a for 0, and goes by steps from a number to the next.
Runs(f, n, W, step, a) ==
    /\ f = [i \in 0..n |-> f[i]] /\ f[0] = a
    /\ \A i \in 0..n : f[i] \in W[i]
    /\ \A i \in 1..n : f[i] = step[i][f[i - 1]]

\* If each step leads from the values of a number to those of the next, there is one.
LEMMA StepsMakeFunction ==
    ASSUME NEW n \in Nat, NEW W, NEW step, NEW a,
           a \in W[0],
           \A i \in 1..n : \A x \in W[i - 1] : step[i][x] \in W[i]
    PROVE  \E f : Runs(f, n, W, step, a)
  <1> DEFINE Good(f, k) == /\ f = [i \in 0..k |-> f[i]] /\ f[0] = a
                           /\ \A i \in 0..k : f[i] \in W[i]
                           /\ \A i \in 1..k : f[i] = step[i][f[i - 1]]
             Bad == {k \in 0..n : ~\E f : Good(f, k)}
  <1>1. ASSUME NEW k \in Bad, \A j \in Bad : k <= j PROVE FALSE
    <2>1. k # 0
      <3>1. Good([i \in 0..0 |-> a], 0)
        OBVIOUS
      <3> QED BY <3>1, <1>1
    <2>2. k \in 1..n /\ k - 1 \in 0..n /\ k - 1 \notin Bad
      BY <1>1, <2>1
    <2>3. PICK f : Good(f, k - 1)
      BY <2>2
    <2>4. step[k][f[k - 1]] \in W[k]
      BY <2>2, <2>3
    <2> DEFINE g == [i \in 0..k |-> IF i = k THEN step[k][f[k - 1]] ELSE f[i]]
    <2>5. \A i \in 0..k : g[i] = IF i = k THEN step[k][f[k - 1]] ELSE f[i]
      OBVIOUS
    <2>6. g = [i \in 0..k |-> g[i]] /\ k \in Nat /\ k - 1 \in Nat
      BY <2>2
    <2> HIDE DEF g
    <2>7. ASSUME NEW i \in 0..k PROVE g[i] \in W[i]
      <3>1. CASE i = k
        BY <2>4, <2>5, <3>1
      <3>2. CASE i # k
        <4>1. i \in 0..(k - 1)
          BY <2>2, <3>2
        <4>2. f[i] \in W[i]
          BY <2>3, <4>1
        <4> QED BY <2>5, <3>2, <4>2
      <3> QED BY <3>1, <3>2
    <2>8. ASSUME NEW i \in 1..k PROVE g[i] = step[i][g[i - 1]]
      <3>1. i - 1 \in 0..k /\ i \in 0..k /\ i - 1 # k /\ g[i - 1] = f[i - 1]
        BY <2>2, <2>5
      <3>2. CASE i = k
        BY <2>5, <3>1, <3>2
      <3>3. CASE i # k
        <4>1. i \in 1..(k - 1)
          BY <2>2, <3>3
        <4> QED BY <2>3, <2>5, <3>1, <4>1
      <3> QED BY <3>2, <3>3
    <2>9. g[0] = a
      <3>1. 0 \in 0..k /\ 0 # k
        BY <2>2
      <3>2. g[0] = f[0]
        BY <2>5, <3>1
      <3> QED BY <2>3, <3>2
    <2>10. Good(g, k)
      BY <2>6, <2>7, <2>8, <2>9
    <2> QED BY <1>1, <2>10
  <1>2. Bad \in SUBSET Nat
    OBVIOUS
  <1>3. Bad = {}
    <2> HIDE DEF Bad
    <2> QED BY <1>1, <1>2, LeastNumber
  <1>4. \E f : Good(f, n)
    BY <1>3
  <1> QED BY <1>4 DEF Runs

\* And every function made of such steps has such values.
LEMMA StepsStay ==
    ASSUME NEW n \in Nat, NEW W, NEW g,
           g[0] \in W[0],
           \A i \in 1..n : g[i - 1] \in W[i - 1] => g[i] \in W[i]
    PROVE  g[n] \in W[n]
  <1> DEFINE Bad == {i \in 0..n : g[i] \notin W[i]}
  <1>1. ASSUME NEW k \in Bad, \A j \in Bad : k <= j PROVE FALSE
    <2>1. k # 0
      BY <1>1
    <2>2. k \in 1..n /\ k - 1 \in 0..n /\ k - 1 \notin Bad
      BY <1>1, <2>1
    <2> QED BY <1>1, <2>2
  <1>2. Bad \in SUBSET Nat
    OBVIOUS
  <1>3. Bad = {}
    <2> HIDE DEF Bad
    <2> QED BY <1>1, <1>2, LeastNumber
  <1> QED BY <1>3

-----------------------------------------------------------------------------
(* Maps: what the operations on them leave.                                *)

Maps == {map \in Seq(Pieces) : Distinct(map)}

\* The entry of a request.
LEMMA GetIsEntry ==
    ASSUME NEW map, NEW r \in Ids(map)
    PROVE  Get(map, r) \in Entries(map) /\ Get(map, r).id = r
  <1>1. \E i \in DOMAIN map : map[i].id = r
    BY DEF Ids
  <1> QED BY <1>1 DEF Get, Entries

\* An entry of a map is the entry of its request.
LEMMA GetIsUnique ==
    ASSUME NEW map, Distinct(map), NEW e \in Entries(map)
    PROVE  e.id \in Ids(map) /\ Get(map, e.id) = e
  <1>1. PICK i \in DOMAIN map : map[i] = e
    BY DEF Entries
  <1>2. e.id \in Ids(map)
    BY <1>1 DEF Ids
  <1>3. \A j \in DOMAIN map : map[j].id = e.id => j = i
    BY <1>1 DEF Distinct
  <1>4. (CHOOSE j \in DOMAIN map : map[j].id = e.id) = i
    BY <1>1, <1>3
  <1> QED BY <1>1, <1>2, <1>4 DEF Get

\* The entries and the requests of a map are those of its positions.
LEMMA EntriesOfSeq ==
    ASSUME NEW S, NEW map \in Seq(S)
    PROVE  /\ Entries(map) \subseteq S /\ Ids(map) = {e.id : e \in Entries(map)}
           /\ DOMAIN map = 1..Len(map) /\ Len(map) \in Nat
  <1>1. DOMAIN map = 1..Len(map) /\ Len(map) \in Nat /\ map \in [1..Len(map) -> S]
    BY LenProperties
  <1>2. Entries(map) \subseteq S
    BY <1>1 DEF Entries
  <1>3. Ids(map) = {e.id : e \in Entries(map)}
    BY DEF Ids, Entries
  <1> QED BY <1>1, <1>2, <1>3

\* The maps of Init.
LEMMA EmptyMap == <<>> \in Maps /\ Entries(<<>>) = {} /\ Ids(<<>>) = {}
  <1>1. <<>> \in Seq(Pieces) /\ DOMAIN <<>> = {}
    OBVIOUS
  <1> QED BY <1>1 DEF Maps, Distinct, Entries, Ids

\* An entry put where its request has one, or after the others.
LEMMA PutReplaces ==
    ASSUME NEW map \in Maps, NEW e \in Pieces
    PROVE  /\ Put(map, e) \in Maps
           /\ Entries(Put(map, e)) = {x \in Entries(map) : x.id # e.id} \cup {e}
           /\ Len(Put(map, e)) = IF e.id \in Ids(map) THEN Len(map) ELSE Len(map) + 1
  <1>1. map \in Seq(Pieces) /\ Distinct(map) /\ DOMAIN map = 1..Len(map) /\ Len(map) \in Nat
        /\ map \in [1..Len(map) -> Pieces]
    BY LenProperties DEF Maps
  <1>2. CASE e.id \in Ids(map)
    <2>1. PICK k \in DOMAIN map : map[k].id = e.id
      BY <1>2 DEF Ids
    <2>2. \A i \in DOMAIN map : map[i].id = e.id => i = k
      BY <1>1, <2>1 DEF Distinct
    <2> DEFINE new == [map EXCEPT ![k] = e]
    <2>3. Put(map, e) = new
      <3>1. Put(map, e) = [i \in DOMAIN map |-> IF map[i].id = e.id THEN e ELSE map[i]]
        BY <1>2 DEF Put
      <3>2. [i \in DOMAIN map |-> IF map[i].id = e.id THEN e ELSE map[i]]
              = [i \in DOMAIN map |-> IF i = k THEN e ELSE map[i]]
        BY <2>1, <2>2
      <3> QED BY <1>1, <3>1, <3>2
    <2>4. new \in Seq(Pieces) /\ Len(new) = Len(map)
      BY <1>1, <2>1, ExceptSeq
    <2>5. DOMAIN new = DOMAIN map /\ \A i \in DOMAIN map : new[i] = IF i = k THEN e ELSE map[i]
      BY <1>1
    <2>6. Distinct(new)
      BY <2>1, <2>2, <2>5, <1>1 DEF Distinct
    <2>7. Entries(new) = {x \in Entries(map) : x.id # e.id} \cup {e}
      BY <2>1, <2>2, <2>5 DEF Entries
    <2> QED BY <1>2, <2>3, <2>4, <2>6, <2>7 DEF Maps
  <1>3. CASE e.id \notin Ids(map)
    <2> DEFINE new == Append(map, e)
    <2>1. Put(map, e) = new
      BY <1>3 DEF Put
    <2>2. /\ new \in Seq(Pieces) /\ Len(new) = Len(map) + 1
          /\ \A i \in 1..Len(map) : new[i] = map[i]
          /\ new[Len(map) + 1] = e
      BY <1>1, AppendProperties
    <2>3. DOMAIN new = 1..(Len(map) + 1)
      BY <2>2, LenProperties
    <2> HIDE DEF new
    <2>4. \A i \in DOMAIN map : map[i].id # e.id
      BY <1>3 DEF Ids
    <2>5. Distinct(new)
      <3> SUFFICES ASSUME NEW i \in DOMAIN new, NEW j \in DOMAIN new, new[i].id = new[j].id PROVE i = j
        BY DEF Distinct
      <3>1. CASE i \in DOMAIN map /\ j \in DOMAIN map
        BY <1>1, <2>2, <3>1 DEF Distinct
      <3>2. CASE i = Len(map) + 1
        BY <1>1, <2>2, <2>3, <2>4, <3>2
      <3>3. CASE j = Len(map) + 1
        BY <1>1, <2>2, <2>3, <2>4, <3>3
      <3> QED BY <1>1, <2>3, <3>1, <3>2, <3>3
    <2>6. Entries(new) = Entries(map) \cup {e}
      <3>1. ASSUME NEW i \in DOMAIN new PROVE new[i] \in Entries(map) \cup {e}
        BY <1>1, <2>2, <2>3 DEF Entries
      <3>2. ASSUME NEW i \in DOMAIN map PROVE i \in DOMAIN new /\ new[i] = map[i]
        BY <1>1, <2>2, <2>3
      <3>3. Len(map) + 1 \in DOMAIN new
        BY <1>1, <2>3
      <3> QED BY <2>2, <3>1, <3>2, <3>3 DEF Entries
    <2>7. \A x \in Entries(map) : x.id # e.id
      BY <2>4 DEF Entries
    <2> QED BY <1>3, <2>1, <2>2, <2>5, <2>6, <2>7 DEF Maps
  <1> QED BY <1>2, <1>3

\* The entries of other requests.
LEMMA WithoutFilters ==
    ASSUME NEW map \in Maps, NEW ids
    PROVE  /\ Without(map, ids) \in Maps /\ Len(Without(map, ids)) <= Len(map)
           /\ Entries(Without(map, ids)) = {x \in Entries(map) : x.id \notin ids}
           /\ Ids(Without(map, ids)) = Ids(map) \ ids
  <1> DEFINE n == Len(map)
             Upto(i) == {map[j] : j \in 1..i}
             W == [i \in 0..n |-> {s \in Maps : /\ Len(s) <= i
                                                /\ Entries(s) = {x \in Upto(i) : x.id \notin ids}}]
             step == [i \in 1..n |-> [s \in Maps |-> IF map[i].id \in ids THEN s ELSE Append(s, map[i])]]
             Is(f) == f = [i \in 0..n |-> IF i = 0 THEN <<>>
                                          ELSE IF map[i].id \in ids THEN f[i - 1]
                                          ELSE Append(f[i - 1], map[i])]
  <1>1. map \in Seq(Pieces) /\ Distinct(map) /\ DOMAIN map = 1..n /\ n \in Nat
        /\ map \in [1..n -> Pieces]
    BY LenProperties DEF Maps
  <1>2. <<>> \in W[0]
    BY <1>1, EmptyMap
  <1>3. ASSUME NEW i \in 1..n, NEW s \in W[i - 1] PROVE step[i][s] \in W[i]
    <2>1. i - 1 \in 0..n /\ i \in 0..n /\ i \in Nat
      BY <1>1
    <2>2. s \in Maps /\ Len(s) <= i - 1 /\ Entries(s) = {x \in Upto(i - 1) : x.id \notin ids}
      BY <1>3, <2>1
    <2>3. s \in Seq(Pieces) /\ Len(s) \in Nat
      BY <2>2, LenProperties DEF Maps
    <2>4. Upto(i) = Upto(i - 1) \cup {map[i]}
      <3>1. 1..i = 1..(i - 1) \cup {i}
        BY <1>1
      <3> QED BY <3>1
    <2>5. map[i] \in Pieces /\ step[i][s] = IF map[i].id \in ids THEN s ELSE Append(s, map[i])
      BY <1>1, <2>2
    <2>6. \A x \in Upto(i - 1) : x.id # map[i].id
      BY <1>1 DEF Distinct
    <2>7. map[i].id \notin Ids(s)
      <3>1. Ids(s) = {x.id : x \in Entries(s)}
        BY <2>3, EntriesOfSeq
      <3> QED BY <3>1, <2>2, <2>6
    <2>8. CASE map[i].id \in ids
      <3>1. {x \in Upto(i) : x.id \notin ids} = {x \in Upto(i - 1) : x.id \notin ids}
        BY <2>4, <2>8
      <3>2. Len(s) <= i
        BY <2>1, <2>2, <2>3
      <3> QED BY <2>1, <2>2, <2>5, <2>8, <3>1, <3>2
    <2>9. CASE map[i].id \notin ids
      <3>1. Append(s, map[i]) = Put(s, map[i])
        BY <2>7 DEF Put
      <3>2. /\ Put(s, map[i]) \in Maps /\ Len(Put(s, map[i])) = Len(s) + 1
            /\ Entries(Put(s, map[i])) = {x \in Entries(s) : x.id # map[i].id} \cup {map[i]}
        BY <2>2, <2>5, <2>7, PutReplaces
      <3>3. {x \in Entries(s) : x.id # map[i].id} = Entries(s)
        BY <2>2, <2>6
      <3>4. {x \in Upto(i) : x.id \notin ids} = Entries(s) \cup {map[i]}
        BY <2>2, <2>4, <2>9
      <3>5. Len(s) + 1 <= i
        BY <2>1, <2>2, <2>3
      <3> QED BY <2>1, <2>5, <2>9, <3>1, <3>2, <3>3, <3>4, <3>5
    <2> QED BY <2>8, <2>9
  <1>4. PICK f : /\ f = [i \in 0..n |-> f[i]] /\ f[0] = <<>>
                 /\ \A i \in 0..n : f[i] \in W[i]
                 /\ \A i \in 1..n : f[i] = step[i][f[i - 1]]
    <2>1. \A i \in 1..n : \A s \in W[i - 1] : step[i][s] \in W[i]
      BY <1>3
    <2>2. n \in Nat
      BY <1>1
    <2>3. \E f : Runs(f, n, W, step, <<>>)
      <3> HIDE DEF W, step, n
      <3> QED BY <1>2, <2>1, <2>2, StepsMakeFunction
    <2> HIDE DEF W, step, n
    <2> QED BY <2>3 DEF Runs
  <1>5. Is(f)
    <2>1. ASSUME NEW i \in 1..n
          PROVE  f[i] = IF map[i].id \in ids THEN f[i - 1] ELSE Append(f[i - 1], map[i])
      <3>1. i - 1 \in 0..n
        BY <1>1
      <3>2. f[i - 1] \in Maps
        BY <1>4, <3>1
      <3> QED BY <1>4, <3>2
    <2>2. \A i \in 0..n : f[i] = IF i = 0 THEN <<>>
                                 ELSE IF map[i].id \in ids THEN f[i - 1] ELSE Append(f[i - 1], map[i])
      BY <1>1, <1>4, <2>1
    <2> HIDE DEF W, step
    <2> QED BY <1>4, <2>2
  <1> DEFINE g == CHOOSE h : Is(h)
  <1>6. Is(g)
    BY <1>5
  <1>7. Without(map, ids) = g[n]
    BY DEF Without
  <1> HIDE DEF g
  <1>8. \A i \in 0..n : g[i] = IF i = 0 THEN <<>>
                               ELSE IF map[i].id \in ids THEN g[i - 1] ELSE Append(g[i - 1], map[i])
    BY <1>6
  <1>9. g[n] \in W[n]
    <2>1. g[0] \in W[0]
      BY <1>1, <1>2, <1>8
    <2>2. ASSUME NEW i \in 1..n, g[i - 1] \in W[i - 1] PROVE g[i] \in W[i]
      <3>1. i - 1 \in 0..n /\ i \in 0..n /\ i # 0
        BY <1>1
      <3>2. g[i - 1] \in Maps
        BY <2>2, <3>1
      <3>3. g[i] = step[i][g[i - 1]]
        BY <1>8, <3>1, <3>2
      <3>4. step[i][g[i - 1]] \in W[i]
        BY <1>3, <2>2
      <3> HIDE DEF W, step
      <3> QED BY <3>3, <3>4
    <2> HIDE DEF W
    <2> QED BY <1>1, <2>1, <2>2, StepsStay
  <1>10. Upto(n) = Entries(map)
    BY <1>1 DEF Entries
  <1>11. Without(map, ids) \in Maps /\ Len(Without(map, ids)) <= n
         /\ Entries(Without(map, ids)) = {x \in Entries(map) : x.id \notin ids}
    BY <1>1, <1>7, <1>9, <1>10
  <1>12. Ids(Without(map, ids)) = Ids(map) \ ids
    <2>1. Ids(Without(map, ids)) = {x.id : x \in Entries(Without(map, ids))}
      BY <1>11, EntriesOfSeq DEF Maps
    <2>2. Ids(map) = {x.id : x \in Entries(map)}
      BY <1>1, EntriesOfSeq
    <2> QED BY <1>11, <2>1, <2>2
  <1> QED BY <1>11, <1>12

\* A map without its oldest entry, and the oldest entries of a map.
LEMMA TailForgets ==
    ASSUME NEW map \in Maps, map # <<>>
    PROVE  Tail(map) \in Maps /\ Entries(Tail(map)) \subseteq Entries(map) /\ Len(Tail(map)) = Len(map) - 1
  <1>1. map \in Seq(Pieces) /\ Distinct(map) /\ DOMAIN map = 1..Len(map) /\ Len(map) \in Nat
    BY LenProperties DEF Maps
  <1>2. /\ Tail(map) \in Seq(Pieces) /\ Len(Tail(map)) = Len(map) - 1
        /\ \A i \in 1..Len(Tail(map)) : Tail(map)[i] = map[i + 1]
    BY <1>1, HeadTailProperties
  <1>3. DOMAIN Tail(map) = 1..(Len(map) - 1)
    BY <1>2, LenProperties
  <1>4. \A i \in DOMAIN Tail(map) : i + 1 \in DOMAIN map /\ Tail(map)[i] = map[i + 1]
    BY <1>1, <1>2, <1>3
  <1>5. Distinct(Tail(map))
    <2> SUFFICES ASSUME NEW i \in DOMAIN Tail(map), NEW j \in DOMAIN Tail(map), Tail(map)[i].id = Tail(map)[j].id
                 PROVE  i = j
      BY DEF Distinct
    <2>1. i + 1 = j + 1
      BY <1>1, <1>4 DEF Distinct
    <2> QED BY <1>3, <2>1
  <1> QED BY <1>2, <1>4, <1>5 DEF Maps, Entries

\* The oldest entries of a map are a map.
LEMMA OldestOfMap ==
    ASSUME NEW map \in Maps, NEW k \in 0..Len(map)
    PROVE  SubSeq(map, 1, k) \in Maps /\ Entries(SubSeq(map, 1, k)) \subseteq Entries(map)
  <1> DEFINE part == SubSeq(map, 1, k)
  <1>1. map \in Seq(Pieces) /\ Distinct(map) /\ DOMAIN map = 1..Len(map) /\ Len(map) \in Nat
        /\ \A i \in 1..Len(map) : map[i] \in Pieces
    BY LenProperties DEF Maps
  <1>2. \A i \in 1..k : map[i] \in Pieces
    BY <1>1
  <1>3. /\ part \in Seq(Pieces) /\ Len(part) = IF 1 <= k THEN k - 1 + 1 ELSE 0
        /\ \A i \in 1..(k - 1 + 1) : part[i] = map[1 + i - 1]
    BY <1>1, <1>2, SubSeqProperties
  <1>4. DOMAIN part = 1..Len(part)
    BY <1>3, LenProperties
  <1>5. \A i \in DOMAIN part : i \in DOMAIN map /\ part[i] = map[i]
    BY <1>1, <1>3, <1>4
  <1>6. Distinct(part)
    BY <1>1, <1>5 DEF Distinct
  <1> QED BY <1>3, <1>5, <1>6 DEF Maps, Entries

-----------------------------------------------------------------------------
(* Completed bodies.                                                       *)

Dated(e) == [e EXCEPT !.at = now]

\* A completed body has the bytes of the entry it was.
LEMMA DatedIsPiece ==
    ASSUME NEW e \in Pieces, now \in Nat
    PROVE  Dated(e) \in Pieces /\ Dated(e).id = e.id /\ Dated(e).from = e.from /\ Dated(e).to = e.to
  BY DEF Dated, Pieces

Archives == {map \in Maps : Len(map) <= MaxCompleted}

\* A body is completed among the others, one of which may make room.
LEMMA CompletedAdds ==
    ASSUME NEW map \in Archives, NEW e \in Pieces, now \in Nat
    PROVE  /\ Completed(map, e) \in Archives
           /\ Entries(Completed(map, e)) \subseteq Entries(map) \cup {Dated(e)}
           /\ \A x \in Entries(Completed(map, e)) : x.id = e.id <=> x = Dated(e)
           /\ e.id \in Ids(Completed(map, e))
  <1> DEFINE left == IF Len(map) >= MaxCompleted THEN Tail(map) ELSE map
  <1>1. map \in Maps /\ map \in Seq(Pieces) /\ Len(map) \in Nat /\ Len(map) <= MaxCompleted
        /\ MaxCompleted \in Nat \ {0}
    BY LenProperties, LimitsAssumption DEF Archives, Maps
  <1>2. left \in Maps /\ Entries(left) \subseteq Entries(map) /\ Len(left) + 1 <= MaxCompleted
    <2>1. CASE Len(map) >= MaxCompleted
      <3>1. map # <<>>
        BY <1>1, <2>1
      <3> QED BY <1>1, <2>1, <3>1, TailForgets
    <2>2. CASE ~(Len(map) >= MaxCompleted)
      BY <1>1, <2>2
    <2> QED BY <2>1, <2>2
  <1>3. Dated(e) \in Pieces /\ Dated(e).id = e.id
    BY DatedIsPiece
  <1>4. Completed(map, e) = Put(left, Dated(e))
    BY DEF Completed, Dated
  <1> HIDE DEF left
  <1>5. /\ Put(left, Dated(e)) \in Maps
        /\ Entries(Put(left, Dated(e))) = {x \in Entries(left) : x.id # e.id} \cup {Dated(e)}
        /\ Len(Put(left, Dated(e))) = IF e.id \in Ids(left) THEN Len(left) ELSE Len(left) + 1
    BY <1>2, <1>3, PutReplaces
  <1>6. Len(left) \in Nat
    BY <1>2, LenProperties DEF Maps
  <1>7. Len(Put(left, Dated(e))) <= MaxCompleted
    BY <1>1, <1>2, <1>5, <1>6
  <1>8. Ids(Put(left, Dated(e))) = {x.id : x \in Entries(Put(left, Dated(e)))}
    BY <1>5, EntriesOfSeq DEF Maps
  <1> QED BY <1>2, <1>3, <1>4, <1>5, <1>7, <1>8 DEF Archives

\* What dropping several buffers adds.
Completes(victims) == {Dated(x) : x \in {y \in Entries(victims) : Size(y) > 0}}

\* So are the bodies of all victims, one after the other.
LEMMA AllCompletedAdds ==
    ASSUME NEW map \in Archives, NEW victims \in Maps, now \in Nat
    PROVE  /\ AllCompleted(map, victims) \in Archives
           /\ Entries(AllCompleted(map, victims)) \subseteq Entries(map) \cup Completes(victims)
  <1> DEFINE n == Len(victims)
             V == {m \in Archives : Entries(m) \subseteq Entries(map) \cup Completes(victims)}
             W == [i \in 0..n |-> V]
             step == [i \in 1..n |-> [m \in V |-> IF Size(victims[i]) > 0 THEN Completed(m, victims[i]) ELSE m]]
             Is(f) == f = [i \in 0..n |-> IF i = 0 THEN map
                                          ELSE IF Size(victims[i]) > 0 THEN Completed(f[i - 1], victims[i])
                                          ELSE f[i - 1]]
  <1>1. victims \in Seq(Pieces) /\ DOMAIN victims = 1..n /\ n \in Nat /\ \A i \in 1..n : victims[i] \in Pieces
    BY LenProperties DEF Maps
  <1>2. map \in V
    OBVIOUS
  <1>3. ASSUME NEW i \in 1..n, NEW m \in V
        PROVE  (IF Size(victims[i]) > 0 THEN Completed(m, victims[i]) ELSE m) \in V
    <2>1. CASE Size(victims[i]) > 0
      <3>1. Completed(m, victims[i]) \in Archives
            /\ Entries(Completed(m, victims[i])) \subseteq Entries(m) \cup {Dated(victims[i])}
        BY <1>1, CompletedAdds
      <3>2. Dated(victims[i]) \in Completes(victims)
        BY <1>1, <2>1 DEF Completes, Entries
      <3> QED BY <2>1, <3>1, <3>2
    <2> QED BY <2>1
  <1> HIDE DEF V
  <1>4. \E f : Runs(f, n, W, step, map)
    <2>1. map \in W[0]
      BY <1>1, <1>2
    <2>2. \A i \in 1..n : \A m \in W[i - 1] : step[i][m] \in W[i]
      <3> SUFFICES ASSUME NEW i \in 1..n, NEW m \in W[i - 1] PROVE step[i][m] \in W[i]
        OBVIOUS
      <3>1. i - 1 \in 0..n /\ i \in 0..n
        BY <1>1
      <3>2. m \in V
        BY <3>1
      <3> QED BY <1>3, <3>1, <3>2
    <2> HIDE DEF W, step, n
    <2>3. n \in Nat
      BY <1>1 DEF n
    <2> QED BY <2>1, <2>2, <2>3, StepsMakeFunction
  <1>5. PICK f : f = [i \in 0..n |-> f[i]] /\ f[0] = map /\ (\A i \in 0..n : f[i] \in W[i])
                 /\ (\A i \in 1..n : f[i] = step[i][f[i - 1]])
    <2> HIDE DEF W, step, n
    <2> QED BY <1>4 DEF Runs
  <1>6. Is(f)
    <2>1. ASSUME NEW i \in 1..n
          PROVE  f[i] = IF Size(victims[i]) > 0 THEN Completed(f[i - 1], victims[i]) ELSE f[i - 1]
      <3>1. i - 1 \in 0..n
        BY <1>1
      <3>2. f[i - 1] \in V
        BY <1>5, <3>1
      <3> QED BY <1>5, <3>2
    <2>2. \A i \in 0..n : f[i] = IF i = 0 THEN map
                                 ELSE IF Size(victims[i]) > 0 THEN Completed(f[i - 1], victims[i]) ELSE f[i - 1]
      BY <1>1, <1>5, <2>1
    <2> HIDE DEF W, step
    <2> QED BY <1>5, <2>2
  <1> DEFINE g == CHOOSE h : Is(h)
  <1>7. Is(g)
    BY <1>6
  <1>8. AllCompleted(map, victims) = g[n]
    BY DEF AllCompleted
  <1> HIDE DEF g
  <1>9. \A i \in 0..n : g[i] = IF i = 0 THEN map
                               ELSE IF Size(victims[i]) > 0 THEN Completed(g[i - 1], victims[i]) ELSE g[i - 1]
    BY <1>7
  <1>10. g[n] \in W[n]
    <2>1. g[0] \in W[0]
      BY <1>1, <1>2, <1>9
    <2>2. ASSUME NEW i \in 1..n, g[i - 1] \in W[i - 1] PROVE g[i] \in W[i]
      <3>1. i - 1 \in 0..n /\ i \in 0..n /\ i # 0
        BY <1>1
      <3>2. g[i - 1] \in V
        BY <2>2, <3>1
      <3>3. g[i] \in V
        BY <1>3, <1>9, <3>1, <3>2
      <3> QED BY <3>1, <3>3
    <2> HIDE DEF W
    <2> QED BY <1>1, <2>1, <2>2, StepsStay
  <1>11. g[n] \in V
    BY <1>1, <1>10
  <1> QED BY <1>8, <1>11 DEF V

-----------------------------------------------------------------------------
(* Bytes.                                                                  *)

Own(e) == {e.id} \X ((e.from + 1)..e.to)
Area(entries) == UNION {Own(e) : e \in entries}

\* The bytes of an entry are as many as it is long.
LEMMA OwnSize ==
    ASSUME NEW e \in Pieces
    PROVE  IsFiniteSet(Own(e)) /\ Cardinality(Own(e)) = Size(e) /\ Size(e) \in Nat
  <1>1. e.from \in Nat /\ e.to \in Nat /\ e.from <= e.to
    BY DEF Pieces
  <1>2. e.from + 1 \in Int /\ e.to \in Int
    BY <1>1
  <1>3. /\ IsFiniteSet((e.from + 1)..e.to)
        /\ Cardinality((e.from + 1)..e.to) = IF e.from + 1 > e.to THEN 0 ELSE e.to - (e.from + 1) + 1
    BY <1>2, FS_Interval
  <1>4. Cardinality((e.from + 1)..e.to) = Size(e) /\ Size(e) \in Nat
    BY <1>1, <1>3 DEF Size
  <1>5. IsFiniteSet({e.id}) /\ Cardinality({e.id}) = 1
    BY FS_Singleton
  <1>6. IsFiniteSet(Own(e)) /\ Cardinality(Own(e)) = 1 * Size(e)
    <2> DEFINE one == {e.id}
               numbers == (e.from + 1)..e.to
    <2>1. IsFiniteSet(one) /\ Cardinality(one) = 1 /\ IsFiniteSet(numbers) /\ Cardinality(numbers) = Size(e)
      BY <1>3, <1>4, <1>5
    <2>2. Own(e) = one \X numbers
      BY DEF Own
    <2> HIDE DEF one, numbers
    <2>3. IsFiniteSet(one \X numbers) /\ Cardinality(one \X numbers) = Cardinality(one) * Cardinality(numbers)
      BY <2>1, FS_Product
    <2> QED BY <2>1, <2>2, <2>3
  <1>7. 1 * Size(e) = Size(e)
    BY <1>4
  <1> QED BY <1>4, <1>6, <1>7

\* The bytes of a map are those of its entries.
LEMMA BytesAreArea ==
    ASSUME NEW map PROVE BytesOf(map) = Area(Entries(map))
  BY DEF BytesOf, Area, Entries, Own

\* And there are finitely many.
LEMMA AreaFinite ==
    ASSUME NEW map \in Maps
    PROVE  IsFiniteSet(Area(Entries(map))) /\ Bytes(map) \in Nat
  <1> DEFINE n == Len(map)
             areas == {Own(e) : e \in Entries(map)}
             f == [i \in 1..n |-> Own(map[i])]
  <1>1. n \in Nat /\ DOMAIN map = 1..n /\ map \in Seq(Pieces)
    BY LenProperties DEF Maps
  <1>2. f \in Surjection(1..n, areas)
    BY <1>1 DEF Surjection, Entries
  <1>3. IsFiniteSet(1..n)
    BY <1>1, FS_Interval
  <1>4. IsFiniteSet(areas)
    <2> HIDE DEF f, areas
    <2> QED BY <1>2, <1>3, FS_Surjection
  <1>5. \A S \in areas : IsFiniteSet(S)
    BY <1>1, EntriesOfSeq, OwnSize
  <1>6. IsFiniteSet(Area(Entries(map)))
    <2>1. IsFiniteSet(UNION areas)
      <3> HIDE DEF areas
      <3> QED BY <1>4, <1>5, FS_UNION
    <2> QED BY <2>1 DEF Area
  <1> QED BY <1>6, BytesAreArea, FS_CardinalityType DEF Bytes

\* The bytes of different requests add up.
LEMMA AreasAdd ==
    ASSUME NEW A, NEW B, IsFiniteSet(Area(A)), IsFiniteSet(Area(B)), \A x \in A : \A y \in B : x.id # y.id
    PROVE  Cardinality(Area(A \cup B)) = Cardinality(Area(A)) + Cardinality(Area(B))
  <1>1. Area(A \cup B) = Area(A) \cup Area(B)
    BY DEF Area
  <1>2. Area(A) \cap Area(B) = {}
    BY DEF Area, Own
  <1>3. Cardinality(Area(A)) \in Nat /\ Cardinality(Area(B)) \in Nat
    BY FS_CardinalityType
  <1>4. Cardinality(Area(A) \cup Area(B)) = Cardinality(Area(A)) + Cardinality(Area(B)) - Cardinality({})
    BY <1>2, FS_Union
  <1>5. Cardinality({}) = 0
    BY FS_EmptySet
  <1>6. PICK a \in Nat, b \in Nat : a = Cardinality(Area(A)) /\ b = Cardinality(Area(B))
    BY <1>3
  <1>7. a + b - 0 = a + b
    OBVIOUS
  <1> QED BY <1>1, <1>4, <1>5, <1>6, <1>7

\* The bytes of two parts of a map add up.
LEMMA BytesSplit ==
    ASSUME NEW map \in Maps, NEW one \in Maps, NEW two \in Maps,
           Entries(map) = Entries(one) \cup Entries(two),
           \A x \in Entries(one) : \A y \in Entries(two) : x.id # y.id
    PROVE  Bytes(map) = Bytes(one) + Bytes(two)
  <1>1. IsFiniteSet(Area(Entries(one))) /\ IsFiniteSet(Area(Entries(two)))
    BY AreaFinite
  <1>2. Cardinality(Area(Entries(map))) = Cardinality(Area(Entries(one))) + Cardinality(Area(Entries(two)))
    BY <1>1, AreasAdd
  <1> QED BY <1>2, BytesAreArea DEF Bytes

\* The bytes of a map and of one of its entries.
LEMMA BytesOfEntry ==
    ASSUME NEW map \in Maps, NEW rest \in Maps, NEW e \in Pieces,
           Entries(map) = Entries(rest) \cup {e}, \A x \in Entries(rest) : x.id # e.id
    PROVE  Bytes(map) = Bytes(rest) + Size(e)
  <1>1. IsFiniteSet(Area(Entries(rest)))
    BY AreaFinite
  <1>2. Area({e}) = Own(e)
    BY DEF Area
  <1>3. IsFiniteSet(Area({e})) /\ Cardinality(Area({e})) = Size(e)
    BY <1>2, OwnSize
  <1>4. Cardinality(Area(Entries(map))) = Cardinality(Area(Entries(rest))) + Cardinality(Area({e}))
    <2>1. \A x \in Entries(rest) : \A y \in {e} : x.id # y.id
      OBVIOUS
    <2> QED BY <1>1, <1>3, <2>1, AreasAdd
  <1> QED BY <1>3, <1>4, BytesAreArea DEF Bytes

Weight(map, r) == IF r \in Ids(map) THEN Size(Get(map, r)) ELSE 0

\* What is left is what there was less what is taken away.
LEMMA BytesWithout ==
    ASSUME NEW map \in Maps, NEW r
    PROVE  /\ Bytes(Without(map, {r})) = Bytes(map) - Weight(map, r)
           /\ Weight(map, r) \in Nat /\ Weight(map, r) <= Bytes(map)
  <1> DEFINE rest == Without(map, {r})
  <1>1. rest \in Maps /\ Entries(rest) = {x \in Entries(map) : x.id # r}
    BY WithoutFilters
  <1>2. Bytes(map) \in Nat /\ Bytes(rest) \in Nat
    BY <1>1, AreaFinite
  <1>3. CASE r \in Ids(map)
    <2>1. PICK e \in Entries(map) : e = Get(map, r) /\ e.id = r
      BY <1>3, GetIsEntry
    <2>2. e \in Pieces
      BY <2>1, EntriesOfSeq DEF Maps
    <2>3. \A x \in Entries(map) : x.id = r => x = e
      BY <2>1, GetIsUnique DEF Maps
    <2>4. Entries(map) = Entries(rest) \cup {e} /\ \A x \in Entries(rest) : x.id # e.id
      BY <1>1, <2>1, <2>3
    <2>5. Bytes(map) = Bytes(rest) + Size(e)
      <3> HIDE DEF rest
      <3> QED BY <1>1, <2>2, <2>4, BytesOfEntry
    <2>6. Weight(map, r) = Size(e) /\ Size(e) \in Nat
      BY <1>3, <2>1, <2>2, OwnSize DEF Weight
    <2> HIDE DEF rest
    <2>7. Bytes(rest) = Bytes(map) - Weight(map, r) /\ Weight(map, r) <= Bytes(map)
      BY <1>2, <2>5, <2>6
    <2> QED BY <2>6, <2>7 DEF rest
  <1>4. CASE r \notin Ids(map)
    <2>1. Entries(rest) = Entries(map)
      <3>1. Ids(map) = {x.id : x \in Entries(map)}
        BY EntriesOfSeq DEF Maps
      <3> QED BY <1>1, <1>4, <3>1
    <2>2. Bytes(rest) = Bytes(map)
      BY <2>1, BytesAreArea DEF Bytes
    <2> QED BY <1>2, <1>4, <2>2 DEF Weight
  <1> QED BY <1>3, <1>4

\* An entry that is put takes the place of the one its request had.
LEMMA BytesPut ==
    ASSUME NEW map \in Maps, NEW e \in Pieces
    PROVE  Bytes(Put(map, e)) = Bytes(map) - Weight(map, e.id) + Size(e)
  <1> DEFINE rest == Without(map, {e.id})
             new == Put(map, e)
  <1>1. rest \in Maps /\ Entries(rest) = {x \in Entries(map) : x.id # e.id}
    BY WithoutFilters
  <1>2. new \in Maps /\ Entries(new) = Entries(rest) \cup {e}
    BY <1>1, PutReplaces
  <1>3. Bytes(new) = Bytes(rest) + Size(e)
    <2>1. \A x \in Entries(rest) : x.id # e.id
      BY <1>1
    <2> HIDE DEF rest, new
    <2> QED BY <1>1, <1>2, <2>1, BytesOfEntry
  <1>4. Bytes(rest) = Bytes(map) - Weight(map, e.id)
    BY BytesWithout
  <1> QED BY <1>3, <1>4

\* Of a part of a map, and the rest of it.
LEMMA BytesOfPart ==
    ASSUME NEW map \in Maps, NEW part \in Maps, Entries(part) \subseteq Entries(map)
    PROVE  /\ Bytes(Without(map, Ids(part))) = Bytes(map) - Bytes(part)
           /\ Bytes(part) \in Nat /\ Bytes(part) <= Bytes(map)
  <1> DEFINE rest == Without(map, Ids(part))
  <1>1. rest \in Maps /\ Entries(rest) = {x \in Entries(map) : x.id \notin Ids(part)}
    BY WithoutFilters
  <1>2. Ids(part) = {x.id : x \in Entries(part)}
    BY EntriesOfSeq DEF Maps
  <1>3. \A x \in Entries(map) : x.id \in Ids(part) => x \in Entries(part)
    <2> SUFFICES ASSUME NEW x \in Entries(map), x.id \in Ids(part) PROVE x \in Entries(part)
      OBVIOUS
    <2>1. PICK y \in Entries(part) : y.id = x.id
      BY <1>2
    <2>2. Get(map, x.id) = x /\ Get(map, y.id) = y
      BY <2>1, GetIsUnique DEF Maps
    <2> QED BY <2>1, <2>2
  <1>4. Entries(map) = Entries(rest) \cup Entries(part)
    BY <1>1, <1>3
  <1>5. \A x \in Entries(rest) : \A y \in Entries(part) : x.id # y.id
    BY <1>1, <1>2
  <1> HIDE DEF rest
  <1>6. Bytes(map) = Bytes(rest) + Bytes(part)
    <2>1. \A one, two \in Maps : /\ Entries(map) = Entries(one) \cup Entries(two)
                                 /\ \A x \in Entries(one) : \A y \in Entries(two) : x.id # y.id
                                 => Bytes(map) = Bytes(one) + Bytes(two)
      BY BytesSplit
    <2> QED BY <1>1, <1>4, <1>5, <2>1
  <1>7. Bytes(map) \in Nat /\ Bytes(rest) \in Nat /\ Bytes(part) \in Nat
    BY <1>1, AreaFinite
  <1>8. Bytes(rest) = Bytes(map) - Bytes(part) /\ Bytes(part) <= Bytes(map)
    BY <1>6, <1>7
  <1> QED BY <1>7, <1>8 DEF rest

-----------------------------------------------------------------------------
(* What the operations of the main thread leave.                           *)

Accounted == Shape /\ BytesAccounted

\* What the types say of the variables of the main thread.
LEMMA MapsOfShape ==
    ASSUME Shape
    PROVE  /\ buffers \in Maps /\ completed \in Archives /\ now \in Nat /\ cap \in Nat /\ held \in Nat
           /\ fetch \in [Requests -> [phase : {"new", "open", "done"}, body : 0..MaxBody]]
           /\ live \subseteq Requests /\ dropped \subseteq Requests /\ lost \subseteq Requests
           /\ registered \in [Requests -> Nat] /\ mainSweep \in Nat
           /\ \A map \in Maps : Ids(map) \subseteq Requests
  <1>1. cap \in Nat
    BY LimitsAssumption DEF Shape, TypeOK
  <1>2. ASSUME NEW map \in Maps PROVE Ids(map) \subseteq Requests
    BY EntriesOfSeq DEF Maps, Pieces
  <1> QED BY <1>1, <1>2 DEF Shape, TypeOK, Maps, Archives

\* The buffer a chunk goes to, before it does.
Buffer(r) == IF r \in Ids(buffers) THEN Get(buffers, r) ELSE Piece(r, fetch[r].body, fetch[r].body, now)

\* The buffer a chunk goes to.
LEMMA BufferOfChunk ==
    ASSUME Shape, NEW r \in Requests
    PROVE  /\ Buffer(r) \in Pieces /\ Buffer(r).id = r /\ Size(Buffer(r)) = Weight(buffers, r)
           /\ r \in Ids(buffers) => Buffer(r) \in Entries(buffers)
           /\ r \notin Ids(buffers) => Buffer(r) = Piece(r, fetch[r].body, fetch[r].body, now)
  <1>1. buffers \in Maps /\ now \in Nat /\ fetch[r].body \in Nat
    BY MapsOfShape, BoundsAssumption
  <1>2. CASE r \in Ids(buffers)
    <2>1. Get(buffers, r) \in Entries(buffers) /\ Get(buffers, r).id = r
      BY <1>2, GetIsEntry
    <2>2. Get(buffers, r) \in Pieces
      BY <1>1, <2>1, EntriesOfSeq DEF Maps
    <2> QED BY <1>2, <2>1, <2>2 DEF Buffer, Weight
  <1>3. CASE r \notin Ids(buffers)
    BY <1>1, <1>3 DEF Buffer, Weight, Piece, Pieces, Size
  <1> QED BY <1>2, <1>3

\* A chunk that is not sent and not thrown away: the buffers `gone` become whole
\* bodies, and the chunk joins its buffer unless that is one of them.
Grown(r, n) == [Buffer(r) EXCEPT !.to = @ + n]
Chunked(r, n, gone) ==
    /\ Entries(gone) \subseteq Entries(buffers) \cup {Buffer(r)}
    /\ buffers' \in Maps /\ completed' \in Archives /\ held' = Bytes(buffers') /\ held' <= cap
    /\ Entries(completed') \subseteq Entries(completed) \cup {Dated(x) : x \in Entries(gone)}
    /\ dropped' = dropped \cup Ids(gone)
    /\ lost \subseteq lost' /\ lost' \subseteq Requests /\ Displaced(gone) \subseteq lost'
    /\ \A x \in Entries(buffers) : x.id \notin Ids(gone) \cup {r} => x \in Entries(buffers')
    /\ \A x \in Entries(buffers') :
         \/ x \in Entries(buffers) /\ x.id \notin Ids(gone) \cup {r}
         \/ x = Grown(r, n) /\ r \notin Ids(gone)
         \/ x.id = r /\ r \in lost'
    /\ IF r \in Ids(gone) THEN r \in lost' /\ pipe' = Append(pipe, Data(r, 0, 0, n))
                          ELSE Grown(r, n) \in Entries(buffers') /\ pipe' = pipe
    /\ UNCHANGED <<live, registered, mainSweep>>

\* One entry is a map.
LEMMA OneEntry ==
    ASSUME NEW e \in Pieces
    PROVE  <<e>> \in Maps /\ Entries(<<e>>) = {e} /\ Ids(<<e>>) = {e.id}
  <1>1. <<e>> \in Seq(Pieces) /\ DOMAIN <<e>> = {1} /\ <<e>>[1] = e
    OBVIOUS
  <1> QED BY <1>1 DEF Maps, Distinct, Entries, Ids

\* What is displaced are bodies of requests.
LEMMA DisplacedIsRequests ==
    ASSUME Shape, NEW gone \in Maps
    PROVE  Displaced(gone) \subseteq Requests
  <1>1. completed \in Maps /\ Ids(completed) \subseteq Requests /\ Ids(gone) \subseteq Requests
    BY MapsOfShape DEF Archives
  <1> QED BY <1>1 DEF Displaced, Ids

\* A chunk that exceeds the preview gives up the buffer it would go to.
LEMMA ExceedsChunks ==
    ASSUME Accounted, NEW r \in Requests, NEW n \in Nat, Exceeds(r, n, Buffer(r))
    PROVE  <<Buffer(r)>> \in Maps /\ Chunked(r, n, <<Buffer(r)>>)
  <1> DEFINE b == Buffer(r)
             cut == [b EXCEPT !.to = b.from]
  <1>1. buffers \in Maps /\ completed \in Archives /\ now \in Nat /\ held \in Nat /\ cap \in Nat
        /\ held = Bytes(buffers) /\ held <= cap /\ lost \subseteq Requests
    BY MapsOfShape DEF Accounted, BytesAccounted
  <1>2. b \in Pieces /\ b.id = r /\ Size(b) = Weight(buffers, r)
        /\ (r \in Ids(buffers) => b \in Entries(buffers))
    BY BufferOfChunk DEF Accounted
  <1>3. cut \in Pieces /\ cut.id = r /\ Size(cut) = 0
    BY <1>2 DEF Pieces, Size
  <1> HIDE DEF b, cut
  <1>4. /\ completed' = Completed(completed, b) /\ dropped' = dropped \cup {r}
        /\ lost' = lost \cup {r} \cup Displaced(<<b>>)
        /\ held' = held - Size(b) /\ buffers' = Put(buffers, cut)
        /\ pipe' = Append(pipe, Data(r, 0, 0, n)) /\ UNCHANGED <<live, registered, mainSweep>>
    BY DEF Exceeds, Drops, Send, b, cut
  <1>5. <<b>> \in Maps /\ Entries(<<b>>) = {b} /\ Ids(<<b>>) = {r}
    BY <1>2, OneEntry
  <1>6. buffers' \in Maps /\ Entries(buffers') = {x \in Entries(buffers) : x.id # r} \cup {cut}
    BY <1>1, <1>3, <1>4, PutReplaces
  <1>7. Bytes(buffers') = held'
    <2>1. Bytes(buffers') = Bytes(buffers) - Weight(buffers, r) + 0
      BY <1>1, <1>3, <1>4, BytesPut
    <2>2. Weight(buffers, r) \in Nat
      BY <1>1, BytesWithout
    <2> QED BY <1>1, <1>2, <1>4, <2>1, <2>2
  <1>8. held' <= cap
    <2>1. Weight(buffers, r) \in Nat
      BY <1>1, BytesWithout
    <2> QED BY <1>1, <1>2, <1>4, <2>1
  <1>9. completed' \in Archives /\ Entries(completed') \subseteq Entries(completed) \cup {Dated(b)}
    BY <1>1, <1>2, <1>4, CompletedAdds
  <1>10. Displaced(<<b>>) \subseteq Requests
    BY <1>5, DisplacedIsRequests DEF Accounted
  <1>11. Chunked(r, n, <<b>>)
    <2>1. Entries(<<b>>) \subseteq Entries(buffers) \cup {b}
      BY <1>5
    <2>2. Entries(completed') \subseteq Entries(completed) \cup {Dated(x) : x \in Entries(<<b>>)}
      BY <1>5, <1>9
    <2>3. lost \subseteq lost' /\ lost' \subseteq Requests /\ Displaced(<<b>>) \subseteq lost' /\ r \in lost'
      BY <1>1, <1>4, <1>10
    <2>4. \A x \in Entries(buffers') :
           \/ x \in Entries(buffers) /\ x.id \notin {r} \cup {r}
           \/ x.id = r /\ r \in lost'
      BY <1>3, <1>6, <2>3
    <2>5. \A x \in Entries(buffers) : x.id \notin {r} \cup {r} => x \in Entries(buffers')
      BY <1>6
    <2> QED BY <1>4, <1>5, <1>6, <1>7, <1>8, <1>9, <2>1, <2>2, <2>3, <2>4, <2>5 DEF Chunked, b
  <1> QED BY <1>5, <1>11 DEF b

\* The victims of the capacity are oldest buffers of other requests.
LEMMA VictimsAreOthers ==
    ASSUME NEW all \in Maps, NEW r, NEW n
    PROVE  Victims(all, r, n) \in Maps /\ Entries(Victims(all, r, n)) \subseteq {x \in Entries(all) : x.id # r}
  <1> DEFINE others == Evictable(all, r)
             enough == {k \in 0..Len(others) : held - Bytes(SubSeq(others, 1, k)) + n <= cap}
             fewest == IF enough = {} THEN Len(others) ELSE CHOOSE k \in enough : \A j \in enough : k <= j
  <1>1. others \in Maps /\ Entries(others) = {x \in Entries(all) : x.id # r}
    BY WithoutFilters DEF Evictable
  <1>2. Len(others) \in Nat
    BY <1>1, LenProperties DEF Maps
  <1>3. fewest \in 0..Len(others)
    <2>1. CASE enough = {}
      BY <1>2, <2>1
    <2>2. CASE enough # {}
      <3>1. enough \in SUBSET Nat /\ enough \subseteq 0..Len(others)
        BY <1>2
      <3> HIDE DEF enough
      <3>2. \E k \in enough : \A j \in enough : k <= j
        BY <2>2, <3>1, LeastNumber
      <3> QED BY <2>2, <3>1, <3>2
    <2> QED BY <2>1, <2>2
  <1>4. Victims(all, r, n) = SubSeq(others, 1, fewest)
    BY DEF Victims
  <1> HIDE DEF others, fewest
  <1>5. SubSeq(others, 1, fewest) \in Maps /\ Entries(SubSeq(others, 1, fewest)) \subseteq Entries(others)
    BY <1>1, <1>3, OldestOfMap
  <1> QED BY <1>1, <1>4, <1>5

\* A chunk that is kept, or is not for want of room, gives up the victims.
LEMMA BuffersChunks ==
    ASSUME Accounted, NEW r \in Requests, NEW n \in Nat, Buffers(r, n, Buffer(r))
    PROVE  \E gone \in Maps : Chunked(r, n, gone)
  <1> DEFINE b == Buffer(r)
             all == Put(buffers, b)
             victims == Victims(all, r, n)
             rest == Without(all, Ids(victims))
             fits == held - Bytes(victims) + n <= cap
             gone == IF fits THEN victims ELSE Append(victims, b)
  <1>1. buffers \in Maps /\ completed \in Archives /\ now \in Nat /\ held \in Nat /\ cap \in Nat
        /\ held = Bytes(buffers) /\ held <= cap /\ lost \subseteq Requests
    BY MapsOfShape DEF Accounted, BytesAccounted
  <1>2. b \in Pieces /\ b.id = r /\ Size(b) = Weight(buffers, r)
        /\ (r \in Ids(buffers) => b \in Entries(buffers))
    BY BufferOfChunk DEF Accounted
  <1>3. Weight(buffers, r) \in Nat /\ Weight(buffers, r) <= Bytes(buffers)
    BY <1>1, BytesWithout
  <1> HIDE DEF b
  <1>4. /\ completed' = AllCompleted(completed, gone) /\ dropped' = dropped \cup Ids(gone)
        /\ lost' = lost \cup (IF fits THEN {} ELSE {r}) \cup Displaced(gone)
        /\ IF fits
           THEN /\ buffers' = IF r \in Ids(rest) THEN Put(rest, [b EXCEPT !.to = @ + n]) ELSE rest
                /\ held' = held - Bytes(victims) + n
                /\ UNCHANGED pipe
           ELSE /\ buffers' = Without(rest, {r})
                /\ held' = held - Bytes(gone)
                /\ pipe' = Append(pipe, Data(r, 0, 0, n))
        /\ UNCHANGED <<live, registered, mainSweep>>
    BY DEF Buffers, Drops, Send, b
  <1>5. all \in Maps /\ Entries(all) = {x \in Entries(buffers) : x.id # r} \cup {b}
        /\ Bytes(all) = Bytes(buffers) - Weight(buffers, r) + Size(b)
    BY <1>1, <1>2, PutReplaces, BytesPut
  <1>6. Bytes(all) = held
    BY <1>1, <1>2, <1>3, <1>5
  <1>7. b \in Entries(all) /\ Get(all, r) = b /\ r \in Ids(all)
    BY <1>2, <1>5, GetIsUnique DEF Maps
  <1> HIDE DEF all
  <1>8. victims \in Maps /\ Entries(victims) \subseteq {x \in Entries(all) : x.id # r}
    BY <1>5, VictimsAreOthers
  <1> HIDE DEF victims
  <1>9. rest \in Maps /\ Entries(rest) = {x \in Entries(all) : x.id \notin Ids(victims)}
        /\ Ids(rest) = Ids(all) \ Ids(victims)
    BY <1>5, WithoutFilters
  <1>10. Bytes(rest) = held - Bytes(victims) /\ Bytes(victims) \in Nat /\ Bytes(victims) <= held
    BY <1>5, <1>6, <1>8, BytesOfPart
  <1>11. Ids(victims) = {x.id : x \in Entries(victims)}
    BY <1>8, EntriesOfSeq DEF Maps
  <1>12. r \notin Ids(victims)
    BY <1>8, <1>11
  <1>13. b \in Entries(rest) /\ r \in Ids(rest) /\ Get(rest, r) = b
    <2>1. b \in Entries(rest)
      BY <1>2, <1>7, <1>9, <1>12
    <2> QED BY <1>2, <1>9, <2>1, GetIsUnique DEF Maps
  <1> HIDE DEF rest
  <1>14. Weight(rest, r) = Size(b) /\ Size(b) \in Nat /\ Size(b) <= Bytes(rest)
    <2>1. Weight(rest, r) = Size(b)
      BY <1>13 DEF Weight
    <2> QED BY <1>9, <2>1, BytesWithout
  <1>15. CASE fits
    <2> DEFINE g == [b EXCEPT !.to = @ + n]
    <2>1. g \in Pieces /\ g.id = r /\ Size(g) = Size(b) + n
      BY <1>2 DEF Pieces, Size
    <2>2. g = Grown(r, n)
      BY DEF Grown, b
    <2> HIDE DEF g
    <2>3. gone = victims /\ buffers' = Put(rest, g) /\ held' = held - Bytes(victims) + n /\ pipe' = pipe
          /\ lost' = lost \cup Displaced(victims) /\ completed' = AllCompleted(completed, victims)
          /\ dropped' = dropped \cup Ids(victims)
      BY <1>4, <1>13, <1>15 DEF g
    <2>4. buffers' \in Maps /\ Entries(buffers') = {x \in Entries(rest) : x.id # r} \cup {g}
          /\ Bytes(buffers') = Bytes(rest) - Weight(rest, r) + Size(g)
      BY <1>9, <2>1, <2>3, PutReplaces, BytesPut
    <2>5. Bytes(buffers') = held' /\ held' <= cap
      BY <1>1, <1>10, <1>14, <1>15, <2>1, <2>3, <2>4
    <2>6. completed' \in Archives /\ Entries(completed') \subseteq Entries(completed) \cup {Dated(x) : x \in Entries(victims)}
      BY <1>1, <1>8, <2>3, AllCompletedAdds DEF Completes
    <2>7. Displaced(victims) \subseteq Requests
      BY <1>8, DisplacedIsRequests DEF Accounted
    <2>8. Entries(victims) \subseteq Entries(buffers) \cup {b}
      BY <1>5, <1>8
    <2>9. \A x \in Entries(buffers) : x.id \notin Ids(victims) \cup {r} => x \in Entries(buffers')
      BY <1>5, <1>9, <2>4
    <2>10. \A x \in Entries(buffers') :
             \/ x \in Entries(buffers) /\ x.id \notin Ids(victims) \cup {r}
             \/ x = Grown(r, n) /\ r \notin Ids(victims)
      <3> SUFFICES ASSUME NEW x \in Entries(buffers'), x # g
                   PROVE  x \in Entries(buffers) /\ x.id \notin Ids(victims) \cup {r}
        BY <1>12, <2>2
      <3>1. x \in Entries(all) /\ x.id \notin Ids(victims) /\ x.id # r
        BY <1>9, <2>4
      <3> QED BY <1>2, <1>5, <3>1
    <2>11. lost \subseteq lost' /\ lost' \subseteq Requests /\ Displaced(victims) \subseteq lost'
      BY <1>1, <2>3, <2>7
    <2>12. Grown(r, n) \in Entries(buffers')
      BY <2>2, <2>4
    <2>13. Chunked(r, n, victims)
      BY <1>4, <1>12, <2>3, <2>4, <2>5, <2>6, <2>8, <2>9, <2>10, <2>11, <2>12 DEF Chunked, b
    <2> QED BY <1>8, <2>13
  <1>16. CASE ~fits
    <2> DEFINE both == Append(victims, b)
    <2>1. both = Put(victims, b)
      BY <1>2, <1>12 DEF Put
    <2> HIDE DEF both
    <2>2. gone = both /\ buffers' = Without(rest, {r}) /\ held' = held - Bytes(both)
          /\ pipe' = Append(pipe, Data(r, 0, 0, n))
          /\ lost' = lost \cup {r} \cup Displaced(both) /\ completed' = AllCompleted(completed, both)
          /\ dropped' = dropped \cup Ids(both)
      BY <1>4, <1>16 DEF both
    <2>3. both \in Maps /\ Entries(both) = {x \in Entries(victims) : x.id # r} \cup {b}
          /\ Bytes(both) = Bytes(victims) - Weight(victims, r) + Size(b)
      BY <1>2, <1>8, <2>1, PutReplaces, BytesPut
    <2>4. Weight(victims, r) = 0
      BY <1>12 DEF Weight
    <2>5. Bytes(both) = Bytes(victims) + Size(b)
      BY <1>10, <1>14, <2>3, <2>4
    <2>6. buffers' \in Maps /\ Entries(buffers') = {x \in Entries(rest) : x.id # r}
          /\ Bytes(buffers') = Bytes(rest) - Weight(rest, r)
      BY <1>9, <2>2, WithoutFilters, BytesWithout
    <2>7. Bytes(buffers') = held' /\ held' <= cap
      BY <1>1, <1>10, <1>14, <2>2, <2>5, <2>6
    <2>8. completed' \in Archives /\ Entries(completed') \subseteq Entries(completed) \cup {Dated(x) : x \in Entries(both)}
      BY <1>1, <2>2, <2>3, AllCompletedAdds DEF Completes
    <2>9. Displaced(both) \subseteq Requests
      BY <2>3, DisplacedIsRequests DEF Accounted
    <2>10. Entries(both) \subseteq Entries(buffers) \cup {b}
      BY <1>5, <1>8, <2>3
    <2>11. Ids(both) = Ids(victims) \cup {r}
      <3>1. Ids(both) = {x.id : x \in Entries(both)}
        BY <2>3, EntriesOfSeq DEF Maps
      <3>2. Entries(both) = Entries(victims) \cup {b}
        BY <1>8, <2>3
      <3> QED BY <1>2, <1>11, <3>1, <3>2
    <2>12. \A x \in Entries(buffers) : x.id \notin Ids(both) \cup {r} => x \in Entries(buffers')
      BY <1>5, <1>9, <2>6, <2>11
    <2>13. \A x \in Entries(buffers') : x \in Entries(buffers) /\ x.id \notin Ids(both) \cup {r}
      BY <1>2, <1>5, <1>9, <2>6, <2>11
    <2>14. lost \subseteq lost' /\ lost' \subseteq Requests /\ Displaced(both) \subseteq lost' /\ r \in lost'
      BY <1>1, <2>2, <2>9
    <2>15. Chunked(r, n, both)
      BY <1>4, <2>2, <2>3, <2>6, <2>7, <2>8, <2>10, <2>11, <2>12, <2>13, <2>14 DEF Chunked, b
    <2> QED BY <2>3, <2>15
  <1> QED BY <1>15, <1>16

\* A request finishes: what the main thread keeps of it goes, and what a sweep
\* takes of others is lost.
Finished(r) ==
    /\ buffers' \in Maps /\ Entries(buffers') \subseteq {x \in Entries(buffers) : x.id # r}
    /\ completed' \in Archives /\ Entries(completed') \subseteq {x \in Entries(completed) : x.id # r}
    /\ held' = Bytes(buffers') /\ held' <= cap
    /\ live' \subseteq live \ {r} /\ dropped' \subseteq dropped \ {r}
    /\ registered' \in [Requests -> Nat] /\ registered'[r] = 0
    /\ \A x \in live' : registered'[x] = registered[x]
    /\ \A x \in Requests : registered'[x] # 0 =>
         registered'[x] = registered[x] /\ (x \in live => x \in live' \cup lost')
    /\ lost \subseteq lost' /\ lost' \subseteq Requests /\ mainSweep' \in Nat
    /\ \A x \in Requests \ ({r} \cup lost') :
         /\ x \in Ids(buffers) => x \in Ids(buffers')
         /\ x \in Ids(completed) => x \in Ids(completed')
         /\ x \in live => x \in live'
         /\ x \in dropped => x \in dropped' \/ (registered[x] # 0 /\ x \notin live)

\* A count that is lowered by the bytes of what went is that of what is left.
LEMMA LessIsAccounted ==
    ASSUME Accounted, NEW left \in Maps, NEW next, Entries(left) \subseteq Entries(buffers),
           next = held - (Bytes(buffers) - Bytes(left))
    PROVE  next = Bytes(left) /\ next <= cap
  <1>1. held = Bytes(buffers) /\ held <= cap /\ held \in Nat /\ cap \in Nat /\ buffers \in Maps
    BY MapsOfShape DEF Accounted, BytesAccounted
  <1>2. Bytes(left) \in Nat /\ Bytes(left) <= Bytes(buffers)
    BY <1>1, BytesOfPart
  <1> QED BY <1>1, <1>2

\* Finish takes the request out of every map, and whatever the sweep finds old.
LEMMA FinishFinishes ==
    ASSUME Accounted, NEW r \in Requests, Finish(r)
    PROVE  Finished(r)
  <1> DEFINE bufs == Without(buffers, {r})
             comp == Without(completed, {r})
             others == Requests \ {r}
  <1>1. buffers \in Maps /\ completed \in Maps /\ completed \in Archives /\ now \in Nat
        /\ live \subseteq Requests /\ dropped \subseteq Requests /\ lost \subseteq Requests
        /\ registered \in [Requests -> Nat] /\ mainSweep \in Nat
    BY MapsOfShape DEF Accounted, Archives
  <1>2. bufs \in Maps /\ Entries(bufs) = {x \in Entries(buffers) : x.id # r} /\ Ids(bufs) = Ids(buffers) \ {r}
    BY <1>1, WithoutFilters
  <1>3. comp \in Maps /\ Entries(comp) = {x \in Entries(completed) : x.id # r} /\ Ids(comp) = Ids(completed) \ {r}
        /\ Len(comp) <= Len(completed)
    BY <1>1, WithoutFilters
  <1>4. comp \in Archives
    <2>1. Len(comp) \in Nat /\ Len(completed) \in Nat /\ Len(completed) <= MaxCompleted /\ MaxCompleted \in Nat
      BY <1>1, <1>3, LenProperties, LimitsAssumption DEF Maps, Archives
    <2> QED BY <1>3, <2>1 DEF Archives
  <1>5. IF now - mainSweep < Interval THEN NoSweep(bufs, comp, others) ELSE Sweep(bufs, comp, others)
    BY DEF Finish
  <1>6. CASE NoSweep(bufs, comp, others)
    <2>1. /\ buffers' = bufs /\ completed' = comp /\ held' = held - (Bytes(buffers) - Bytes(bufs))
          /\ live' = live \cap others /\ dropped' = dropped \cap others
          /\ registered' = [x \in Requests |-> IF x \in others THEN registered[x] ELSE 0]
          /\ mainSweep' = mainSweep /\ lost' = lost
      BY <1>6 DEF NoSweep
    <2> HIDE DEF bufs, comp
    <2>2. held' = Bytes(bufs) /\ held' <= cap
      BY <1>2, <2>1, LessIsAccounted
    <2> QED BY <1>1, <1>2, <1>3, <1>4, <2>1, <2>2 DEF Finished
  <1>7. CASE Sweep(bufs, comp, others)
    <2>1. \E old \in SUBSET Ids(bufs), ends \in SUBSET others, aged \in SUBSET Ids(comp) :
            /\ \A x \in ends : registered[x] # 0
            /\ buffers' = Without(bufs, old) /\ held' = held - (Bytes(buffers) - Bytes(Without(bufs, old)))
            /\ completed' = Without(comp, aged)
            /\ live' = (live \cap others) \ (old \cup ends)
            /\ dropped' = (dropped \cap others) \ (old \cup ends)
            /\ registered' = [x \in Requests |-> IF x \in others \ ends THEN registered[x] ELSE 0]
            /\ lost' = lost \cup old \cup aged \cup (ends \cap live)
            /\ mainSweep' = now
      <3> HIDE DEF bufs, comp, others
      <3> DEFINE old == {x \in Ids(bufs) : LET e == Get(bufs, x)
                                           IN Old(e.at, Stale) \/ (Size(e) = 0 /\ Old(e.at, Interval))}
                 ends == {x \in others : /\ registered[x] # 0 /\ Old(registered[x], Stale)
                                         /\ x \notin Ids(Without(bufs, old))}
                 aged == {x \in Ids(comp) : Old(Get(comp, x).at, Stale)}
      <3>1. old \in SUBSET Ids(bufs) /\ ends \in SUBSET others /\ aged \in SUBSET Ids(comp)
            /\ \A x \in ends : registered[x] # 0
        OBVIOUS
      <3>2. /\ buffers' = Without(bufs, old) /\ held' = held - (Bytes(buffers) - Bytes(Without(bufs, old)))
            /\ completed' = Without(comp, aged)
            /\ live' = (live \cap others) \ (old \cup ends)
            /\ dropped' = (dropped \cap others) \ (old \cup ends)
            /\ registered' = [x \in Requests |-> IF x \in others \ ends THEN registered[x] ELSE 0]
            /\ lost' = lost \cup old \cup aged \cup (ends \cap live)
            /\ mainSweep' = now
        BY <1>7 DEF Sweep
      <3> HIDE DEF old, ends, aged
      <3> QED BY <3>1, <3>2
    <2>2. PICK old \in SUBSET Ids(bufs) : \E ends \in SUBSET others, aged \in SUBSET Ids(comp) :
            /\ \A x \in ends : registered[x] # 0
            /\ buffers' = Without(bufs, old) /\ held' = held - (Bytes(buffers) - Bytes(Without(bufs, old)))
            /\ completed' = Without(comp, aged)
            /\ live' = (live \cap others) \ (old \cup ends)
            /\ dropped' = (dropped \cap others) \ (old \cup ends)
            /\ registered' = [x \in Requests |-> IF x \in others \ ends THEN registered[x] ELSE 0]
            /\ lost' = lost \cup old \cup aged \cup (ends \cap live)
            /\ mainSweep' = now
      BY <2>1
    <2>3. PICK ends \in SUBSET others : \E aged \in SUBSET Ids(comp) :
            /\ \A x \in ends : registered[x] # 0
            /\ buffers' = Without(bufs, old) /\ held' = held - (Bytes(buffers) - Bytes(Without(bufs, old)))
            /\ completed' = Without(comp, aged)
            /\ live' = (live \cap others) \ (old \cup ends)
            /\ dropped' = (dropped \cap others) \ (old \cup ends)
            /\ registered' = [x \in Requests |-> IF x \in others \ ends THEN registered[x] ELSE 0]
            /\ lost' = lost \cup old \cup aged \cup (ends \cap live)
            /\ mainSweep' = now
      BY <2>2
    <2>4. PICK aged \in SUBSET Ids(comp) :
            /\ \A x \in ends : registered[x] # 0
            /\ buffers' = Without(bufs, old) /\ held' = held - (Bytes(buffers) - Bytes(Without(bufs, old)))
            /\ completed' = Without(comp, aged)
            /\ live' = (live \cap others) \ (old \cup ends)
            /\ dropped' = (dropped \cap others) \ (old \cup ends)
            /\ registered' = [x \in Requests |-> IF x \in others \ ends THEN registered[x] ELSE 0]
            /\ lost' = lost \cup old \cup aged \cup (ends \cap live)
            /\ mainSweep' = now
      BY <2>3
    <2> HIDE DEF bufs, comp
    <2>5. /\ buffers' \in Maps /\ Entries(buffers') = {x \in Entries(bufs) : x.id \notin old}
          /\ Ids(buffers') = Ids(bufs) \ old
      BY <1>2, <2>4, WithoutFilters
    <2>6. /\ completed' \in Maps /\ Entries(completed') = {x \in Entries(comp) : x.id \notin aged}
          /\ Ids(completed') = Ids(comp) \ aged /\ Len(completed') <= Len(comp)
      BY <1>3, <2>4, WithoutFilters
    <2>7. completed' \in Archives
      <3>1. Len(completed') \in Nat /\ Len(comp) \in Nat /\ Len(comp) <= MaxCompleted /\ MaxCompleted \in Nat
        BY <1>4, <2>6, LenProperties, LimitsAssumption DEF Maps, Archives
      <3> QED BY <2>6, <3>1 DEF Archives
    <2>8. held' = Bytes(buffers') /\ held' <= cap
      <3>1. Entries(buffers') \subseteq Entries(buffers) /\ held' = held - (Bytes(buffers) - Bytes(buffers'))
        BY <1>2, <2>4, <2>5
      <3> QED BY <2>5, <3>1, LessIsAccounted
    <2>9. Ids(buffers) \subseteq Requests /\ Ids(completed) \subseteq Requests
      BY <1>1, MapsOfShape DEF Accounted
    <2>10. lost \subseteq lost' /\ lost' \subseteq Requests /\ mainSweep' \in Nat
      BY <1>1, <1>2, <1>3, <2>4, <2>9
    <2>11. /\ Entries(buffers') \subseteq {x \in Entries(buffers) : x.id # r}
           /\ Entries(completed') \subseteq {x \in Entries(completed) : x.id # r}
      BY <1>2, <1>3, <2>5, <2>6
    <2>12. /\ live' \subseteq live \ {r} /\ dropped' \subseteq dropped \ {r}
           /\ registered' \in [Requests -> Nat] /\ registered'[r] = 0
           /\ \A x \in live' : registered'[x] = registered[x]
      BY <1>1, <2>4
    <2>13. ASSUME NEW x \in Requests, registered'[x] # 0
           PROVE  registered'[x] = registered[x] /\ (x \in live => x \in live' \cup lost')
      BY <1>1, <2>4, <2>13
    <2>14. ASSUME NEW x \in Requests \ ({r} \cup lost')
           PROVE  /\ x \in Ids(buffers) => x \in Ids(buffers')
                  /\ x \in Ids(completed) => x \in Ids(completed')
                  /\ x \in live => x \in live'
                  /\ x \in dropped => x \in dropped' \/ (registered[x] # 0 /\ x \notin live)
      BY <1>2, <1>3, <2>4, <2>5, <2>6
    <2> QED BY <2>5, <2>7, <2>8, <2>10, <2>11, <2>12, <2>13, <2>14 DEF Finished
  <1> QED BY <1>5, <1>6, <1>7

\* A request is streamed from now on: what the main thread kept of it is sent.
Handed(r) ==
    /\ buffers' \in Maps /\ Entries(buffers') = {x \in Entries(buffers) : x.id # r}
    /\ completed' \in Archives /\ Entries(completed') = {x \in Entries(completed) : x.id # r}
    /\ held' = Bytes(buffers') /\ held' <= cap
    /\ live' = live \cup {r} /\ dropped' = dropped \ {r}
    /\ registered' = [registered EXCEPT ![r] = now]
    /\ pipe' = Append(pipe, [kind |-> "reply", id |-> r, from |-> Taken(r).from, to |-> Taken(r).to])
    /\ calls' = Tail(calls) /\ UNCHANGED <<mainSweep, lost>>

\* A stream starts with what there was of the body, which the maps lose.
LEMMA StartStreamingHands ==
    ASSUME Accounted, StartStreaming
    PROVE  calls # <<>> /\ Head(calls) \in Requests /\ Handed(Head(calls))
  <1>1. calls # <<>> /\ calls \in Seq(Requests)
    BY DEF StartStreaming, Accounted, Shape, TypeOK
  <1>2. Head(calls) \in Requests
    BY <1>1, HeadTailProperties
  <1>3. PICK r \in Requests : r = Head(calls)
    BY <1>2
  <1>4. buffers \in Maps /\ completed \in Maps /\ completed \in Archives /\ held \in Nat /\ cap \in Nat
        /\ held = Bytes(buffers) /\ held <= cap
    BY MapsOfShape DEF Accounted, Archives, BytesAccounted
  <1>5. /\ completed' = Without(completed, {r}) /\ buffers' = Without(buffers, {r})
        /\ held' = (IF r \in Ids(buffers) THEN held - Size(Get(buffers, r)) ELSE held)
        /\ pipe' = Append(pipe, [kind |-> "reply", id |-> r, from |-> Taken(r).from, to |-> Taken(r).to])
        /\ live' = live \cup {r} /\ dropped' = dropped \ {r}
        /\ registered' = [registered EXCEPT ![r] = now] /\ calls' = Tail(calls)
        /\ UNCHANGED <<mainSweep, lost>>
    BY <1>3 DEF StartStreaming, Send, Registers
  <1>6. buffers' \in Maps /\ Entries(buffers') = {x \in Entries(buffers) : x.id # r}
    BY <1>4, <1>5, WithoutFilters
  <1>7. completed' \in Maps /\ Entries(completed') = {x \in Entries(completed) : x.id # r}
        /\ Len(completed') <= Len(completed)
    BY <1>4, <1>5, WithoutFilters
  <1>8. completed' \in Archives
    <2>1. Len(completed') \in Nat /\ Len(completed) \in Nat /\ Len(completed) <= MaxCompleted /\ MaxCompleted \in Nat
      BY <1>4, <1>7, LenProperties, LimitsAssumption DEF Maps, Archives
    <2> QED BY <1>7, <2>1 DEF Archives
  <1>9. held' = Bytes(buffers') /\ held' <= cap
    <2>1. /\ Bytes(buffers') = Bytes(buffers) - Weight(buffers, r)
          /\ Weight(buffers, r) \in Nat
      BY <1>4, <1>5, BytesWithout
    <2>2. CASE r \in Ids(buffers)
      BY <1>4, <1>5, <2>1, <2>2 DEF Weight
    <2>3. CASE r \notin Ids(buffers)
      BY <1>4, <1>5, <2>1, <2>3 DEF Weight
    <2> QED BY <2>2, <2>3
  <1>10. Handed(r)
    BY <1>5, <1>6, <1>7, <1>8, <1>9 DEF Handed
  <1> QED BY <1>1, <1>3, <1>10

\* What is handed over, if something is kept, is an entry of a map.
LEMMA TakenIsPiece ==
    ASSUME Shape, NEW r \in Requests
    PROVE  /\ Taken(r) \in Pieces
           /\ Taken(r) = IF r \in Ids(completed) THEN Get(completed, r)
                         ELSE IF r \in Ids(buffers) THEN Get(buffers, r) ELSE Piece(r, 0, 0, now)
  <1>1. buffers \in Maps /\ completed \in Maps /\ now \in Nat
    BY MapsOfShape DEF Archives
  <1>2. ASSUME NEW map \in Maps, r \in Ids(map) PROVE Get(map, r) \in Pieces
    BY <1>2, GetIsEntry, EntriesOfSeq DEF Maps
  <1>3. Piece(r, 0, 0, now) \in Pieces
    BY <1>1 DEF Piece, Pieces
  <1> QED BY <1>1, <1>2, <1>3 DEF Taken

-----------------------------------------------------------------------------
(* Types and the count of bytes.                                           *)

ClockOK ==
    /\ cap \in Caps /\ now \in Nat /\ commands \in 0..MaxCommands
    /\ fetch \in [Requests -> [phase : {"new", "open", "done"}, body : 0..MaxBody]]
MainOK ==
    /\ buffers \in Maps /\ completed \in Archives /\ held = Bytes(buffers) /\ held <= cap
    /\ live \subseteq Requests /\ dropped \subseteq Requests /\ lost \subseteq Requests
    /\ registered \in [Requests -> Nat] /\ mainSweep \in Nat
PipeOK == pipe \in Seq(Messages) /\ Len(pipe) <= MaxPipe
CallsOK == calls \in Seq(Requests)
KnownOK ==
    /\ workSweep \in Nat /\ lastSeen \in [Requests -> Nat]
    /\ announced \subseteq Requests /\ streamed \subseteq Requests
    /\ pending \in [Requests -> {"none", "live", "open", "cut"}]
CacheOK == cache \in Seq(Bodies) /\ Len(cache) <= MaxCached
ClientOK ==
    /\ enabled \in BOOLEAN /\ seen \in [Requests -> {"none", "sent", "over", "stray"}]
    /\ stream \in [Requests -> [on : BOOLEAN, from : Nat, to : Nat, gap : BOOLEAN]]

\* The types and the count of bytes, in the groups the operations change together.
LEMMA Parts ==
    Accounted <=> ClockOK /\ MainOK /\ PipeOK /\ CallsOK /\ KnownOK /\ CacheOK /\ ClientOK
  <1>1. Accounted <=> Shape /\ held = Bytes(buffers) /\ held <= cap
    BY DEF Accounted, BytesAccounted
  <1>2. buffers \in Maps => (held = Bytes(buffers) => held \in Nat)
    BY AreaFinite
  <1>3. Shape <=> /\ ClockOK /\ PipeOK /\ CallsOK /\ KnownOK /\ CacheOK /\ ClientOK
                  /\ buffers \in Maps /\ completed \in Archives /\ held \in Nat
                  /\ live \subseteq Requests /\ dropped \subseteq Requests /\ lost \subseteq Requests
                  /\ registered \in [Requests -> Nat] /\ mainSweep \in Nat
    BY DEF Shape, TypeOK, ClockOK, PipeOK, CallsOK, KnownOK, CacheOK, ClientOK, Maps, Archives
  <1> QED BY <1>1, <1>2, <1>3 DEF MainOK

\* The same in the next state.
LEMMA PartsNext ==
    Accounted' <=> ClockOK' /\ MainOK' /\ PipeOK' /\ CallsOK' /\ KnownOK' /\ CacheOK' /\ ClientOK'
  BY Parts, PTL

\* The messages are of their kinds.
LEMMA MessageKinds ==
    ASSUME NEW r \in Requests, now \in Nat
    PROVE  /\ [kind |-> "request", id |-> r, at |-> now] \in Messages
           /\ \A a, b, n \in Nat : Data(r, a, b, n) \in Messages
           /\ \A bodies \in SUBSET Pieces : [kind |-> "done", id |-> r, at |-> now, body |-> bodies] \in Messages
           /\ \A a, b \in Nat : [kind |-> "reply", id |-> r, from |-> a, to |-> b] \in Messages
  BY DEF Messages, Data

\* The fields of a message.
LEMMA MessageParts ==
    ASSUME NEW m \in Messages
    PROVE  /\ m.id \in Requests
           /\ m.kind \in {"request", "data", "done", "reply"}
           /\ m.kind = "request" => m.at \in Nat
           /\ m.kind = "data" => m.at \in Nat /\ m.from \in Nat /\ m.to \in Nat /\ m.size \in Nat
           /\ m.kind = "done" => m.at \in Nat /\ m.body \subseteq Pieces
           /\ m.kind = "reply" => m.from \in Nat /\ m.to \in Nat
  BY DEF Messages

\* A message is sent when there is room for it.
LEMMA SendTyped ==
    ASSUME PipeOK, NEW m \in Messages, Len(pipe) < MaxPipe, pipe' = Append(pipe, m)
    PROVE  PipeOK'
  <1>1. Append(pipe, m) \in Seq(Messages) /\ Len(Append(pipe, m)) = Len(pipe) + 1 /\ Len(pipe) \in Nat
    BY AppendProperties, LenProperties DEF PipeOK
  <1> QED BY <1>1, BoundsAssumption DEF PipeOK

\* What ChunkTyped and others need of a chunk.
LEMMA ChunkCases ==
    ASSUME Accounted, NEW r \in Requests, NEW n \in Nat, Chunk(r, n)
    PROVE  \/ Streams(r, n)
           \/ Discards(r, n)
           \/ r \notin live \cup dropped /\ \E gone \in Maps : Chunked(r, n, gone)
  <1>1. Streams(r, n) \/ Discards(r, n) \/ Exceeds(r, n, Buffer(r)) \/ Buffers(r, n, Buffer(r))
    BY DEF Chunk, Buffer
  <1>2. CASE Exceeds(r, n, Buffer(r))
    BY <1>2, ExceedsChunks DEF Exceeds
  <1>3. CASE Buffers(r, n, Buffer(r))
    BY <1>3, BuffersChunks DEF Buffers
  <1> QED BY <1>1, <1>2, <1>3

\* The operations of the main thread keep the types and the count.
LEMMA ChunkTyped ==
    ASSUME Accounted, NEW r \in Requests, NEW n \in 1..2, Chunk(r, n)
    PROVE  Accounted'
  <1>1. ClockOK /\ MainOK /\ PipeOK /\ CallsOK /\ KnownOK /\ CacheOK /\ ClientOK
    BY Parts
  <1>2. now \in Nat /\ fetch[r].body \in Nat /\ fetch[r].body + n \in 0..MaxBody /\ n \in Nat
    BY <1>1, BoundsAssumption DEF ClockOK, Chunk
  <1>3. ClockOK' /\ CallsOK' /\ KnownOK' /\ CacheOK' /\ ClientOK'
    <2>1. fetch' = [fetch EXCEPT ![r].body = @ + n] /\ UNCHANGED <<cap, now, calls, enabled, workVars, clientVars, commands>>
      BY DEF Chunk
    <2>2. fetch' \in [Requests -> [phase : {"new", "open", "done"}, body : 0..MaxBody]]
      BY <1>1, <1>2, <2>1 DEF ClockOK
    <2> QED BY <1>1, <2>1, <2>2 DEF ClockOK, CallsOK, KnownOK, CacheOK, ClientOK, workVars, clientVars
  <1>4. Len(pipe) < MaxPipe
    BY DEF Chunk
  <1>5. cap' = cap
    BY DEF Chunk
  <1>6. CASE Streams(r, n)
    <2>1. pipe' = Append(pipe, Data(r, fetch[r].body, fetch[r].body + n, n)) /\ UNCHANGED mainVars
      BY <1>6 DEF Streams, Send
    <2>2. PipeOK'
      <3>1. PICK to \in Nat : to = fetch[r].body + n
        BY <1>2
      <3>2. Data(r, fetch[r].body, to, n) \in Messages
        BY <1>2, MessageKinds
      <3> QED BY <1>1, <1>4, <2>1, <3>1, <3>2, SendTyped
    <2>3. MainOK'
      BY <1>1, <1>5, <2>1 DEF MainOK, mainVars, Bytes, BytesOf, Archives, Maps
    <2> QED BY <1>3, <2>2, <2>3, PartsNext
  <1>7. CASE Discards(r, n)
    <2>1. pipe' = Append(pipe, Data(r, 0, 0, n)) /\ lost' = lost \cup {r}
          /\ UNCHANGED <<buffers, held, completed, live, dropped, registered, mainSweep>>
      BY <1>7 DEF Discards, Send
    <2>2. PipeOK'
      BY <1>1, <1>2, <1>4, <2>1, MessageKinds, SendTyped
    <2>3. MainOK'
      BY <1>1, <1>5, <2>1 DEF MainOK
    <2> QED BY <1>3, <2>2, <2>3, PartsNext
  <1>8. CASE \E gone \in Maps : Chunked(r, n, gone)
    <2>1. PICK gone \in Maps : Chunked(r, n, gone)
      BY <1>8
    <2>2. PipeOK'
      <3>1. CASE pipe' = pipe
        BY <1>1, <3>1 DEF PipeOK
      <3>2. CASE pipe' = Append(pipe, Data(r, 0, 0, n))
        BY <1>1, <1>2, <1>4, <3>2, MessageKinds, SendTyped
      <3> QED BY <2>1, <3>1, <3>2 DEF Chunked
    <2>3. dropped' \subseteq Requests
      <3>1. Ids(gone) \subseteq Requests
        BY MapsOfShape DEF Accounted
      <3> QED BY <1>1, <2>1, <3>1 DEF Chunked, MainOK
    <2>4. MainOK'
      BY <1>1, <1>5, <2>1, <2>3 DEF Chunked, MainOK
    <2> QED BY <1>3, <2>2, <2>4, PartsNext
  <1> QED BY <1>2, <1>6, <1>7, <1>8, ChunkCases

\* A request begins.
LEMMA BeginTyped ==
    ASSUME Accounted, NEW r \in Requests, Begin(r)
    PROVE  Accounted'
  <1>1. ClockOK /\ MainOK /\ PipeOK /\ CallsOK /\ KnownOK /\ CacheOK /\ ClientOK
    BY Parts
  <1>2. /\ fetch' = [fetch EXCEPT ![r].phase = "open"] /\ Len(pipe) < MaxPipe
        /\ pipe' = Append(pipe, [kind |-> "request", id |-> r, at |-> now])
        /\ UNCHANGED <<cap, now, mainVars, calls, enabled, workVars, clientVars, commands>>
    BY DEF Begin, Send
  <1>3. now \in Nat
    BY <1>1 DEF ClockOK
  <1>4. PipeOK'
    BY <1>1, <1>2, <1>3, MessageKinds, SendTyped
  <1>5. ClockOK'
    BY <1>1, <1>2 DEF ClockOK
  <1>6. MainOK'
    BY <1>1, <1>2 DEF MainOK, mainVars
  <1>7. CallsOK' /\ KnownOK' /\ CacheOK' /\ ClientOK'
    BY <1>1, <1>2 DEF CallsOK, KnownOK, CacheOK, ClientOK, workVars, clientVars
  <1> QED BY <1>4, <1>5, <1>6, <1>7, PartsNext

\* What the Done event carries was kept.
LEMMA BodyIsPieces ==
    ASSUME Shape, NEW r \in Requests
    PROVE  Body(r) \in SUBSET Pieces
  <1>1. buffers \in Maps /\ completed \in Maps
    BY MapsOfShape DEF Archives
  <1>2. CASE r \in Ids(completed)
    <2>1. Get(completed, r) \in Pieces
      BY <1>1, <1>2, GetIsEntry, EntriesOfSeq DEF Maps
    <2> QED BY <1>2, <2>1 DEF Body
  <1>3. CASE r \notin Ids(completed)
    <2>1. {buffers[i] : i \in DOMAIN buffers} \subseteq Pieces
      BY <1>1, EntriesOfSeq DEF Maps, Entries
    <2> QED BY <1>3, <2>1 DEF Body
  <1> QED BY <1>2, <1>3

\* A request finishes.
LEMMA FinishTyped ==
    ASSUME Accounted, NEW r \in Requests, Finish(r)
    PROVE  Accounted'
  <1>1. ClockOK /\ MainOK /\ PipeOK /\ CallsOK /\ KnownOK /\ CacheOK /\ ClientOK
    BY Parts
  <1>2. /\ fetch' = [fetch EXCEPT ![r].phase = "done"] /\ Len(pipe) < MaxPipe
        /\ pipe' = Append(pipe, [kind |-> "done", id |-> r, at |-> now, body |-> Body(r)])
        /\ UNCHANGED <<cap, now, calls, enabled, workVars, clientVars, commands>>
    BY DEF Finish, Send
  <1>3. now \in Nat
    BY <1>1 DEF ClockOK
  <1>4. PipeOK'
    <2>1. Body(r) \in SUBSET Pieces
      BY BodyIsPieces DEF Accounted
    <2> QED BY <1>1, <1>2, <1>3, <2>1, MessageKinds, SendTyped
  <1>5. ClockOK'
    BY <1>1, <1>2 DEF ClockOK
  <1>6. MainOK'
    <2>1. Finished(r)
      BY FinishFinishes
    <2> QED BY <1>1, <1>2, <2>1 DEF MainOK, Finished
  <1>7. CallsOK' /\ KnownOK' /\ CacheOK' /\ ClientOK'
    BY <1>1, <1>2 DEF CallsOK, KnownOK, CacheOK, ClientOK, workVars, clientVars
  <1> QED BY <1>4, <1>5, <1>6, <1>7, PartsNext

\* A stream starts.
LEMMA StartStreamingTyped ==
    ASSUME Accounted, StartStreaming
    PROVE  Accounted'
  <1>1. ClockOK /\ MainOK /\ PipeOK /\ CallsOK /\ KnownOK /\ CacheOK /\ ClientOK
    BY Parts
  <1>2. PICK r \in Requests : r = Head(calls) /\ calls # <<>> /\ Handed(r)
    BY StartStreamingHands
  <1>3. Len(pipe) < MaxPipe /\ UNCHANGED <<cap, now, fetch, enabled, workVars, clientVars, commands>>
    BY DEF StartStreaming
  <1>4. PipeOK'
    <2>1. Taken(r).from \in Nat /\ Taken(r).to \in Nat /\ now \in Nat
      BY <1>1, TakenIsPiece DEF Accounted, Pieces, ClockOK
    <2> QED BY <1>1, <1>2, <1>3, <2>1, MessageKinds, SendTyped DEF Handed
  <1>5. CallsOK'
    <2>1. Tail(calls) \in Seq(Requests)
      BY <1>1, <1>2, HeadTailProperties DEF CallsOK
    <2> QED BY <1>2, <2>1 DEF Handed, CallsOK
  <1>6. MainOK'
    <2>1. now \in Nat
      BY <1>1 DEF ClockOK
    <2>2. registered' \in [Requests -> Nat]
      BY <1>1, <1>2, <2>1 DEF Handed, MainOK
    <2> QED BY <1>1, <1>2, <1>3, <2>2 DEF Handed, MainOK
  <1>7. ClockOK' /\ KnownOK' /\ CacheOK' /\ ClientOK'
    BY <1>1, <1>3 DEF ClockOK, KnownOK, CacheOK, ClientOK, workVars, clientVars
  <1> QED BY <1>4, <1>5, <1>6, <1>7, PartsNext

-----------------------------------------------------------------------------
(* The worker.                                                             *)

\* A message that is taken from the pipe.
LEMMA Taking ==
    ASSUME Accounted, Receive
    PROVE  /\ pipe # <<>> /\ Head(pipe) \in Messages /\ pipe' = Tail(pipe) /\ PipeOK'
           /\ UNCHANGED <<cap, now, fetch, mainVars, calls, enabled, commands>>
           /\ \/ Head(pipe).kind = "reply" /\ OnReply(Head(pipe))
              \/ Head(pipe).kind # "reply" /\ ~enabled /\ UNCHANGED <<workVars, clientVars>>
              \/ Head(pipe).kind = "request" /\ enabled /\ OnRequest(Head(pipe))
              \/ Head(pipe).kind = "data" /\ enabled /\ OnData(Head(pipe))
              \/ Head(pipe).kind = "done" /\ enabled /\ OnDone(Head(pipe))
  <1>1. pipe \in Seq(Messages) /\ Len(pipe) <= MaxPipe /\ pipe # <<>> /\ pipe' = Tail(pipe)
    BY Parts DEF PipeOK, Receive
  <1>2. Head(pipe) \in Messages /\ Tail(pipe) \in Seq(Messages) /\ Len(Tail(pipe)) = Len(pipe) - 1 /\ Len(pipe) \in Nat
    BY <1>1, HeadTailProperties, LenProperties
  <1>3. PipeOK'
    BY <1>1, <1>2, BoundsAssumption DEF PipeOK
  <1>4. PICK m \in Messages : m = Head(pipe)
    BY <1>2
  <1>5. m.kind \in {"request", "data", "done", "reply"}
    BY MessageParts
  <1>6. IF m.kind = "reply" THEN OnReply(m)
        ELSE IF ~enabled THEN UNCHANGED <<workVars, clientVars>>
        ELSE CASE m.kind = "request" -> OnRequest(m)
               [] m.kind = "data" -> OnData(m)
               [] m.kind = "done" -> OnDone(m)
    BY <1>4 DEF Receive
  <1>7. \/ m.kind = "reply" /\ OnReply(m)
        \/ m.kind # "reply" /\ ~enabled /\ UNCHANGED <<workVars, clientVars>>
        \/ m.kind = "request" /\ enabled /\ OnRequest(m)
        \/ m.kind = "data" /\ enabled /\ OnData(m)
        \/ m.kind = "done" /\ enabled /\ OnDone(m)
    BY <1>5, <1>6
  <1> QED BY <1>1, <1>2, <1>3, <1>4, <1>7 DEF Receive

\* The maps keyed by request, after cleanupStaleEntries.
LEMMA KeepTyped ==
    ASSUME NEW ann, NEW heard, NEW pend, NEW strm, NEW gone, NEW t \in Nat,
           ann \subseteq Requests, strm \subseteq Requests,
           heard \in [Requests -> Nat], pend \in [Requests -> {"none", "live", "open", "cut"}],
           workSweep \in Nat, Keep(ann, heard, pend, strm, gone), workSweep' = SweepTime(t)
    PROVE  KnownOK'
  BY DEF Keep, KnownOK, SweepTime

\* The cache takes an entry, and forgets older ones.
LEMMA CachedAdds ==
    ASSUME CacheOK, NEW e \in Bodies
    PROVE  /\ Cached(cache, e) \in Seq(Bodies) /\ Len(Cached(cache, e)) <= MaxCached
           /\ Entries(Cached(cache, e)) \subseteq Entries(cache) \cup {e}
  <1> DEFINE fits(rest) == Len(rest) < MaxCached /\ (e.cut \/ Bytes(rest) + Size(e) <= Preview)
             enough == {j \in 0..Len(cache) : j = Len(cache) \/ fits(SubSeq(cache, j + 1, Len(cache)))}
             fewest == CHOOSE j \in enough : \A i \in enough : j <= i
  <1>1. cache \in Seq(Bodies) /\ Len(cache) \in Nat /\ Len(cache) <= MaxCached
        /\ MaxCached \in Nat \ {0} /\ DOMAIN cache = 1..Len(cache)
        /\ \A i \in 1..Len(cache) : cache[i] \in Bodies
    BY LenProperties, ElementOfSeq, LimitsAssumption DEF CacheOK
  <1>2. fewest \in enough
    <2>1. enough \in SUBSET Nat /\ Len(cache) \in enough
      BY <1>1
    <2> HIDE DEF enough
    <2>2. \E j \in enough : \A i \in enough : j <= i
      BY <2>1, LeastNumber
    <2> QED BY <2>2
  <1>3. PICK k \in 0..Len(cache) : k = fewest
    BY <1>2
  <1> DEFINE left == SubSeq(cache, k + 1, Len(cache))
  <1>4. Cached(cache, e) = Append(left, e)
    BY <1>3 DEF Cached
  <1>5. k = Len(cache) \/ Len(left) < MaxCached
    BY <1>2, <1>3
  <1> HIDE DEF left, fewest, enough
  <1>6. \A i \in (k + 1)..Len(cache) : i \in DOMAIN cache /\ cache[i] \in Bodies
    BY <1>1
  <1>7. k + 1 \in Int /\ Len(cache) \in Int
    BY <1>1
  <1>8. /\ left \in Seq(Bodies) /\ Len(left) = IF k + 1 <= Len(cache) THEN Len(cache) - (k + 1) + 1 ELSE 0
        /\ \A i \in 1..(Len(cache) - (k + 1) + 1) : left[i] = cache[(k + 1) + i - 1]
    BY <1>6, <1>7, SubSeqProperties DEF left
  <1>9. DOMAIN left = 1..Len(left) /\ Len(left) \in Nat
    BY <1>8, LenProperties
  <1>10. Entries(left) \subseteq Entries(cache)
    <2> SUFFICES ASSUME NEW i \in DOMAIN left PROVE left[i] \in Entries(cache)
      BY DEF Entries
    <2>1. PICK n \in Nat : n = Len(cache)
      BY <1>1
    <2>2. PICK m \in Nat : m = Len(left)
      BY <1>9
    <2>3. i \in 1..m /\ k \in 0..n
      BY <1>9, <2>1, <2>2
    <2>4. m = IF k + 1 <= n THEN n - (k + 1) + 1 ELSE 0
      BY <1>8, <2>1, <2>2
    <2>5. i \in 1..(n - (k + 1) + 1) /\ (k + 1) + i - 1 \in 1..n
      BY <2>3, <2>4
    <2>6. left[i] = cache[(k + 1) + i - 1]
      BY <1>8, <2>5, <2>1
    <2>7. left[i] = cache[(k + 1) + i - 1] /\ (k + 1) + i - 1 \in DOMAIN cache
      BY <1>1, <2>5, <2>1, <2>6
    <2> QED BY <2>7 DEF Entries
  <1>11. Len(left) + 1 <= MaxCached
    BY <1>1, <1>8, <1>9, <1>5
  <1>12. /\ Append(left, e) \in Seq(Bodies) /\ Len(Append(left, e)) = Len(left) + 1
         /\ \A i \in 1..Len(left) : Append(left, e)[i] = left[i]
         /\ Append(left, e)[Len(left) + 1] = e
    BY <1>8, AppendProperties
  <1>13. DOMAIN Append(left, e) = 1..(Len(left) + 1)
    BY <1>12, LenProperties
  <1>14. Entries(Append(left, e)) \subseteq Entries(left) \cup {e}
    <2> SUFFICES ASSUME NEW i \in DOMAIN Append(left, e) PROVE Append(left, e)[i] \in Entries(left) \cup {e}
      BY DEF Entries
    <2>1. i \in DOMAIN left \/ i = Len(left) + 1
      BY <1>9, <1>13
    <2> QED BY <1>9, <1>12, <2>1 DEF Entries
  <1> QED BY <1>4, <1>10, <1>11, <1>12, <1>14

\* What is cached is a body.
LEMMA EntryIsBody ==
    ASSUME KnownOK, NEW m \in Messages, m.kind = "done"
    PROVE  Entry(m) \subseteq Bodies
  <1>1. m.id \in Requests /\ m.body \subseteq Pieces
    BY MessageParts
  <1>2. \A e \in m.body : [id |-> m.id, from |-> e.from, to |-> e.to, cut |-> FALSE] \in Bodies
    BY <1>1 DEF Bodies, Pieces
  <1>3. [id |-> m.id, from |-> 0, to |-> 0, cut |-> pending[m.id] = "cut"] \in Bodies
    BY <1>1 DEF Bodies
  <1> QED BY <1>2, <1>3 DEF Entry

\* What the client saw.
LEMMA SawTyped ==
    ASSUME ClientOK, NEW r \in Requests, NEW e \in {"sent", "over"}, Saw(r, e)
    PROVE  seen' \in [Requests -> {"none", "sent", "over", "stray"}]
  BY DEF ClientOK, Saw

\* The worker takes a message.
LEMMA ReceiveTyped ==
    ASSUME Accounted, Receive
    PROVE  Accounted'
  <1>1. ClockOK /\ MainOK /\ PipeOK /\ CallsOK /\ KnownOK /\ CacheOK /\ ClientOK
    BY Parts
  <1>2. PICK m \in Messages : m = Head(pipe)
    BY Taking
  <1>3. PipeOK' /\ UNCHANGED <<cap, now, fetch, mainVars, calls, enabled, commands>>
    BY Taking
  <1>4. ClockOK' /\ CallsOK'
    BY <1>1, <1>3 DEF ClockOK, CallsOK
  <1>5. MainOK'
    BY <1>1, <1>3 DEF MainOK, mainVars
  <1>6. m.id \in Requests /\ enabled' \in BOOLEAN
    BY <1>1, <1>3, MessageParts DEF ClientOK
  <1>7. CASE m.kind = "reply" /\ OnReply(m)
    <2>1. m.from \in Nat /\ m.to \in Nat
      BY <1>7, MessageParts
    <2>2. UNCHANGED <<workVars, seen>>
      BY <1>7 DEF OnReply
    <2>3. ClientOK'
      <3>1. Joined(stream[m.id], m) \in [on : BOOLEAN, from : Nat, to : Nat, gap : BOOLEAN]
        BY <1>1, <1>6, <2>1 DEF ClientOK, Joined
      <3>2. stream' \in [Requests -> [on : BOOLEAN, from : Nat, to : Nat, gap : BOOLEAN]]
        BY <1>1, <1>6, <1>7, <2>1, <3>1 DEF ClientOK, OnReply
      <3> QED BY <1>1, <1>6, <2>2, <3>2 DEF ClientOK
    <2>4. KnownOK' /\ CacheOK'
      BY <1>1, <2>2 DEF KnownOK, CacheOK, workVars
    <2> QED BY <1>3, <1>4, <1>5, <2>3, <2>4, PartsNext
  <1>8. CASE UNCHANGED <<workVars, clientVars>>
    <2>1. KnownOK' /\ CacheOK' /\ ClientOK'
      BY <1>1, <1>6, <1>8 DEF KnownOK, CacheOK, ClientOK, workVars, clientVars
    <2> QED BY <1>3, <1>4, <1>5, <2>1, PartsNext
  <1>9. CASE m.kind = "request" /\ OnRequest(m)
    <2> DEFINE heard == [lastSeen EXCEPT ![m.id] = m.at]
    <2>1. m.at \in Nat
      BY <1>9, MessageParts
    <2>2. /\ Keep(announced \cup {m.id}, heard, pending, streamed, Forgotten(heard, m.at))
          /\ workSweep' = SweepTime(m.at) /\ Saw(m.id, "sent") /\ UNCHANGED <<cache, stream>>
      BY <1>9 DEF OnRequest
    <2>3. heard \in [Requests -> Nat]
      BY <1>1, <2>1 DEF KnownOK
    <2> HIDE DEF heard
    <2>4. KnownOK'
      <3>1. announced \cup {m.id} \subseteq Requests
        BY <1>1, <1>6 DEF KnownOK
      <3> QED BY <1>1, <2>1, <2>2, <2>3, <3>1, KeepTyped DEF KnownOK
    <2>5. ClientOK' /\ CacheOK'
      BY <1>1, <1>6, <2>2, SawTyped DEF ClientOK, CacheOK
    <2> QED BY <1>3, <1>4, <1>5, <2>4, <2>5, PartsNext
  <1>10. CASE m.kind = "data" /\ OnData(m)
    <2>1. m.at \in Nat /\ m.from \in Nat /\ m.to \in Nat
      BY <1>10, MessageParts
    <2>2. CASE ~Known(m.id)
      BY <1>8, <1>10, <2>2 DEF OnData
    <2>3. CASE Known(m.id)
      <3> DEFINE entry == IF pending[m.id] = "none" THEN IF m.id \in streamed THEN "live" ELSE "open" ELSE pending[m.id]
                 new == IF entry = "open" /\ ~(m.size <= Preview /\ 2 * m.size <= Preview) THEN "cut" ELSE entry
      <3>1. /\ lastSeen' = [lastSeen EXCEPT ![m.id] = m.at]
            /\ pending' = [pending EXCEPT ![m.id] = new]
            /\ seen' = [seen EXCEPT ![m.id] = IF @ = "sent" THEN @ ELSE "stray"]
            /\ stream' = IF m.id \in streamed THEN [stream EXCEPT ![m.id] = Joined(@, m)] ELSE stream
            /\ UNCHANGED <<announced, streamed, cache, workSweep>>
        BY <1>10, <2>3 DEF OnData
      <3>2. new \in {"none", "live", "open", "cut"}
        BY <1>1, <1>6 DEF KnownOK
      <3> HIDE DEF new
      <3>3. KnownOK' /\ CacheOK'
        BY <1>1, <2>1, <3>1, <3>2 DEF KnownOK, CacheOK
      <3>4. Joined(stream[m.id], m) \in [on : BOOLEAN, from : Nat, to : Nat, gap : BOOLEAN]
        BY <1>1, <1>6, <2>1 DEF ClientOK, Joined
      <3>5. stream' \in [Requests -> [on : BOOLEAN, from : Nat, to : Nat, gap : BOOLEAN]]
        BY <1>1, <1>6, <3>1, <3>4 DEF ClientOK
      <3>6. seen' \in [Requests -> {"none", "sent", "over", "stray"}]
        BY <1>1, <3>1 DEF ClientOK
      <3>7. ClientOK'
        BY <1>6, <3>5, <3>6 DEF ClientOK
      <3> QED BY <1>3, <1>4, <1>5, <3>3, <3>7, PartsNext
    <2> QED BY <2>2, <2>3
  <1>11. CASE m.kind = "done" /\ OnDone(m)
    <2> DEFINE heard == [lastSeen EXCEPT ![m.id] = 0]
               pend == [pending EXCEPT ![m.id] = "none"]
    <2>1. m.at \in Nat
      BY <1>11, MessageParts
    <2>2. /\ Keep(announced \ {m.id}, heard, pend, streamed \ {m.id}, Forgotten(heard, m.at))
          /\ workSweep' = SweepTime(m.at)
          /\ IF Known(m.id)
             THEN /\ Saw(m.id, "over")
                  /\ IF Entry(m) = {} THEN UNCHANGED cache ELSE \E e \in Entry(m) : cache' = Cached(cache, e)
             ELSE UNCHANGED <<seen, cache>>
          /\ stream' = [stream EXCEPT ![m.id] = NoStream]
      BY <1>11 DEF OnDone
    <2>3. heard \in [Requests -> Nat] /\ pend \in [Requests -> {"none", "live", "open", "cut"}]
      BY <1>1 DEF KnownOK
    <2> HIDE DEF heard, pend
    <2>4. KnownOK'
      <3>1. announced \ {m.id} \subseteq Requests /\ streamed \ {m.id} \subseteq Requests /\ workSweep \in Nat
        BY <1>1 DEF KnownOK
      <3> QED BY <2>1, <2>2, <2>3, <3>1, KeepTyped
    <2>5. CacheOK'
      <3>1. CASE UNCHANGED cache
        BY <1>1, <3>1 DEF CacheOK
      <3>2. CASE \E e \in Entry(m) : cache' = Cached(cache, e)
        BY <1>1, <1>11, <3>2, EntryIsBody, CachedAdds DEF CacheOK
      <3> QED BY <2>2, <3>1, <3>2
    <2>6. ClientOK'
      <3>1. seen' \in [Requests -> {"none", "sent", "over", "stray"}]
        BY <1>1, <1>6, <2>2, SawTyped DEF ClientOK
      <3>2. stream' \in [Requests -> [on : BOOLEAN, from : Nat, to : Nat, gap : BOOLEAN]]
        BY <1>1, <2>2 DEF ClientOK, NoStream
      <3> QED BY <1>6, <3>1, <3>2 DEF ClientOK
    <2> QED BY <1>3, <1>4, <1>5, <2>4, <2>5, <2>6, PartsNext
  <1> QED BY <1>2, <1>7, <1>8, <1>9, <1>10, <1>11, Taking

-----------------------------------------------------------------------------
(* The commands and the clock.                                             *)

\* The commands of the client.
LEMMA CommandsTyped ==
    ASSUME Accounted, Enable \/ Disable \/ Tick \/ \E r \in Requests : Ask(r)
    PROVE  Accounted'
  <1>1. ClockOK /\ MainOK /\ PipeOK /\ CallsOK /\ KnownOK /\ CacheOK /\ ClientOK
    BY Parts
  <1>2. CASE Enable
    BY <1>1, <1>2, PartsNext
       DEF Enable, ClockOK, MainOK, PipeOK, CallsOK, KnownOK, CacheOK, ClientOK, workVars, clientVars, mainVars
  <1>3. CASE Disable
    <2>1. UNCHANGED <<cap, now, fetch, mainVars, pipe, calls, workSweep>>
          /\ commands < MaxCommands /\ commands' = commands + 1
      BY <1>3 DEF Disable, Commands
    <2>2. ClockOK' /\ PipeOK' /\ CallsOK'
      BY <1>1, <2>1, BoundsAssumption DEF ClockOK, PipeOK, CallsOK
    <2>3. MainOK'
      BY <1>1, <2>1 DEF MainOK, mainVars
    <2>4. KnownOK'
      BY <1>1, <1>3, <2>1 DEF Disable, KnownOK
    <2>5. CacheOK'
      <3>1. cache' = <<>> /\ MaxCached \in Nat
        BY <1>3, LimitsAssumption DEF Disable
      <3> QED BY <3>1, EmptySeq DEF CacheOK
    <2>6. ClientOK'
      BY <1>3 DEF Disable, ClientOK, NoStream
    <2> QED BY <2>2, <2>3, <2>4, <2>5, <2>6, PartsNext
  <1>4. CASE Tick
    <2>1. ClockOK'
      BY <1>1, <1>4 DEF Tick, ClockOK
    <2> QED BY <1>1, <1>4, <2>1, PartsNext
            DEF Tick, MainOK, PipeOK, CallsOK, KnownOK, CacheOK, ClientOK, workVars, clientVars, mainVars
  <1>5. ASSUME NEW r \in Requests, Ask(r) PROVE Accounted'
    <2>1. /\ commands < MaxCommands /\ commands' = commands + 1
          /\ streamed' = streamed \cup {r} /\ pending' = [pending EXCEPT ![r] = "none"]
          /\ calls' = Append(calls, r)
          /\ UNCHANGED <<cap, now, fetch, mainVars, pipe, enabled, announced, lastSeen, cache, workSweep, clientVars>>
      BY <1>5 DEF Ask, Commands
    <2>2. ClockOK' /\ PipeOK'
      BY <1>1, <2>1, BoundsAssumption DEF ClockOK, PipeOK
    <2>3. CallsOK'
      BY <1>1, <2>1, AppendProperties DEF CallsOK
    <2>4. MainOK'
      BY <1>1, <2>1 DEF MainOK, mainVars
    <2>5. KnownOK' /\ CacheOK' /\ ClientOK'
      BY <1>1, <2>1 DEF KnownOK, CacheOK, ClientOK, clientVars
    <2> QED BY <2>2, <2>3, <2>4, <2>5, PartsNext
  <1> QED BY <1>2, <1>3, <1>4, <1>5

\* The types and the count hold at first.
LEMMA InitTyped == Init => Accounted
  <1> SUFFICES ASSUME Init PROVE Accounted
    OBVIOUS
  <1>1. ClockOK
    BY TimesAssumption, BoundsAssumption DEF Init, ClockOK
  <1>2. MainOK
    <2>1. buffers = <<>> /\ completed = <<>> /\ held = 0 /\ cap \in Caps
      BY DEF Init
    <2>2. Bytes(<<>>) = 0
      <3>1. Area({}) = {}
        BY DEF Area
      <3> QED BY <3>1, EmptyMap, BytesAreArea, FS_EmptySet DEF Bytes
    <2>3. <<>> \in Archives /\ cap \in Nat /\ Len(<<>>) = 0
      BY <2>1, EmptyMap, EmptySeq, LimitsAssumption DEF Archives
    <2> QED BY <2>1, <2>2, <2>3, EmptyMap DEF Init, MainOK
  <1>3. PipeOK /\ CallsOK /\ CacheOK
    BY EmptySeq, BoundsAssumption, LimitsAssumption DEF Init, PipeOK, CallsOK, CacheOK
  <1>4. KnownOK /\ ClientOK
    BY DEF Init, KnownOK, ClientOK, NoStream
  <1> QED BY <1>1, <1>2, <1>3, <1>4, Parts

\* And they stay.
LEMMA NextTyped == ASSUME Accounted, [Next]_vars PROVE Accounted'
  <1>1. ASSUME NEW r \in Requests, Begin(r) \/ Finish(r) \/ (\E n \in 1..2 : Chunk(r, n)) PROVE Accounted'
    BY <1>1, BeginTyped, FinishTyped, ChunkTyped
  <1>2. CASE StartStreaming
    BY <1>2, StartStreamingTyped
  <1>3. CASE Receive
    BY <1>3, ReceiveTyped
  <1>4. CASE Enable \/ Disable \/ Tick \/ \E r \in Requests : Ask(r)
    BY <1>4, CommandsTyped
  <1>5. CASE UNCHANGED vars
    BY <1>5, Parts, PartsNext DEF vars, mainVars, workVars, clientVars,
       ClockOK, MainOK, PipeOK, CallsOK, KnownOK, CacheOK, ClientOK
  <1> QED BY <1>1, <1>2, <1>3, <1>4, <1>5 DEF Next

-----------------------------------------------------------------------------
(* What the main thread keeps.                                             *)

\* The bodies of the main thread do not change.
MainSame == UNCHANGED <<fetch, mainVars>>

\* A request has an entry, or not.
HasEntry(map, r) == \E x \in Entries(map) : x.id = r

\* A request is in a map if one of its entries is of it.
LEMMA EntryOfId ==
    ASSUME NEW map \in Maps, NEW r
    PROVE  r \in Ids(map) <=> HasEntry(map, r)
  <1>1. Ids(map) = {x.id : x \in Entries(map)}
    BY EntriesOfSeq DEF Maps
  <1> QED BY <1>1 DEF HasEntry

\* What each action does to the main thread's part.
LEMMA MainSteps ==
    ASSUME Accounted, [Next]_vars
    PROVE  \/ MainSame /\ (now' = now \/ now' = now + 1)
           \/ \E r \in Requests, n \in 1..2 : Chunk(r, n)
           \/ \E r \in Requests : Begin(r)
           \/ \E r \in Requests : Finish(r)
           \/ StartStreaming
  <1>1. CASE \E r \in Requests : Ask(r)
    BY <1>1 DEF Ask, MainSame
  <1>2. CASE Receive \/ Enable \/ Disable \/ Tick
    BY <1>2 DEF Receive, Enable, Disable, Tick, MainSame
  <1>3. CASE UNCHANGED vars
    BY <1>3 DEF vars, MainSame, mainVars
  <1> QED BY <1>1, <1>2, <1>3 DEF Next

\* What a chunk does to the program's record of a request.
LEMMA ChunkGrows ==
    ASSUME Accounted, NEW r \in Requests, NEW n \in 1..2, Chunk(r, n)
    PROVE  /\ fetch[r].phase = "open" /\ fetch'[r].phase = "open" /\ fetch'[r].body = fetch[r].body + n
           /\ \A q \in Requests \ {r} : fetch'[q] = fetch[q]
           /\ \A q \in Requests : fetch[q].body \in Nat /\ fetch'[q].phase = fetch[q].phase
           /\ now' = now /\ n \in Nat /\ n # 0
  <1>1. fetch \in [Requests -> [phase : {"new", "open", "done"}, body : 0..MaxBody]]
    BY MapsOfShape DEF Accounted
  <1>2. fetch[r].phase = "open" /\ fetch' = [fetch EXCEPT ![r].body = @ + n] /\ now' = now
    BY DEF Chunk
  <1>3. \A q \in Requests : fetch[q].body \in Nat
    BY <1>1, BoundsAssumption
  <1> QED BY <1>1, <1>2, <1>3

\* Begin and Finish move the phase of their request, and no other.
LEMMA PhaseChanges ==
    ASSUME Accounted, NEW r \in Requests
    PROVE  /\ Begin(r) => /\ fetch[r].phase = "new" /\ fetch'[r].phase = "open"
                          /\ UNCHANGED <<now, mainVars>>
           /\ Finish(r) => fetch[r].phase = "open" /\ fetch'[r].phase = "done" /\ now' = now
           /\ Begin(r) \/ Finish(r) => /\ fetch'[r].body = fetch[r].body
                                       /\ \A q \in Requests \ {r} : fetch'[q] = fetch[q]
  <1>1. fetch \in [Requests -> [phase : {"new", "open", "done"}, body : 0..MaxBody]]
    BY MapsOfShape DEF Accounted
  <1> QED BY <1>1 DEF Begin, Finish

\* Of the entries of a chunk's bodies.
LEMMA ChunkedEntries ==
    ASSUME Accounted, NEW r \in Requests, NEW n \in 1..2, NEW gone \in Maps, Chunked(r, n, gone)
    PROVE  /\ Grown(r, n).id = r /\ Grown(r, n).from = Buffer(r).from /\ Grown(r, n).to = Buffer(r).to + n
           /\ \A x \in Entries(completed') :
                \/ x \in Entries(completed)
                \/ \E y \in Entries(gone) : x.id = y.id /\ x.from = y.from /\ x.to = y.to
           /\ \A q \in Requests : HasEntry(buffers', q) => HasEntry(buffers, q) \/ q = r
           /\ \A q \in Requests : HasEntry(gone, q) => HasEntry(buffers, q) \/ q = r
           /\ \A q \in Requests : HasEntry(completed', q) => HasEntry(completed, q) \/ HasEntry(gone, q)
           /\ \A q \in Requests : q \in Ids(gone) <=> HasEntry(gone, q)
  <1>1. Buffer(r) \in Pieces /\ Buffer(r).id = r
    BY BufferOfChunk DEF Accounted
  <1>2. Grown(r, n).id = r /\ Grown(r, n).from = Buffer(r).from /\ Grown(r, n).to = Buffer(r).to + n
    BY <1>1 DEF Grown, Pieces
  <1>3. now \in Nat /\ Entries(gone) \subseteq Pieces
    BY MapsOfShape, EntriesOfSeq DEF Accounted, Maps
  <1>4. \A x \in Entries(gone) : Dated(x).id = x.id /\ Dated(x).from = x.from /\ Dated(x).to = x.to
    BY <1>3, DatedIsPiece
  <1>5. ASSUME NEW x \in Entries(completed')
        PROVE  \/ x \in Entries(completed)
               \/ \E y \in Entries(gone) : x.id = y.id /\ x.from = y.from /\ x.to = y.to
    <2>1. x \in Entries(completed) \/ \E y \in Entries(gone) : x = Dated(y)
      BY DEF Chunked
    <2> QED BY <1>4, <2>1
  <1>6. ASSUME NEW q \in Requests, HasEntry(buffers', q) PROVE HasEntry(buffers, q) \/ q = r
    <2>1. PICK x \in Entries(buffers') : x.id = q
      BY <1>6 DEF HasEntry
    <2>2. \/ x \in Entries(buffers)
          \/ x = Grown(r, n)
          \/ x.id = r
      BY DEF Chunked
    <2> QED BY <1>2, <2>1, <2>2 DEF HasEntry
  <1>7. ASSUME NEW q \in Requests, HasEntry(gone, q) PROVE HasEntry(buffers, q) \/ q = r
    BY <1>1, <1>7 DEF HasEntry, Chunked
  <1>8. ASSUME NEW q \in Requests, HasEntry(completed', q) PROVE HasEntry(completed, q) \/ HasEntry(gone, q)
    BY <1>5, <1>8 DEF HasEntry
  <1>9. \A q \in Requests : q \in Ids(gone) <=> HasEntry(gone, q)
    BY EntryOfId
  <1> QED BY <1>2, <1>5, <1>6, <1>7, <1>8, <1>9

\* Phases, without Ids.
PhaseOf(q) ==
    /\ HasEntry(buffers, q) \/ HasEntry(completed, q) \/ q \in dropped => fetch[q].phase = "open"
    /\ q \in live => /\ registered[q] # 0 /\ ~HasEntry(buffers, q) /\ ~HasEntry(completed, q)
                     /\ q \notin dropped
    /\ registered[q] # 0 => q \in live \cup lost
    /\ fetch[q].phase = "new" => fetch[q].body = 0

Phased == now # 0 /\ \A q \in Requests : PhaseOf(q)

\* Phases, told by entries instead of requests.
LEMMA PhasesByEntry == Accounted => (Phases <=> Phased)
  <1> SUFFICES ASSUME Accounted PROVE Phases <=> Phased
    OBVIOUS
  <1>1. buffers \in Maps /\ completed \in Maps
    BY MapsOfShape DEF Accounted, Archives
  <1>2. \A q \in Requests : /\ q \in Ids(buffers) <=> HasEntry(buffers, q)
                            /\ q \in Ids(completed) <=> HasEntry(completed, q)
    BY <1>1, EntryOfId
  <1> QED BY <1>2 DEF Phases, PhaseOf, Phased

\* The same in the next state.
LEMMA PhasesByEntryNext == Accounted' => (Phases' <=> Phased')
  BY PhasesByEntry, PTL

\* A chunk is of an open request, and what it gives up was open as well.
LEMMA ChunkPhased ==
    ASSUME Accounted, Phased, NEW r \in Requests, NEW n \in 1..2, Chunk(r, n)
    PROVE  Phased'
  <1>1. /\ fetch[r].phase = "open" /\ fetch'[r].phase = "open"
        /\ \A q \in Requests \ {r} : fetch'[q] = fetch[q]
        /\ now' = now /\ n \in Nat
    BY ChunkGrows
  <1>2. CASE UNCHANGED <<buffers, completed, live, dropped, registered>> /\ lost \subseteq lost'
    <2>1. ASSUME NEW q \in Requests PROVE PhaseOf(q)'
      <3>1. CASE q = r
        BY <1>1, <1>2, <3>1 DEF Phased, PhaseOf, HasEntry
      <3>2. CASE q # r
        BY <1>1, <1>2, <3>2 DEF Phased, PhaseOf, HasEntry
      <3> QED BY <3>1, <3>2
    <2> QED BY <1>1, <2>1 DEF Phased
  <1>3. ASSUME r \notin live \cup dropped, NEW gone \in Maps, Chunked(r, n, gone) PROVE Phased'
    <2>1. ASSUME NEW q \in Requests PROVE PhaseOf(q)'
      <3>1. /\ HasEntry(buffers', q) => HasEntry(buffers, q) \/ q = r
            /\ HasEntry(completed', q) => HasEntry(completed, q) \/ HasEntry(buffers, q) \/ q = r
            /\ q \in dropped' => q \in dropped \/ HasEntry(buffers, q) \/ q = r
        BY <1>3, ChunkedEntries DEF Chunked
      <3>2. UNCHANGED <<live, registered>> /\ lost \subseteq lost'
        BY <1>3 DEF Chunked
      <3>3. CASE q = r
        BY <1>1, <1>3, <3>1, <3>2, <3>3 DEF Phased, PhaseOf
      <3>4. CASE q # r
        BY <1>1, <3>1, <3>2, <3>4 DEF Phased, PhaseOf
      <3> QED BY <3>3, <3>4
    <2> QED BY <1>1, <2>1 DEF Phased
  <1>4. CASE Streams(r, n)
    BY <1>2, <1>4 DEF Streams, mainVars
  <1>5. CASE Discards(r, n)
    BY <1>2, <1>5 DEF Discards
  <1> QED BY <1>1, <1>3, <1>4, <1>5, ChunkCases

\* What Finished says of the entries.
LEMMA FinishedEntries ==
    ASSUME Accounted, NEW r \in Requests, Finished(r), NEW q \in Requests
    PROVE  /\ HasEntry(buffers', q) => HasEntry(buffers, q) /\ q # r
           /\ HasEntry(completed', q) => HasEntry(completed, q) /\ q # r
           /\ \/ q \in {r} \cup lost'
              \/ /\ HasEntry(buffers, q) => HasEntry(buffers', q)
                 /\ HasEntry(completed, q) => HasEntry(completed', q)
  <1>1. buffers \in Maps /\ completed \in Maps /\ buffers' \in Maps /\ completed' \in Maps
    BY MapsOfShape DEF Accounted, Archives, Finished
  <1>2. /\ q \in Ids(buffers) <=> HasEntry(buffers, q)
        /\ q \in Ids(completed) <=> HasEntry(completed, q)
        /\ q \in Ids(buffers') <=> HasEntry(buffers', q)
        /\ q \in Ids(completed') <=> HasEntry(completed', q)
    BY <1>1, EntryOfId
  <1>3. /\ HasEntry(buffers', q) => HasEntry(buffers, q) /\ q # r
        /\ HasEntry(completed', q) => HasEntry(completed, q) /\ q # r
    BY DEF Finished, HasEntry
  <1> QED BY <1>2, <1>3 DEF Finished

\* Nothing of a finished request is kept.
LEMMA FinishPhased ==
    ASSUME Accounted, Phased, NEW r \in Requests, Finish(r)
    PROVE  Phased'
  <1>1. Finished(r)
    BY FinishFinishes
  <1>2. fetch'[r].phase = "done" /\ now' = now /\ \A q \in Requests \ {r} : fetch'[q] = fetch[q]
    BY PhaseChanges
  <1>3. ASSUME NEW q \in Requests PROVE PhaseOf(q)'
    <2>1. /\ HasEntry(buffers', q) => HasEntry(buffers, q) /\ q # r
          /\ HasEntry(completed', q) => HasEntry(completed, q) /\ q # r
      BY <1>1, FinishedEntries
    <2>2. /\ q \in live' => q \in live /\ q # r /\ registered'[q] = registered[q]
          /\ q \in dropped' => q \in dropped /\ q # r
          /\ registered'[q] # 0 => /\ registered'[q] = registered[q]
                                   /\ (q \in live => q \in live' \cup lost')
          /\ lost \subseteq lost'
      BY <1>1 DEF Finished
    <2>3. CASE q = r
      BY <1>1, <1>2, <2>1, <2>2, <2>3 DEF PhaseOf, Finished
    <2>4. CASE q # r
      BY <1>2, <2>1, <2>2, <2>4 DEF Phased, PhaseOf
    <2> QED BY <2>3, <2>4
  <1> QED BY <1>2, <1>3 DEF Phased

\* What Handed says of the entries.
LEMMA HandedEntries ==
    ASSUME NEW r \in Requests, Handed(r), NEW q \in Requests
    PROVE  /\ HasEntry(buffers', q) <=> HasEntry(buffers, q) /\ q # r
           /\ HasEntry(completed', q) <=> HasEntry(completed, q) /\ q # r
  BY DEF Handed, HasEntry

\* Nothing of a streamed request is kept.
LEMMA StartStreamingPhased ==
    ASSUME Accounted, Phased, StartStreaming
    PROVE  Phased'
  <1>1. PICK r \in Requests : r = Head(calls) /\ Handed(r)
    BY StartStreamingHands
  <1>2. UNCHANGED <<now, fetch>>
    BY DEF StartStreaming
  <1>3. registered \in [Requests -> Nat]
    BY MapsOfShape DEF Accounted
  <1>4. live' = live \cup {r} /\ dropped' = dropped \ {r} /\ lost' = lost
        /\ registered'[r] = now /\ \A q \in Requests \ {r} : registered'[q] = registered[q]
    BY <1>1, <1>3 DEF Handed
  <1>5. ASSUME NEW q \in Requests PROVE PhaseOf(q)'
    <2>1. /\ HasEntry(buffers', q) <=> HasEntry(buffers, q) /\ q # r
          /\ HasEntry(completed', q) <=> HasEntry(completed, q) /\ q # r
      BY <1>1, HandedEntries
    <2>2. CASE q = r
      BY <1>2, <1>4, <2>1, <2>2 DEF Phased, PhaseOf
    <2>3. CASE q # r
      BY <1>2, <1>4, <2>1, <2>3 DEF Phased, PhaseOf
    <2> QED BY <2>2, <2>3
  <1> QED BY <1>2, <1>5 DEF Phased

\* A request that begins has nothing yet.
LEMMA BeginPhased ==
    ASSUME Accounted, Phased, NEW r \in Requests, Begin(r)
    PROVE  Phased'
  <1>1. /\ fetch[r].phase = "new" /\ fetch'[r].phase = "open" /\ UNCHANGED <<now, mainVars>>
        /\ fetch'[r].body = fetch[r].body /\ \A q \in Requests \ {r} : fetch'[q] = fetch[q]
    BY PhaseChanges
  <1>2. ASSUME NEW q \in Requests PROVE PhaseOf(q)'
    <2>1. CASE q = r
      BY <1>1, <2>1 DEF Phased, PhaseOf, mainVars, HasEntry
    <2>2. CASE q # r
      BY <1>1, <2>2 DEF Phased, PhaseOf, mainVars, HasEntry
    <2> QED BY <2>1, <2>2
  <1> QED BY <1>1, <1>2 DEF Phased

\* Phases is preserved.
LEMMA PhasesNext ==
    ASSUME Accounted, Accounted', Phases, [Next]_vars
    PROVE  Phases'
  <1>1. Phased
    BY PhasesByEntry
  <1>2. CASE MainSame /\ (now' = now \/ now' = now + 1)
    <2>1. now \in Nat
      BY MapsOfShape DEF Accounted
    <2> QED BY <1>1, <1>2, <2>1, PhasesByEntryNext DEF MainSame, mainVars, Phased, PhaseOf, HasEntry
  <1>3. CASE \E r \in Requests, n \in 1..2 : Chunk(r, n)
    BY <1>1, <1>3, ChunkPhased, PhasesByEntryNext
  <1>4. CASE \E r \in Requests : Begin(r)
    BY <1>1, <1>4, BeginPhased, PhasesByEntryNext
  <1>5. CASE \E r \in Requests : Finish(r)
    BY <1>1, <1>5, FinishPhased, PhasesByEntryNext
  <1>6. CASE StartStreaming
    BY <1>1, <1>6, StartStreamingPhased, PhasesByEntryNext
  <1> QED BY <1>2, <1>3, <1>4, <1>5, <1>6, MainSteps

\* Of a request, what is kept is the whole, without Ids.
WholeOf(q) ==
    /\ \A x \in Entries(buffers) : x.id = q =>
         /\ ~HasEntry(completed, q) /\ q \notin dropped
         /\ x.from = 0 /\ x.to = fetch[q].body /\ fetch[q].body # 0
    /\ \A x \in Entries(completed) : x.id = q => q \in dropped /\ x.from = 0 /\ x.to = fetch[q].body
    /\ fetch[q].phase = "open" /\ q \notin live /\ ~HasEntry(buffers, q) /\ ~HasEntry(completed, q)
         => fetch[q].body = 0
Wholly == \A q \in Requests \ lost : WholeOf(q)

\* KeptWhole, per request of which nothing is lost.
LEMMA KeptByEntry == Accounted => (KeptWhole <=> Wholly)
  <1> SUFFICES ASSUME Accounted PROVE KeptWhole <=> Wholly
    OBVIOUS
  <1>1. buffers \in Maps /\ completed \in Maps
    BY MapsOfShape DEF Accounted, Archives
  <1>2. \A q \in Requests : /\ q \in Ids(buffers) <=> HasEntry(buffers, q)
                            /\ q \in Ids(completed) <=> HasEntry(completed, q)
    BY <1>1, EntryOfId
  <1>3. ASSUME NEW q \in Requests PROVE KeptOf(q) <=> WholeOf(q)
    BY <1>2 DEF KeptOf, WholeOf, HasWhole
  <1> QED BY <1>3 DEF KeptWhole, Wholly

\* The same in the next state.
LEMMA KeptByEntryNext == Accounted' => (KeptWhole' <=> Wholly')
  BY KeptByEntry, PTL

\* What a chunk that is kept, or makes room, leaves of another request.
LEMMA ChunkedKeepsOthers ==
    ASSUME Accounted, Phased, Wholly, NEW r \in Requests, NEW n \in 1..2, Chunk(r, n),
           NEW gone \in Maps, Chunked(r, n, gone),
           NEW q \in Requests \ lost', q # r
    PROVE  WholeOf(q)'
  <1>1. fetch'[q] = fetch[q]
    BY ChunkGrows
  <1>2. WholeOf(q) /\ live' = live /\ q \notin lost
    BY DEF Wholly, Chunked
  <1>3. /\ \A x \in Entries(completed') :
             \/ x \in Entries(completed)
             \/ \E y \in Entries(gone) : x.id = y.id /\ x.from = y.from /\ x.to = y.to
        /\ HasEntry(gone, q) => HasEntry(buffers, q)
        /\ HasEntry(completed', q) => HasEntry(completed, q) \/ HasEntry(gone, q)
        /\ q \in Ids(gone) <=> HasEntry(gone, q)
        /\ dropped' = dropped \cup Ids(gone)
    BY ChunkedEntries DEF Chunked
  <1>4. ASSUME NEW x \in Entries(gone), x.id = q
        PROVE  x \in Entries(buffers)
    <2>1. Buffer(r).id = r
      BY BufferOfChunk DEF Accounted
    <2> QED BY <1>4, <2>1 DEF Chunked
  <1>5. ASSUME NEW x \in Entries(buffers'), x.id = q
        PROVE  /\ ~HasEntry(completed', q) /\ q \notin dropped'
               /\ x.from = 0 /\ x.to = fetch'[q].body /\ fetch'[q].body # 0
    <2>1. Grown(r, n).id = r
      BY ChunkedEntries
    <2>2. x \in Entries(buffers) /\ q \notin Ids(gone)
      BY <1>5, <2>1 DEF Chunked
    <2> QED BY <1>1, <1>2, <1>3, <1>5, <2>2 DEF WholeOf
  <1>6. ASSUME NEW x \in Entries(completed'), x.id = q
        PROVE  q \in dropped' /\ x.from = 0 /\ x.to = fetch'[q].body
    <2>1. CASE x \in Entries(completed)
      BY <1>1, <1>2, <1>3, <1>6, <2>1 DEF WholeOf
    <2>2. ASSUME NEW y \in Entries(gone), x.id = y.id /\ x.from = y.from /\ x.to = y.to
          PROVE  q \in dropped' /\ x.from = 0 /\ x.to = fetch'[q].body
      BY <1>1, <1>2, <1>3, <1>4, <1>6, <2>2 DEF WholeOf, HasEntry
    <2> QED BY <1>3, <2>1, <2>2
  <1>7. ASSUME fetch'[q].phase = "open", q \notin live', ~HasEntry(buffers', q), ~HasEntry(completed', q)
        PROVE  fetch'[q].body = 0
    <2>1. q \notin Displaced(gone)
      BY DEF Chunked
    <2>2. buffers \in Maps /\ completed \in Maps /\ completed' \in Maps
      BY MapsOfShape DEF Accounted, Archives, Chunked
    <2>3. q \notin Ids(completed')
      BY <1>7, <2>2, EntryOfId
    <2>4. q \notin Ids(completed) /\ \A j \in DOMAIN gone : gone[j].id = q => ~(Size(gone[j]) > 0)
      BY <2>1, <2>3 DEF Displaced
    <2>5. ~HasEntry(completed, q)
      BY <2>2, <2>4, EntryOfId
    <2>6. ~HasEntry(gone, q)
      <3> SUFFICES ASSUME HasEntry(gone, q) PROVE FALSE
        OBVIOUS
      <3>1. PICK j \in DOMAIN gone : gone[j].id = q
        BY DEF HasEntry, Entries
      <3>2. gone[j] \in Entries(gone)
        BY DEF Entries
      <3>3. gone[j] \in Entries(buffers)
        BY <1>4, <3>1, <3>2
      <3>4. gone[j].from = 0 /\ gone[j].to = fetch[q].body /\ fetch[q].body # 0
        BY <1>2, <3>1, <3>3 DEF WholeOf
      <3>5. fetch[q].body \in Nat
        BY ChunkGrows
      <3>6. Size(gone[j]) > 0
        BY <3>4, <3>5 DEF Size
      <3> QED BY <2>4, <3>1, <3>6
    <2>7. ~HasEntry(buffers, q)
      <3> SUFFICES ASSUME NEW x \in Entries(buffers), x.id = q PROVE FALSE
        BY DEF HasEntry
      <3>1. x \in Entries(buffers')
        BY <1>3, <2>6 DEF Chunked
      <3> QED BY <1>7, <3>1 DEF HasEntry
    <2> QED BY <1>1, <1>2, <1>7, <2>5, <2>7 DEF WholeOf
  <1> QED BY <1>5, <1>6, <1>7 DEF WholeOf

\* And of the request itself.
LEMMA ChunkedKeepsOwn ==
    ASSUME Accounted, Phased, Wholly, NEW r \in Requests \ lost', NEW n \in 1..2, Chunk(r, n),
           NEW gone \in Maps, Chunked(r, n, gone), r \notin live \cup dropped
    PROVE  WholeOf(r)'
  <1>1. /\ fetch[r].phase = "open" /\ fetch'[r].body = fetch[r].body + n
        /\ fetch[r].body \in Nat /\ n \in Nat /\ n # 0
    BY ChunkGrows
  <1>2. WholeOf(r) /\ lost \subseteq lost' /\ r \notin Ids(gone) /\ ~HasEntry(gone, r)
    <2>1. lost \subseteq lost' /\ r \notin Ids(gone)
      BY DEF Chunked
    <2> QED BY <2>1, ChunkedEntries DEF Wholly
  <1>3. ~HasEntry(completed, r)
    BY <1>2 DEF WholeOf, HasEntry
  <1>4. Buffer(r).from = 0 /\ Buffer(r).to = fetch[r].body
    <2>1. buffers \in Maps /\ now \in Nat
      BY MapsOfShape DEF Accounted
    <2>2. CASE r \in Ids(buffers)
      BY <1>2, <2>2, BufferOfChunk DEF Accounted, WholeOf
    <2>3. CASE r \notin Ids(buffers)
      <3>1. fetch[r].body = 0
        BY <1>1, <1>2, <1>3, <2>1, <2>3, EntryOfId DEF WholeOf
      <3>2. Buffer(r) = Piece(r, fetch[r].body, fetch[r].body, now)
        BY <2>3 DEF Buffer
      <3> QED BY <3>1, <3>2 DEF Piece
    <2> QED BY <2>2, <2>3
  <1>5. /\ Grown(r, n).id = r /\ Grown(r, n).from = 0 /\ Grown(r, n).to = fetch'[r].body
        /\ fetch'[r].body # 0
    BY <1>1, <1>4, ChunkedEntries
  <1>6. Grown(r, n) \in Entries(buffers') /\ HasEntry(buffers', r)
    BY <1>2, <1>5 DEF Chunked, HasEntry
  <1>7. ~HasEntry(completed', r) /\ r \notin dropped'
    BY <1>2, <1>3, ChunkedEntries DEF Chunked
  <1>8. \A x \in Entries(buffers') : x.id = r => x = Grown(r, n)
    BY DEF Chunked
  <1> QED BY <1>5, <1>6, <1>7, <1>8 DEF WholeOf, HasEntry

\* A chunk leaves the whole of each request, or it is lost.
LEMMA ChunkWholly ==
    ASSUME Accounted, Phased, Wholly, NEW r \in Requests, NEW n \in 1..2, Chunk(r, n)
    PROVE  Wholly'
  <1>1. /\ fetch[r].phase = "open" /\ \A q \in Requests \ {r} : fetch'[q] = fetch[q]
    BY ChunkGrows
  <1>2. CASE Streams(r, n)
    <2>1. r \in live /\ UNCHANGED <<buffers, completed, live, dropped, lost>>
      BY <1>2 DEF Streams, mainVars
    <2>2. ASSUME NEW q \in Requests \ lost PROVE WholeOf(q)'
      <3>1. CASE q = r
        <4>1. ~HasEntry(buffers, r) /\ ~HasEntry(completed, r) /\ r \in live'
          BY <2>1 DEF Phased, PhaseOf
        <4> QED BY <2>1, <3>1, <4>1 DEF WholeOf, HasEntry
      <3>2. CASE q # r
        BY <1>1, <2>1, <2>2, <3>2 DEF Wholly, WholeOf, HasEntry
      <3> QED BY <3>1, <3>2
    <2> QED BY <2>1, <2>2 DEF Wholly
  <1>3. CASE Discards(r, n)
    <2>1. lost' = lost \cup {r} /\ UNCHANGED <<buffers, completed, live, dropped>>
      BY <1>3 DEF Discards
    <2>2. ASSUME NEW q \in Requests \ lost' PROVE WholeOf(q)'
      BY <1>1, <2>1, <2>2 DEF Wholly, WholeOf, HasEntry
    <2> QED BY <2>2 DEF Wholly
  <1>4. ASSUME r \notin live \cup dropped, NEW gone \in Maps, Chunked(r, n, gone) PROVE Wholly'
    <2>1. ASSUME NEW q \in Requests \ lost' PROVE WholeOf(q)'
      <3>1. CASE q = r
        BY <1>4, <2>1, <3>1, ChunkedKeepsOwn
      <3>2. CASE q # r
        BY <1>4, <2>1, <3>2, ChunkedKeepsOthers
      <3> QED BY <3>1, <3>2
    <2> QED BY <2>1 DEF Wholly
  <1> QED BY <1>2, <1>3, <1>4, ChunkCases

\* A finished request has nothing that could be partial.
LEMMA FinishWholly ==
    ASSUME Accounted, Phased, Wholly, NEW r \in Requests, Finish(r)
    PROVE  Wholly'
  <1>1. Finished(r) /\ lost \subseteq lost'
    BY FinishFinishes DEF Finished
  <1>2. fetch'[r].phase = "done" /\ \A q \in Requests \ {r} : fetch'[q] = fetch[q]
    BY PhaseChanges
  <1>3. ASSUME NEW q \in Requests \ lost' PROVE WholeOf(q)'
    <2>1. /\ HasEntry(buffers', q) => HasEntry(buffers, q) /\ q # r
          /\ HasEntry(completed', q) => HasEntry(completed, q) /\ q # r
          /\ \/ q \in {r} \cup lost'
             \/ /\ HasEntry(buffers, q) => HasEntry(buffers', q)
                /\ HasEntry(completed, q) => HasEntry(completed', q)
      BY <1>1, FinishedEntries
    <2>2. CASE q = r
      BY <1>2, <2>1, <2>2 DEF WholeOf, HasEntry
    <2>3. CASE q # r
      <3>1. /\ Entries(buffers') \subseteq Entries(buffers) /\ Entries(completed') \subseteq Entries(completed)
            /\ dropped' \subseteq dropped
            /\ q \in live => q \in live'
            /\ q \in dropped => q \in dropped' \/ (registered[q] # 0 /\ q \notin live)
        BY <1>1, <1>3, <2>3 DEF Finished
      <3>2. WholeOf(q) /\ PhaseOf(q) /\ q \notin lost
        BY <1>1, <1>3 DEF Wholly, Phased
      <3>3. q \in dropped => q \in dropped'
        BY <3>1, <3>2 DEF PhaseOf
      <3>4. fetch'[q] = fetch[q]
        BY <1>2, <2>3
      <3> QED BY <1>3, <2>1, <2>3, <3>1, <3>2, <3>3, <3>4 DEF WholeOf
    <2> QED BY <2>2, <2>3
  <1> QED BY <1>3 DEF Wholly

\* Nor has a streamed one.
LEMMA StartStreamingWholly ==
    ASSUME Accounted, Phased, Wholly, StartStreaming
    PROVE  Wholly'
  <1>1. PICK r \in Requests : r = Head(calls) /\ Handed(r)
    BY StartStreamingHands
  <1>2. fetch' = fetch /\ lost' = lost /\ live' = live \cup {r} /\ dropped' = dropped \ {r}
        /\ Entries(buffers') \subseteq Entries(buffers) /\ Entries(completed') \subseteq Entries(completed)
    BY <1>1 DEF StartStreaming, Handed
  <1>3. ASSUME NEW q \in Requests \ lost PROVE WholeOf(q)'
    <2>1. /\ HasEntry(buffers', q) <=> HasEntry(buffers, q) /\ q # r
          /\ HasEntry(completed', q) <=> HasEntry(completed, q) /\ q # r
      BY <1>1, HandedEntries
    <2>2. CASE q = r
      BY <1>2, <2>1, <2>2 DEF WholeOf, HasEntry
    <2>3. CASE q # r
      BY <1>2, <1>3, <2>1, <2>3 DEF Wholly, WholeOf
    <2> QED BY <2>2, <2>3
  <1> QED BY <1>2, <1>3 DEF Wholly

\* A request begins with no bytes.
LEMMA BeginWholly ==
    ASSUME Accounted, Phased, Wholly, NEW r \in Requests, Begin(r)
    PROVE  Wholly'
  <1>1. /\ fetch[r].phase = "new" /\ UNCHANGED mainVars
        /\ fetch'[r].body = fetch[r].body /\ \A q \in Requests \ {r} : fetch'[q] = fetch[q]
    BY PhaseChanges
  <1>2. fetch[r].body = 0
    BY <1>1 DEF Phased, PhaseOf
  <1>3. UNCHANGED <<buffers, completed, live, dropped, lost>>
    BY <1>1 DEF mainVars
  <1>4. ASSUME NEW q \in Requests \ lost PROVE WholeOf(q)'
    <2>1. CASE q = r
      <3>1. ~HasEntry(buffers, r) /\ ~HasEntry(completed, r)
        BY <1>1 DEF Phased, PhaseOf
      <3> QED BY <1>1, <1>2, <1>3, <2>1, <3>1 DEF WholeOf, HasEntry
    <2>2. CASE q # r
      BY <1>1, <1>3, <1>4, <2>2 DEF Wholly, WholeOf, HasEntry
    <2> QED BY <2>1, <2>2
  <1> QED BY <1>3, <1>4 DEF Wholly

\* KeptWhole is preserved.
LEMMA KeptNext ==
    ASSUME Accounted, Accounted', Phases, KeptWhole, [Next]_vars
    PROVE  KeptWhole'
  <1>1. Phased /\ Wholly
    BY PhasesByEntry, KeptByEntry
  <1>2. CASE MainSame
    <2>1. UNCHANGED <<fetch, buffers, completed, live, dropped, lost>>
      BY <1>2 DEF MainSame, mainVars
    <2> QED BY <1>1, <2>1, KeptByEntryNext DEF Wholly, WholeOf, HasEntry
  <1>3. CASE \E r \in Requests, n \in 1..2 : Chunk(r, n)
    BY <1>1, <1>3, ChunkWholly, KeptByEntryNext
  <1>4. CASE \E r \in Requests : Begin(r)
    BY <1>1, <1>4, BeginWholly, KeptByEntryNext
  <1>5. CASE \E r \in Requests : Finish(r)
    BY <1>1, <1>5, FinishWholly, KeptByEntryNext
  <1>6. CASE StartStreaming
    BY <1>1, <1>6, StartStreamingWholly, KeptByEntryNext
  <1> QED BY <1>2, <1>3, <1>4, <1>5, <1>6, MainSteps

-----------------------------------------------------------------------------
(* A request is announced once.                                            *)

\* The pipe with one more message, and with one less.
Longer(m) == /\ DOMAIN pipe = 1..Len(pipe) /\ Len(pipe) \in Nat
             /\ DOMAIN pipe' = 1..(Len(pipe) + 1) /\ Len(pipe') = Len(pipe) + 1
             /\ pipe'[Len(pipe) + 1] = m
             /\ \A i \in DOMAIN pipe : pipe'[i] = pipe[i]
Shorter == /\ DOMAIN pipe = 1..Len(pipe) /\ Len(pipe) \in Nat /\ Len(pipe) # 0
           /\ DOMAIN pipe' = 1..(Len(pipe) - 1) /\ Len(pipe') = Len(pipe) - 1
           /\ pipe[1] = Head(pipe)
           /\ \A i \in DOMAIN pipe' : pipe'[i] = pipe[i + 1]

\* A message that is sent goes behind the others.
LEMMA PipeGrows ==
    ASSUME Accounted, NEW m \in Messages, pipe' = Append(pipe, m)
    PROVE  Longer(m)
  <1>1. pipe \in Seq(Messages) /\ Len(pipe) \in Nat /\ DOMAIN pipe = 1..Len(pipe)
    BY Parts, LenProperties DEF PipeOK
  <1>2. /\ Append(pipe, m) \in Seq(Messages) /\ Len(Append(pipe, m)) = Len(pipe) + 1
        /\ \A i \in 1..Len(pipe) : Append(pipe, m)[i] = pipe[i]
        /\ Append(pipe, m)[Len(pipe) + 1] = m
    BY <1>1, AppendProperties
  <1>3. DOMAIN Append(pipe, m) = 1..(Len(pipe) + 1)
    BY <1>2, LenProperties
  <1> QED BY <1>1, <1>2, <1>3 DEF Longer

\* The worker takes the first message.
LEMMA PipeShrinks ==
    ASSUME Accounted, Receive
    PROVE  Shorter
  <1>1. pipe \in Seq(Messages) /\ Len(pipe) \in Nat /\ DOMAIN pipe = 1..Len(pipe)
        /\ pipe # <<>> /\ pipe' = Tail(pipe)
    BY Parts, LenProperties DEF PipeOK, Receive
  <1>2. /\ Tail(pipe) \in Seq(Messages) /\ Len(Tail(pipe)) = Len(pipe) - 1 /\ Head(pipe) = pipe[1]
        /\ \A i \in 1..Len(Tail(pipe)) : Tail(pipe)[i] = pipe[i + 1]
    BY <1>1, HeadTailProperties
  <1>3. DOMAIN Tail(pipe) = 1..(Len(pipe) - 1) /\ Len(pipe) # 0
    BY <1>1, <1>2, LenProperties, EmptySeq
  <1> QED BY <1>1, <1>2, <1>3 DEF Shorter

\* What an action sends: nothing, a message of a kind, or it takes one.
Sends(kind) == \E m \in Messages : m.kind = kind /\ Longer(m)

\* The steps that change the pipe.
LEMMA PipeSteps ==
    ASSUME Accounted, [Next]_vars
    PROVE  \/ pipe' = pipe \/ Sends("data") \/ Sends("reply") \/ Receive
           \/ Sends("done") /\ \E r \in Requests : Finish(r)
           \/ \E r \in Requests : Begin(r)
  <1>1. ASSUME NEW r \in Requests, NEW n \in 1..2, Chunk(r, n) PROVE pipe' = pipe \/ Sends("data")
    <2>1. /\ fetch[r].body \in Nat /\ n \in Nat /\ now \in Nat
      BY <1>1, ChunkGrows, MapsOfShape DEF Accounted
    <2>2. PICK to \in Nat : to = fetch[r].body + n
      BY <2>1
    <2>3. \/ pipe' = pipe \/ pipe' = Append(pipe, Data(r, fetch[r].body, to, n))
          \/ pipe' = Append(pipe, Data(r, 0, 0, n))
      BY <1>1, <2>1, <2>2, ChunkCases DEF Streams, Discards, Send, Chunked
    <2>4. Data(r, fetch[r].body, to, n) \in Messages /\ Data(r, 0, 0, n) \in Messages
      BY <2>1, MessageKinds
    <2>5. Data(r, fetch[r].body, to, n).kind = "data" /\ Data(r, 0, 0, n).kind = "data"
      BY DEF Data
    <2> QED BY <2>3, <2>4, <2>5, PipeGrows DEF Sends
  <1>3. ASSUME NEW r \in Requests, Finish(r) PROVE Sends("done")
    <2>1. pipe' = Append(pipe, [kind |-> "done", id |-> r, at |-> now, body |-> Body(r)])
      BY <1>3 DEF Finish, Send
    <2>2. [kind |-> "done", id |-> r, at |-> now, body |-> Body(r)] \in Messages
      BY MessageKinds, MapsOfShape, BodyIsPieces DEF Accounted
    <2> QED BY <2>1, <2>2, PipeGrows DEF Sends
  <1>4. ASSUME StartStreaming PROVE Sends("reply")
    <2>1. PICK r \in Requests : Handed(r)
      BY <1>4, StartStreamingHands
    <2>2. pipe' = Append(pipe, [kind |-> "reply", id |-> r, from |-> Taken(r).from, to |-> Taken(r).to])
      BY <2>1 DEF Handed
    <2>3. Taken(r).from \in Nat /\ Taken(r).to \in Nat /\ now \in Nat
      BY TakenIsPiece, MapsOfShape DEF Accounted, Pieces
    <2>4. [kind |-> "reply", id |-> r, from |-> Taken(r).from, to |-> Taken(r).to] \in Messages
      BY <2>3, MessageKinds
    <2> QED BY <2>2, <2>4, PipeGrows DEF Sends
  <1>5. ASSUME Enable \/ Disable \/ Tick \/ UNCHANGED vars \/ \E r \in Requests : Ask(r) PROVE pipe' = pipe
    BY <1>5 DEF Enable, Disable, Tick, vars, Ask
  <1> QED BY <1>1, <1>3, <1>4, <1>5 DEF Next

\* Of one request.
OnceOf(q) ==
    /\ seen[q] # "stray"
    /\ q \in announced => seen[q] = "sent" /\ fetch[q].phase # "new"
    /\ fetch[q].phase = "new" => seen[q] = "none"
    /\ \A i \in DOMAIN pipe : Announces(i, q) =>
         /\ fetch[q].phase # "new" /\ seen[q] = "none"
         /\ \A j \in DOMAIN pipe : Announces(j, q) => i = j

\* AnnouncedOnce, per request.
LEMMA OnceParts ==
    AnnouncedOnce <=> /\ ~enabled => announced = {}
                      /\ streamed \subseteq announced
                      /\ \A q \in Requests : OnceOf(q)
  BY DEF AnnouncedOnce, OnceOf

\* Phases of the program move forward only.
LEMMA PhasesMove ==
    ASSUME Accounted, [Next]_vars, NEW q \in Requests
    PROVE  /\ fetch[q].phase # "new" => fetch'[q].phase # "new"
           /\ fetch[q].phase = "new" /\ ~Begin(q) => fetch'[q].phase = "new"
  <1>1. CASE MainSame
    BY <1>1 DEF MainSame
  <1>2. CASE \E r \in Requests, n \in 1..2 : Chunk(r, n)
    BY <1>2, ChunkGrows
  <1>3. ASSUME NEW r \in Requests, Begin(r)
        PROVE  /\ fetch[q].phase # "new" => fetch'[q].phase # "new"
               /\ fetch[q].phase = "new" /\ r # q => fetch'[q].phase = "new"
    BY <1>3, PhaseChanges
  <1>4. ASSUME NEW r \in Requests, Finish(r)
        PROVE  /\ fetch[q].phase # "new" => fetch'[q].phase # "new"
               /\ fetch[q].phase = "new" => fetch'[q].phase = "new"
    BY <1>4, PhaseChanges
  <1>5. CASE StartStreaming
    BY <1>5 DEF StartStreaming
  <1> QED BY <1>1, <1>2, <1>3, <1>4, <1>5, MainSteps

\* The worker and the client do not change.
WorkSame == UNCHANGED <<enabled, workVars, clientVars>>

\* The steps that change what the worker knows.
LEMMA WorkSteps ==
    ASSUME [Next]_vars
    PROVE  WorkSame \/ Receive \/ Enable \/ Disable \/ \E r \in Requests : Ask(r)
  <1>1. CASE \E r \in Requests : Begin(r) \/ Finish(r) \/ \E n \in 1..2 : Chunk(r, n)
    BY <1>1 DEF Begin, Finish, Chunk, WorkSame
  <1>2. CASE StartStreaming \/ Tick
    BY <1>2 DEF StartStreaming, Tick, WorkSame
  <1>3. CASE UNCHANGED vars
    BY <1>3 DEF vars, WorkSame
  <1> QED BY <1>1, <1>2, <1>3 DEF Next

\* A message that is not an announcement disturbs none.
LEMMA OtherMessages ==
    ASSUME NEW q \in Requests, NEW m, Longer(m), m.kind # "request", OnceOf(q),
           seen' = seen, announced' = announced,
           fetch[q].phase # "new" => fetch'[q].phase # "new",
           fetch[q].phase = "new" => fetch'[q].phase = "new"
    PROVE  OnceOf(q)'
  <1>1. \A i \in DOMAIN pipe' : Announces(i, q)' => i \in DOMAIN pipe /\ Announces(i, q)
    BY DEF Longer, Announces
  <1> QED BY <1>1 DEF OnceOf

\* The message that announces a request is the first of it.
LEMMA BeginOnce ==
    ASSUME Accounted, NEW r \in Requests, Begin(r), NEW q \in Requests, OnceOf(q)
    PROVE  OnceOf(q)'
  <1>1. /\ fetch[r].phase = "new" /\ fetch'[r].phase = "open"
        /\ \A x \in Requests \ {r} : fetch'[x] = fetch[x]
    BY PhaseChanges
  <1>2. seen' = seen /\ announced' = announced
    BY DEF Begin, workVars, clientVars
  <1>3. PICK m \in Messages : m.id = r /\ m.kind = "request" /\ Longer(m)
    <2>1. pipe' = Append(pipe, [kind |-> "request", id |-> r, at |-> now])
      BY DEF Begin, Send
    <2>2. [kind |-> "request", id |-> r, at |-> now] \in Messages
      BY MessageKinds, MapsOfShape DEF Accounted
    <2> QED BY <2>1, <2>2, PipeGrows
  <1>4. \A i \in DOMAIN pipe' : Announces(i, q)' =>
          (i \in DOMAIN pipe /\ Announces(i, q)) \/ (i = Len(pipe) + 1 /\ q = r)
    BY <1>3 DEF Longer, Announces
  <1>5. CASE q = r
    <2>1. seen[q] = "none" /\ q \notin announced /\ \A i \in DOMAIN pipe : ~Announces(i, q)
      BY <1>1, <1>5 DEF OnceOf
    <2> QED BY <1>1, <1>2, <1>4, <1>5, <2>1 DEF OnceOf
  <1>6. CASE q # r
    BY <1>1, <1>2, <1>4, <1>6 DEF OnceOf
  <1> QED BY <1>5, <1>6

\* The worker announces a request for the first time.
LEMMA ReceiveOnce ==
    ASSUME Accounted, AnnouncedOnce, Receive
    PROVE  AnnouncedOnce'
  <1>1. Shorter /\ UNCHANGED <<fetch, enabled>>
    BY PipeShrinks, Taking
  <1>2. PICK m \in Messages : m = Head(pipe) /\ m = pipe[1] /\ 1 \in DOMAIN pipe
    BY <1>1, Taking DEF Shorter
  <1>3. \A q \in Requests : OnceOf(q)
    BY OnceParts
  <1>4. seen \in [Requests -> {"none", "sent", "over", "stray"}] /\ announced \subseteq Requests
        /\ m.id \in Requests
    BY Parts, MessageParts DEF ClientOK, KnownOK
  <1>5. ASSUME NEW q \in Requests, NEW i \in DOMAIN pipe', Announces(i, q)'
        PROVE  i + 1 \in DOMAIN pipe /\ i + 1 # 1 /\ Announces(i + 1, q) /\ i \in Nat
    BY <1>1, <1>5 DEF Shorter, Announces
  <1>6. ASSUME NEW q \in Requests,
               announced' \subseteq announced, seen'[q] = seen[q] \/ (q \in announced /\ q \notin announced'),
               seen'[q] # "stray"
        PROVE  OnceOf(q)'
    <2>1. OnceOf(q)
      BY <1>3
    <2>2. \A i \in DOMAIN pipe' : Announces(i, q)' =>
            fetch[q].phase # "new" /\ seen[q] = "none" /\ q \notin announced
      BY <1>5, <2>1 DEF OnceOf
    <2>3. \A i, j \in DOMAIN pipe' : Announces(i, q)' /\ Announces(j, q)' => i = j
      <3> SUFFICES ASSUME NEW i \in DOMAIN pipe', NEW j \in DOMAIN pipe', Announces(i, q)', Announces(j, q)'
                   PROVE  i = j
        OBVIOUS
      <3>1. i + 1 = j + 1 /\ i \in Nat /\ j \in Nat
        BY <1>5, <2>1 DEF OnceOf
      <3> QED BY <3>1
    <2> QED BY <1>1, <1>6, <2>1, <2>2, <2>3 DEF OnceOf
  <1>7. (~enabled => announced = {}) /\ streamed \subseteq announced
    BY OnceParts
  <1>8. ASSUME UNCHANGED <<announced, streamed, seen>> PROVE AnnouncedOnce'
    <2>1. \A q \in Requests : OnceOf(q)'
      BY <1>3, <1>6, <1>8 DEF OnceOf
    <2> QED BY <1>1, <1>7, <1>8, <2>1 DEF AnnouncedOnce, OnceOf
  <1>9. CASE m.kind = "reply" /\ OnReply(m)
    BY <1>8, <1>9 DEF OnReply, workVars
  <1>10. CASE UNCHANGED <<workVars, clientVars>>
    BY <1>8, <1>10 DEF workVars, clientVars
  <1>11. CASE m.kind = "request" /\ enabled /\ OnRequest(m)
    <2>1. \E gone : announced' = (announced \cup {m.id}) \ gone /\ streamed' = streamed \ gone
      BY <1>11 DEF OnRequest, Keep
    <2>2. Announces(1, m.id)
      BY <1>2, <1>11 DEF Announces
    <2>3. seen[m.id] = "none" /\ fetch[m.id].phase # "new" /\ \A j \in DOMAIN pipe : Announces(j, m.id) => j = 1
      BY <1>2, <1>3, <1>4, <2>2 DEF OnceOf
    <2>4. seen'[m.id] = "sent" /\ \A q \in Requests \ {m.id} : seen'[q] = seen[q]
      BY <1>4, <1>11, <2>3 DEF OnRequest, Saw
    <2>5. ASSUME NEW q \in Requests PROVE OnceOf(q)'
      <3>1. CASE q = m.id
        <4>1. \A i \in DOMAIN pipe' : ~Announces(i, q)'
          BY <1>5, <2>3, <3>1
        <4> QED BY <1>1, <2>3, <2>4, <3>1, <4>1 DEF OnceOf
      <3>2. CASE q # m.id
        <4>1. seen'[q] = seen[q] /\ (q \in announced' => q \in announced)
          BY <2>1, <2>4, <3>2
        <4>2. OnceOf(q)
          BY <1>3
        <4>3. \A i \in DOMAIN pipe' : Announces(i, q)' =>
                /\ fetch[q].phase # "new" /\ seen[q] = "none"
                /\ \A j \in DOMAIN pipe' : Announces(j, q)' => i = j
          <5> SUFFICES ASSUME NEW i \in DOMAIN pipe', Announces(i, q)'
                       PROVE  /\ fetch[q].phase # "new" /\ seen[q] = "none"
                              /\ \A j \in DOMAIN pipe' : Announces(j, q)' => i = j
            OBVIOUS
          <5>1. fetch[q].phase # "new" /\ seen[q] = "none"
            BY <1>5, <4>2 DEF OnceOf
          <5>2. ASSUME NEW j \in DOMAIN pipe', Announces(j, q)' PROVE i = j
            <6>1. i + 1 = j + 1 /\ i \in Nat /\ j \in Nat
              BY <1>5, <4>2, <5>2 DEF OnceOf
            <6> QED BY <6>1
          <5> QED BY <5>1, <5>2
        <4> QED BY <1>1, <4>1, <4>2, <4>3 DEF OnceOf
      <3> QED BY <3>1, <3>2
    <2>6. streamed' \subseteq announced' /\ enabled' = enabled /\ enabled
      BY <1>1, <1>7, <1>11, <2>1
    <2> QED BY <2>5, <2>6 DEF AnnouncedOnce, OnceOf
  <1>12. CASE m.kind = "data" /\ OnData(m)
    <2>1. CASE ~Known(m.id)
      BY <1>10, <1>12, <2>1 DEF OnData
    <2>2. CASE Known(m.id)
      <3>1. seen[m.id] = "sent"
        BY <1>3, <1>4, <2>2 DEF Known, OnceOf
      <3>2. UNCHANGED <<announced, streamed>> /\ seen' = [seen EXCEPT ![m.id] = IF @ = "sent" THEN @ ELSE "stray"]
        BY <1>12, <2>2 DEF OnData
      <3>3. seen' = seen
        BY <1>4, <3>1, <3>2
      <3> QED BY <1>8, <3>2, <3>3
    <2> QED BY <2>1, <2>2
  <1>13. CASE m.kind = "done" /\ OnDone(m)
    <2>1. \E gone : announced' = (announced \ {m.id}) \ gone /\ streamed' = (streamed \ {m.id}) \ gone
      BY <1>13 DEF OnDone, Keep
    <2>2. CASE Known(m.id)
      <3>1. seen[m.id] = "sent" /\ m.id \in announced /\ m.id \notin announced'
        BY <1>3, <1>4, <2>1, <2>2 DEF Known, OnceOf
      <3>2. Saw(m.id, "over")
        BY <1>13, <2>2 DEF OnDone
      <3>3. seen'[m.id] = "over" /\ \A q \in Requests \ {m.id} : seen'[q] = seen[q]
        BY <1>4, <3>1, <3>2 DEF Saw
      <3>4. ASSUME NEW q \in Requests PROVE OnceOf(q)'
        <4>1. seen'[q] # "stray"
          BY <1>3, <3>3 DEF OnceOf
        <4> QED BY <1>6, <2>1, <3>1, <3>3, <4>1
      <3> QED BY <1>1, <1>7, <2>1, <3>4 DEF AnnouncedOnce, OnceOf
    <2>3. CASE ~Known(m.id)
      <3>1. seen' = seen
        BY <1>13, <2>3 DEF OnDone
      <3>2. \A q \in Requests : OnceOf(q)'
        BY <1>3, <1>6, <2>1, <3>1 DEF OnceOf
      <3> QED BY <1>1, <1>7, <2>1, <3>2 DEF AnnouncedOnce, OnceOf
    <2> QED BY <2>2, <2>3
  <1> QED BY <1>2, <1>9, <1>10, <1>11, <1>12, <1>13, Taking

\* AnnouncedOnce is preserved.
LEMMA AnnouncedNext ==
    ASSUME Accounted, Accounted', AnnouncedOnce, [Next]_vars
    PROVE  AnnouncedOnce'
  <1>1. (~enabled => announced = {}) /\ streamed \subseteq announced /\ \A q \in Requests : OnceOf(q)
    BY OnceParts
  <1>2. ASSUME pipe' = pipe, MainSame, NEW q \in Requests,
               announced' \subseteq announced, announced' = {} \/ seen'[q] = seen[q],
               seen'[q] = seen[q] \/ seen'[q] = "none"
        PROVE  OnceOf(q)'
    BY <1>1, <1>2 DEF OnceOf, Announces, MainSame
  <1>3. CASE WorkSame
    <2>1. UNCHANGED <<enabled, announced, streamed, seen>>
      BY <1>3 DEF WorkSame, workVars, clientVars
    <2>2. ASSUME NEW q \in Requests PROVE OnceOf(q)'
      <3>1. CASE \E r \in Requests : Begin(r)
        BY <1>1, <3>1, BeginOnce
      <3>2. CASE ~\E r \in Requests : Begin(r)
        <4>1. fetch[q].phase = "new" <=> fetch'[q].phase = "new"
          BY <3>2, PhasesMove
        <4>2. CASE pipe' = pipe
          BY <1>1, <2>1, <4>1, <4>2 DEF OnceOf, Announces
        <4>3. CASE Sends("data") \/ Sends("done") \/ Sends("reply")
          BY <1>1, <2>1, <4>1, <4>3, OtherMessages DEF Sends
        <4>4. CASE Receive
          BY <4>4, ReceiveOnce DEF AnnouncedOnce, OnceOf
        <4> QED BY <3>2, <4>2, <4>3, <4>4, PipeSteps
      <3> QED BY <3>1, <3>2
    <2> QED BY <1>1, <2>1, <2>2 DEF AnnouncedOnce, OnceOf
  <1>4. CASE Receive
    BY <1>4, ReceiveOnce
  <1>5. CASE Enable
    <2>1. pipe' = pipe /\ MainSame /\ UNCHANGED <<announced, streamed, seen>> /\ enabled'
      BY <1>5 DEF Enable, MainSame, workVars, clientVars
    <2>2. \A q \in Requests : OnceOf(q)'
      BY <1>2, <2>1
    <2> QED BY <1>1, <2>1, <2>2 DEF AnnouncedOnce, OnceOf
  <1>6. CASE Disable
    <2>1. pipe' = pipe /\ MainSame /\ announced' = {} /\ streamed' = {} /\ \A q \in Requests : seen'[q] = "none"
      BY <1>6 DEF Disable, MainSame
    <2>2. \A q \in Requests : OnceOf(q)'
      BY <1>2, <2>1
    <2> QED BY <2>1, <2>2 DEF AnnouncedOnce, OnceOf
  <1>7. ASSUME NEW r \in Requests, Ask(r) PROVE AnnouncedOnce'
    <2>1. pipe' = pipe /\ MainSame /\ UNCHANGED <<enabled, announced, seen>> /\ streamed' = streamed \cup {r}
          /\ r \in announced
      BY <1>7 DEF Ask, MainSame, clientVars, Known
    <2>2. \A q \in Requests : OnceOf(q)'
      BY <1>2, <2>1
    <2> QED BY <1>1, <2>1, <2>2 DEF AnnouncedOnce, OnceOf
  <1> QED BY <1>3, <1>4, <1>5, <1>6, <1>7, WorkSteps

-----------------------------------------------------------------------------
(* A request is streamed only if the client asked for it.                  *)

\* Announcements on their way were so before, or are those of the request that begins.
LEMMA AnnouncesOld ==
    ASSUME Accounted, [Next]_vars, NEW q \in Requests, NEW i \in DOMAIN pipe', Announces(i, q)'
    PROVE  Begin(q) \/ \E j \in DOMAIN pipe : Announces(j, q)
  <1>1. CASE pipe' = pipe
    BY <1>1 DEF Announces
  <1>2. CASE Sends("data") \/ Sends("done") \/ Sends("reply")
    BY <1>2 DEF Sends, Longer, Announces
  <1>3. CASE Receive
    <2>1. Shorter
      BY <1>3, PipeShrinks
    <2>2. i + 1 \in DOMAIN pipe /\ pipe'[i] = pipe[i + 1]
      BY <2>1 DEF Shorter
    <2> QED BY <2>2 DEF Announces
  <1>4. ASSUME NEW r \in Requests, Begin(r), r # q PROVE \E j \in DOMAIN pipe : Announces(j, q)
    <2>1. pipe' = Append(pipe, [kind |-> "request", id |-> r, at |-> now])
      BY <1>4 DEF Begin, Send
    <2>2. [kind |-> "request", id |-> r, at |-> now] \in Messages
      BY MessageKinds, MapsOfShape DEF Accounted
    <2>3. Longer([kind |-> "request", id |-> r, at |-> now])
      BY <2>1, <2>2, PipeGrows
    <2> QED BY <1>4, <2>3 DEF Longer, Announces
  <1> QED BY <1>1, <1>2, <1>3, <1>4, PipeSteps

\* The requests the worker comes to know are those announced by the pipe.
LEMMA AnnouncedGrows ==
    ASSUME Accounted, [Next]_vars, NEW q \in announced', q \notin announced
    PROVE  1 \in DOMAIN pipe /\ Announces(1, q)
  <1>1. CASE WorkSame
    BY <1>1 DEF WorkSame, workVars
  <1>2. CASE Receive
    <2>1. Shorter
      BY <1>2, PipeShrinks
    <2>2. PICK m \in Messages : m = Head(pipe) /\ m = pipe[1] /\ 1 \in DOMAIN pipe
      BY <1>2, <2>1, Taking DEF Shorter
    <2>3. CASE m.kind = "request" /\ OnRequest(m)
      <3>1. q = m.id
        BY <2>3 DEF OnRequest, Keep
      <3> QED BY <2>2, <2>3, <3>1 DEF Announces
    <2>4. CASE m.kind = "reply" /\ OnReply(m)
      BY <2>4 DEF OnReply, workVars
    <2>5. CASE UNCHANGED <<workVars, clientVars>>
      BY <2>5 DEF workVars
    <2>6. CASE m.kind = "data" /\ OnData(m)
      BY <2>6 DEF OnData, workVars
    <2>7. CASE m.kind = "done" /\ OnDone(m)
      BY <2>7 DEF OnDone, Keep
    <2> QED BY <1>2, <2>2, <2>3, <2>4, <2>5, <2>6, <2>7, Taking
  <1>3. CASE Enable \/ Disable \/ \E r \in Requests : Ask(r)
    BY <1>3 DEF Enable, Disable, Ask, workVars
  <1> QED BY <1>1, <1>2, <1>3, WorkSteps

\* What the worker has forgotten it never knows again.
LEMMA PastStays ==
    ASSUME Accounted, [Next]_vars, NEW q \in Requests, Past(q)
    PROVE  Past(q)'
  <1>1. fetch[q].phase # "new" /\ fetch'[q].phase # "new"
    BY PhasesMove DEF Past
  <1>2. ~Begin(q)
    BY <1>1 DEF Begin
  <1>3. \A i \in DOMAIN pipe' : ~Announces(i, q)'
    BY <1>2, AnnouncesOld DEF Past
  <1>4. q \notin announced'
    BY AnnouncedGrows DEF Past
  <1> QED BY <1>1, <1>3, <1>4 DEF Past

\* A request that is no longer streamed is past.
LEMMA StreamedEnds ==
    ASSUME Accounted, AnnouncedOnce, [Next]_vars, NEW q \in Requests, q \in streamed, q \notin streamed'
    PROVE  Past(q)'
  <1>1. q \in announced /\ OnceOf(q)
    BY OnceParts
  <1>2. fetch[q].phase # "new" /\ seen[q] = "sent" /\ \A i \in DOMAIN pipe : ~Announces(i, q)
    BY <1>1 DEF OnceOf
  <1>3. fetch'[q].phase # "new" /\ ~Begin(q)
    BY <1>2, PhasesMove DEF Begin
  <1>4. \A i \in DOMAIN pipe' : ~Announces(i, q)'
    BY <1>2, <1>3, AnnouncesOld
  <1>5. q \notin announced'
    <2>1. CASE WorkSame
      BY <2>1 DEF WorkSame, workVars
    <2>2. CASE Receive
      <3>1. PICK m \in Messages : m = Head(pipe)
        BY <2>2, Taking
      <3>2. CASE m.kind = "request" /\ OnRequest(m)
        BY <3>2 DEF OnRequest, Keep
      <3>3. CASE m.kind = "reply" /\ OnReply(m)
        BY <3>3 DEF OnReply, workVars
      <3>4. CASE UNCHANGED <<workVars, clientVars>>
        BY <3>4 DEF workVars
      <3>5. CASE m.kind = "data" /\ OnData(m)
        BY <3>5 DEF OnData, workVars
      <3>6. CASE m.kind = "done" /\ OnDone(m)
        BY <3>6 DEF OnDone, Keep
      <3> QED BY <2>2, <3>1, <3>2, <3>3, <3>4, <3>5, <3>6, Taking
    <2>3. CASE Enable \/ Disable \/ \E r \in Requests : Ask(r)
      BY <2>3 DEF Enable, Disable, Ask, workVars
    <2> QED BY <2>1, <2>2, <2>3, WorkSteps
  <1> QED BY <1>3, <1>4, <1>5 DEF Past

\* What an action does to a client's bytes: a reply starts them.
LEMMA StreamStarts ==
    ASSUME Accounted, [Next]_vars, NEW q \in Requests, stream'[q].on, ~stream[q].on
    PROVE  1 \in DOMAIN pipe /\ Replies(1, q)
  <1>1. stream \in [Requests -> [on : BOOLEAN, from : Nat, to : Nat, gap : BOOLEAN]]
    BY Parts DEF ClientOK
  <1>2. CASE WorkSame
    BY <1>2 DEF WorkSame, clientVars
  <1>3. CASE Receive
    <2>1. PICK m \in Messages : m = Head(pipe) /\ m = pipe[1] /\ 1 \in DOMAIN pipe /\ m.id \in Requests
      BY <1>3, PipeShrinks, Taking, MessageParts DEF Shorter
    <2>2. CASE m.kind = "request" /\ OnRequest(m)
      BY <2>2 DEF OnRequest
    <2>3. CASE m.kind = "reply" /\ OnReply(m)
      <3>1. q # m.id => stream'[q] = stream[q]
        BY <1>1, <2>1, <2>3 DEF OnReply
      <3> QED BY <2>1, <2>3, <3>1 DEF Replies
    <2>4. CASE UNCHANGED <<workVars, clientVars>>
      BY <2>4 DEF clientVars
    <2>5. CASE m.kind = "data" /\ OnData(m)
      <3>1. Joined(stream[m.id], m).on = stream[m.id].on
        BY <1>1, <2>1 DEF Joined
      <3> QED BY <1>1, <2>1, <2>5, <3>1 DEF OnData, clientVars
    <2>6. CASE m.kind = "done" /\ OnDone(m)
      BY <1>1, <2>1, <2>6 DEF OnDone, NoStream
    <2> QED BY <1>3, <2>1, <2>2, <2>3, <2>4, <2>5, <2>6, Taking
  <1>4. CASE Disable
    BY <1>4 DEF Disable, NoStream
  <1>5. CASE Enable \/ \E r \in Requests : Ask(r)
    BY <1>5 DEF Enable, Ask, clientVars
  <1> QED BY <1>2, <1>3, <1>4, <1>5, WorkSteps

\* Calls on their way were so before, or are the one of the client that asks.
LEMMA CallsOld ==
    ASSUME Accounted, [Next]_vars, NEW q \in Requests, NEW i \in DOMAIN calls', calls'[i] = q
    PROVE  Ask(q) \/ \E j \in DOMAIN calls : calls[j] = q
  <1>1. calls \in Seq(Requests) /\ DOMAIN calls = 1..Len(calls) /\ Len(calls) \in Nat
    BY Parts, LenProperties DEF CallsOK
  <1>2. CASE calls' = calls
    BY <1>2
  <1>3. CASE StartStreaming
    <2>1. calls # <<>> /\ calls' = Tail(calls)
      BY <1>3 DEF StartStreaming
    <2>2. /\ Tail(calls) \in Seq(Requests) /\ Len(Tail(calls)) = Len(calls) - 1
          /\ \A k \in 1..Len(Tail(calls)) : Tail(calls)[k] = calls[k + 1]
      BY <1>1, <2>1, HeadTailProperties
    <2>3. DOMAIN Tail(calls) = 1..(Len(calls) - 1)
      BY <2>2, LenProperties
    <2>4. i + 1 \in DOMAIN calls /\ calls'[i] = calls[i + 1]
      BY <1>1, <2>1, <2>2, <2>3
    <2> QED BY <2>4
  <1>4. ASSUME NEW r \in Requests, Ask(r), r # q PROVE \E j \in DOMAIN calls : calls[j] = q
    <2>1. calls' = Append(calls, r)
      BY <1>4 DEF Ask
    <2>2. /\ Append(calls, r) \in Seq(Requests) /\ Len(Append(calls, r)) = Len(calls) + 1
          /\ \A k \in 1..Len(calls) : Append(calls, r)[k] = calls[k]
          /\ Append(calls, r)[Len(calls) + 1] = r
      BY <1>1, AppendProperties
    <2>3. DOMAIN Append(calls, r) = 1..(Len(calls) + 1)
      BY <2>2, LenProperties
    <2>4. i \in DOMAIN calls /\ calls[i] = q
      BY <1>1, <1>4, <2>1, <2>2, <2>3
    <2> QED BY <2>4
  <1>5. CASE \E r \in Requests : Begin(r) \/ Finish(r) \/ \E n \in 1..2 : Chunk(r, n)
    BY <1>2, <1>5 DEF Begin, Finish, Chunk
  <1>6. CASE Receive \/ Enable \/ Disable \/ Tick \/ UNCHANGED vars
    BY <1>2, <1>6 DEF Receive, Enable, Disable, Tick, vars
  <1> QED BY <1>3, <1>4, <1>5, <1>6 DEF Next

\* The traces of a stream were there before, or the client asks now.
LEMMA TracesOld ==
    ASSUME Accounted, [Next]_vars, NEW q \in Requests, Traces(q)'
    PROVE  Traces(q) \/ Ask(q)
  <1>1. CASE stream'[q].on
    BY <1>1, StreamStarts DEF Traces
  <1>2. CASE \E i \in DOMAIN calls' : calls'[i] = q
    BY <1>2, CallsOld DEF Traces
  <1>3. CASE q \in live'
    <2>1. CASE MainSame
      BY <1>3, <2>1 DEF MainSame, mainVars, Traces
    <2>2. ASSUME NEW r \in Requests, NEW n \in 1..2, Chunk(r, n) PROVE live' = live
      BY <2>2, ChunkCases DEF Streams, Discards, Chunked, mainVars
    <2>3. ASSUME NEW r \in Requests, Finish(r) PROVE live' \subseteq live
      BY <2>3, FinishFinishes DEF Finished
    <2>4. CASE \E r \in Requests : Begin(r)
      BY <1>3, <2>4 DEF Begin, mainVars, Traces
    <2>5. CASE StartStreaming
      <3>1. calls # <<>> /\ Head(calls) \in Requests /\ live' = live \cup {Head(calls)}
        BY <2>5, StartStreamingHands DEF Handed
      <3>2. 1 \in DOMAIN calls /\ Head(calls) = calls[1]
        <4>1. calls \in Seq(Requests)
          BY Parts DEF CallsOK
        <4>2. Head(calls) = calls[1] /\ Len(calls) \in Nat /\ DOMAIN calls = 1..Len(calls) /\ Len(calls) # 0
          BY <3>1, <4>1, HeadTailProperties, LenProperties, EmptySeq
        <4> QED BY <4>2
      <3> QED BY <1>3, <3>1, <3>2 DEF Traces
    <2> QED BY <1>3, <2>1, <2>2, <2>3, <2>4, <2>5, MainSteps DEF Traces
  <1>4. ASSUME NEW i \in DOMAIN pipe', Carries(i, q)' \/ Replies(i, q)' PROVE Traces(q)
    <2>1. CASE pipe' = pipe
      BY <1>4, <2>1 DEF Carries, Replies, Traces
    <2>2. CASE Receive
      <3>1. i + 1 \in DOMAIN pipe /\ pipe'[i] = pipe[i + 1]
        BY <2>2, PipeShrinks DEF Shorter
      <3> QED BY <1>4, <3>1 DEF Carries, Replies, Traces
    <2>3. ASSUME NEW m \in Messages, Longer(m),
                 ~(m.id = q /\ (m.kind = "reply" \/ (m.kind = "data" /\ m.from # m.to)))
          PROVE  Traces(q)
      <3>1. i \in DOMAIN pipe /\ pipe'[i] = pipe[i]
        BY <1>4, <2>3 DEF Longer, Carries, Replies
      <3> QED BY <1>4, <3>1 DEF Carries, Replies, Traces
    <2>4. ASSUME NEW r \in Requests, NEW n \in 1..2, Chunk(r, n) PROVE Traces(q)
      <3>1. fetch[r].body \in Nat /\ n \in Nat /\ now \in Nat
        BY <2>4, ChunkGrows, MapsOfShape DEF Accounted
      <3>2. PICK to \in Nat : to = fetch[r].body + n
        BY <3>1
      <3>3. \/ pipe' = pipe
            \/ r \in live /\ pipe' = Append(pipe, Data(r, fetch[r].body, to, n))
            \/ pipe' = Append(pipe, Data(r, 0, 0, n))
        BY <2>4, <3>1, <3>2, ChunkCases DEF Streams, Discards, Send, Chunked
      <3>4. Data(r, fetch[r].body, to, n) \in Messages /\ Data(r, 0, 0, n) \in Messages
        BY <3>1, MessageKinds
      <3>5. CASE r \in live /\ pipe' = Append(pipe, Data(r, fetch[r].body, to, n))
        <4>1. CASE r = q
          BY <3>5, <4>1 DEF Traces
        <4>2. CASE r # q
          <5>1. Data(r, fetch[r].body, to, n).id # q
            BY <4>2 DEF Data
          <5> QED BY <2>3, <3>4, <3>5, <5>1, PipeGrows
        <4> QED BY <4>1, <4>2
      <3>6. CASE pipe' = Append(pipe, Data(r, 0, 0, n))
        <4>1. Data(r, 0, 0, n).kind = "data" /\ Data(r, 0, 0, n).from = Data(r, 0, 0, n).to
          BY DEF Data
        <4> QED BY <2>3, <3>4, <3>6, <4>1, PipeGrows
      <3> QED BY <2>1, <3>3, <3>5, <3>6
    <2>5. CASE Sends("done")
      BY <2>3, <2>5 DEF Sends
    <2>6. ASSUME NEW r \in Requests, Begin(r) PROVE Traces(q)
      <3>1. pipe' = Append(pipe, [kind |-> "request", id |-> r, at |-> now])
        BY <2>6 DEF Begin, Send
      <3>2. [kind |-> "request", id |-> r, at |-> now] \in Messages
        BY MessageKinds, MapsOfShape DEF Accounted
      <3> QED BY <2>3, <3>1, <3>2, PipeGrows
    <2>7. CASE StartStreaming
      <3>1. PICK r \in Requests : r = Head(calls) /\ Handed(r) /\ calls # <<>>
        BY <2>7, StartStreamingHands
      <3>2. 1 \in DOMAIN calls /\ r = calls[1]
        <4>1. calls \in Seq(Requests)
          BY Parts DEF CallsOK
        <4>2. Head(calls) = calls[1] /\ Len(calls) \in Nat /\ DOMAIN calls = 1..Len(calls) /\ Len(calls) # 0
          BY <3>1, <4>1, HeadTailProperties, LenProperties, EmptySeq
        <4> QED BY <3>1, <4>2
      <3>3. CASE r = q
        BY <3>2, <3>3 DEF Traces
      <3>4. CASE r # q
        <4>1. pipe' = Append(pipe, [kind |-> "reply", id |-> r, from |-> Taken(r).from, to |-> Taken(r).to])
          BY <3>1 DEF Handed
        <4>2. Taken(r).from \in Nat /\ Taken(r).to \in Nat /\ now \in Nat
          BY TakenIsPiece, MapsOfShape DEF Accounted, Pieces
        <4>3. [kind |-> "reply", id |-> r, from |-> Taken(r).from, to |-> Taken(r).to] \in Messages
          BY <4>2, MessageKinds
        <4> QED BY <2>3, <3>4, <4>1, <4>3, PipeGrows
      <3> QED BY <3>3, <3>4
    <2>8. ASSUME NEW r \in Requests, Finish(r) PROVE Sends("done")
      <3>1. pipe' = Append(pipe, [kind |-> "done", id |-> r, at |-> now, body |-> Body(r)])
        BY <2>8 DEF Finish, Send
      <3>2. [kind |-> "done", id |-> r, at |-> now, body |-> Body(r)] \in Messages
        BY MessageKinds, MapsOfShape, BodyIsPieces DEF Accounted
      <3> QED BY <3>1, <3>2, PipeGrows DEF Sends
    <2>9. CASE Enable \/ Disable \/ Tick \/ UNCHANGED vars \/ \E r \in Requests : Ask(r)
      BY <2>1, <2>9 DEF Enable, Disable, Tick, vars, Ask
    <2> QED BY <2>2, <2>4, <2>5, <2>6, <2>7, <2>8, <2>9 DEF Next
  <1> QED BY <1>1, <1>2, <1>3, <1>4 DEF Traces

\* StreamedIfAsked is preserved.
LEMMA AskedNext ==
    ASSUME Accounted, AnnouncedOnce, StreamedIfAsked, [Next]_vars
    PROVE  StreamedIfAsked'
  <1> SUFFICES ASSUME NEW q \in Requests, Traces(q)', q \notin streamed' PROVE Past(q)'
    BY DEF StreamedIfAsked
  <1>1. ~Ask(q)
    BY DEF Ask
  <1>2. q \in streamed \/ Past(q)
    BY <1>1, TracesOld DEF StreamedIfAsked
  <1> QED BY <1>2, PastStays, StreamedEnds

-----------------------------------------------------------------------------
(* The bytes of a streamed request fit together.                           *)

\* Another message leaves what came before it.
LEMMA BeforeGrows ==
    ASSUME NEW m, Longer(m), NEW q, stream'[q] = stream[q]
    PROVE  /\ \A i \in DOMAIN pipe : /\ Carries(i, q)' <=> Carries(i, q)
                                     /\ Replies(i, q)' <=> Replies(i, q)
           /\ \A i \in 1..(Len(pipe) + 1) : \A p : EndsAt(i, q, p)' <=> EndsAt(i, q, p)
  <1>1. \A i \in DOMAIN pipe : /\ Carries(i, q)' <=> Carries(i, q)
                               /\ Replies(i, q)' <=> Replies(i, q)
    BY DEF Longer, Carries, Replies
  <1>2. Base(q)' = Base(q)
    BY DEF Base
  <1>3. ASSUME NEW i \in 1..(Len(pipe) + 1) PROVE Before(i, q)' = Before(i, q)
    <2>1. \A j : j \in DOMAIN pipe' /\ j < i <=> j \in DOMAIN pipe /\ j < i
      BY DEF Longer
    <2> QED BY <1>1, <2>1 DEF Before
  <1>4. ASSUME NEW i \in 1..(Len(pipe) + 1), NEW p PROVE EndsAt(i, q, p)' <=> EndsAt(i, q, p)
    <2>1. Before(i, q) \subseteq DOMAIN pipe
      BY DEF Before
    <2> QED BY <1>2, <1>3, <2>1 DEF EndsAt, Longer
  <1> QED BY <1>1, <1>4

\* Behind it, the bytes end where it does, if it brings some.
LEMMA EndsBehind ==
    ASSUME NEW m, Longer(m), NEW n \in Nat, n = Len(pipe), NEW q, stream'[q] = stream[q], NEW p
    PROVE  /\ Carries(n + 1, q)' /\ p = m.to => EndsAt(n + 2, q, p)'
           /\ ~Carries(n + 1, q)' /\ EndsAt(n + 1, q, p) => EndsAt(n + 2, q, p)'
  <1>1. DOMAIN pipe = 1..n /\ DOMAIN pipe' = 1..(n + 1) /\ pipe'[n + 1] = m
    BY DEF Longer
  <1>2. ASSUME Carries(n + 1, q)', p = m.to PROVE EndsAt(n + 2, q, p)'
    <2>1. n + 1 \in Before(n + 2, q)' /\ \A k \in Before(n + 2, q)' : k <= n + 1
      BY <1>1, <1>2 DEF Before
    <2> QED BY <1>1, <1>2, <2>1 DEF EndsAt
  <1>3. ASSUME ~Carries(n + 1, q)', EndsAt(n + 1, q, p) PROVE EndsAt(n + 2, q, p)'
    <2>1. Before(n + 2, q)' = Before(n + 1, q)'
      BY <1>1, <1>3 DEF Before
    <2>2. EndsAt(n + 1, q, p)'
      BY <1>1, <1>3, BeforeGrows
    <2> QED BY <2>1, <2>2 DEF EndsAt
  <1> QED BY <1>2, <1>3

\* A request of which nothing is said or done keeps its chain.
LEMMA ChainStays ==
    ASSUME NEW m, Longer(m), NEW n \in Nat, n = Len(pipe), NEW q \in Requests, stream'[q] = stream[q],
           ~Carries(n + 1, q)', ~Replies(n + 1, q)',
           fetch'[q].phase = "open" => /\ fetch'[q] = fetch[q]
                                       /\ q \in live' <=> q \in live
    PROVE  /\ Starts(q) => Starts(q)'
           /\ Chain(q) => Chain(q)'
  <1>1. DOMAIN pipe = 1..n /\ DOMAIN pipe' = 1..(n + 1)
        /\ Len(pipe') = n + 1 /\ \A i \in DOMAIN pipe : pipe'[i] = pipe[i]
    BY DEF Longer
  <1>2. /\ \A i \in DOMAIN pipe : /\ Carries(i, q)' <=> Carries(i, q)
                                  /\ Replies(i, q)' <=> Replies(i, q)
        /\ \A i \in 1..(n + 1) : \A p : EndsAt(i, q, p)' <=> EndsAt(i, q, p)
    BY BeforeGrows
  <1>3. \A i \in DOMAIN pipe' : Carries(i, q)' \/ Replies(i, q)' => i \in DOMAIN pipe
    BY <1>1
  <1>4. Starts(q) => Starts(q)'
    BY <1>1, <1>2, <1>3 DEF Starts
  <1>5. ASSUME Chain(q), NEW i \in DOMAIN pipe', Carries(i, q)'
        PROVE  /\ EndsAt(i, q, pipe[i].from)'
               /\ stream'[q].on \/ \E j \in DOMAIN pipe' : j <= i /\ Replies(j, q)'
    <2>1. i \in DOMAIN pipe /\ i \in 1..(n + 1) /\ Carries(i, q) /\ pipe'[i] = pipe[i]
      BY <1>1, <1>2, <1>3, <1>5
    <2>2. EndsAt(i, q, pipe[i].from) /\ (stream[q].on \/ \E j \in DOMAIN pipe : j <= i /\ Replies(j, q))
      BY <1>5, <2>1 DEF Chain
    <2>3. PICK p : p = pipe[i].from /\ p = pipe'[i].from
      BY <2>1
    <2>4. EndsAt(i, q, p)'
      BY <1>2, <2>1, <2>2, <2>3
    <2> QED BY <1>1, <1>2, <2>2, <2>3, <2>4 DEF EndsAt
  <1>6. ASSUME Chain(q), fetch'[q].phase = "open"
        PROVE  IF q \in live'
               THEN /\ EndsAt(Len(pipe) + 1, q, fetch[q].body)'
                    /\ stream'[q].on \/ \E j \in DOMAIN pipe' : Replies(j, q)'
               ELSE ~stream'[q].on /\ \A i \in DOMAIN pipe' : ~Carries(i, q)' /\ ~Replies(i, q)'
    <2>1. fetch'[q] = fetch[q] /\ (q \in live' <=> q \in live)
      BY <1>6
    <2>2. CASE q \in live
      <3>1. PICK p : p = fetch[q].body /\ p = fetch'[q].body
        BY <2>1
      <3>2. EndsAt(n + 1, q, p) /\ (stream[q].on \/ \E j \in DOMAIN pipe : Replies(j, q))
        BY <1>6, <2>1, <2>2, <3>1 DEF Chain
      <3>3. EndsAt(n + 2, q, p)'
        BY <3>2, EndsBehind
      <3>5. EndsAt(Len(pipe) + 1, q, fetch[q].body)'
        <4>1. (Len(pipe) + 1)' = n + 2
          BY <1>1
        <4>2. EndsAt(n + 2, q, p)'
          BY <3>3
        <4> QED BY <3>1, <4>1, <4>2 DEF EndsAt, Before
      <3>6. stream'[q].on \/ \E j \in DOMAIN pipe' : Replies(j, q)'
        BY <1>1, <1>2, <3>2
      <3> QED BY <2>1, <2>2, <3>5, <3>6
    <2>3. CASE q \notin live
      BY <1>2, <1>3, <1>6, <2>1, <2>3 DEF Chain
    <2> QED BY <2>2, <2>3
  <1> QED BY <1>4, <1>5, <1>6 DEF Chain

\* And so if nothing is sent at all.
LEMMA ChainUnsent ==
    ASSUME pipe' = pipe, NEW q \in Requests, stream'[q] = stream[q],
           fetch'[q].phase = "open" => /\ fetch[q].phase = "open"
                                       /\ q \in live' <=> q \in live
                                       /\ q \in live => fetch'[q] = fetch[q]
    PROVE  /\ Starts(q) => Starts(q)'
           /\ Chain(q) => Chain(q)'
  <1>1. /\ \A i : Carries(i, q)' <=> Carries(i, q)
        /\ \A i : Replies(i, q)' <=> Replies(i, q)
    BY DEF Carries, Replies
  <1>2. \A i : Before(i, q)' = Before(i, q)
    BY <1>1 DEF Before
  <1>3. \A i, p : EndsAt(i, q, p)' <=> EndsAt(i, q, p)
    BY <1>2 DEF EndsAt, Base
  <1>4. Starts(q) => Starts(q)'
    BY <1>1 DEF Starts
  <1>5. ASSUME Chain(q), NEW i \in DOMAIN pipe', Carries(i, q)'
        PROVE  /\ EndsAt(i, q, pipe[i].from)'
               /\ stream'[q].on \/ \E j \in DOMAIN pipe' : j <= i /\ Replies(j, q)'
    <2>1. i \in DOMAIN pipe /\ Carries(i, q)
      BY <1>1, <1>5
    <2>2. EndsAt(i, q, pipe[i].from) /\ (stream[q].on \/ \E j \in DOMAIN pipe : j <= i /\ Replies(j, q))
      BY <1>5, <2>1 DEF Chain
    <2>3. PICK p : p = pipe[i].from /\ p = pipe'[i].from
      OBVIOUS
    <2>4. EndsAt(i, q, p)'
      BY <1>3, <2>2, <2>3
    <2> QED BY <1>1, <2>2, <2>3, <2>4 DEF EndsAt
  <1>6. ASSUME Chain(q), fetch'[q].phase = "open"
        PROVE  IF q \in live'
               THEN /\ EndsAt(Len(pipe) + 1, q, fetch[q].body)'
                    /\ stream'[q].on \/ \E j \in DOMAIN pipe' : Replies(j, q)'
               ELSE ~stream'[q].on /\ \A i \in DOMAIN pipe' : ~Carries(i, q)' /\ ~Replies(i, q)'
    <2>1. fetch[q].phase = "open" /\ (q \in live' <=> q \in live)
      BY <1>6
    <2>2. CASE q \in live
      <3>1. PICK p : p = fetch[q].body /\ p = fetch'[q].body
        BY <1>6, <2>2
      <3>2. EndsAt(Len(pipe) + 1, q, p) /\ (stream[q].on \/ \E j \in DOMAIN pipe : Replies(j, q))
        BY <1>6, <2>1, <2>2, <3>1 DEF Chain
      <3>3. EndsAt(Len(pipe) + 1, q, fetch[q].body)'
        <4>1. PICK n : n = Len(pipe) + 1 /\ n = Len(pipe') + 1
          OBVIOUS
        <4>2. EndsAt(n, q, p)'
          BY <1>3, <3>2, <4>1
        <4> QED BY <3>1, <4>1, <4>2 DEF EndsAt, Before
      <3> QED BY <1>1, <2>1, <2>2, <3>2, <3>3
    <2>3. CASE q \notin live
      BY <1>1, <1>6, <2>1, <2>3 DEF Chain
    <2> QED BY <2>2, <2>3
  <1> QED BY <1>4, <1>5, <1>6 DEF Chain

\* A message behind the others does not change how a stream starts.
LEMMA StartsStay ==
    ASSUME NEW m, Longer(m), NEW n \in Nat, n = Len(pipe), NEW q, stream'[q] = stream[q],
           Replies(n + 1, q)' => m.from = 0, Starts(q)
    PROVE  Starts(q)'
  <1>1. DOMAIN pipe = 1..n /\ DOMAIN pipe' = 1..(n + 1) /\ pipe'[n + 1] = m
        /\ \A i \in DOMAIN pipe : pipe'[i] = pipe[i]
    BY DEF Longer
  <1>2. \A i \in DOMAIN pipe : Replies(i, q)' <=> Replies(i, q)
    BY BeforeGrows
  <1>3. \A i \in DOMAIN pipe' : i \in DOMAIN pipe \/ i = n + 1
    BY <1>1
  <1> QED BY <1>1, <1>2, <1>3 DEF Starts

\* The chunk of a streamed request follows the bytes sent before.
LEMMA StreamsChains ==
    ASSUME Accounted, Chained, NEW r \in Requests, NEW n \in 1..2, Chunk(r, n), Streams(r, n)
    PROVE  Chained'
  <1>1. /\ fetch[r].phase = "open" /\ fetch'[r].body = fetch[r].body + n
        /\ \A q \in Requests \ {r} : fetch'[q] = fetch[q]
        /\ fetch[r].body \in Nat /\ n \in Nat /\ n # 0 /\ now \in Nat
    BY ChunkGrows, MapsOfShape DEF Accounted
  <1>2. PICK to \in Nat : to = fetch[r].body + n /\ to # fetch[r].body
    BY <1>1
  <1>3. PICK m \in Messages : m = Data(r, fetch[r].body, to, n) /\ pipe' = Append(pipe, m)
    BY <1>1, <1>2, MessageKinds DEF Streams, Send
  <1>4. m.kind = "data" /\ m.id = r /\ m.from = fetch[r].body /\ m.to = to
    BY <1>3 DEF Data
  <1>5. Longer(m)
    BY <1>3, PipeGrows
  <1>6. PICK k \in Nat : k = Len(pipe)
    BY <1>5 DEF Longer
  <1>7. DOMAIN pipe = 1..k /\ DOMAIN pipe' = 1..(k + 1) /\ pipe'[k + 1] = m /\ Len(pipe') = k + 1
        /\ \A i \in DOMAIN pipe : pipe'[i] = pipe[i]
    BY <1>5, <1>6 DEF Longer
  <1>8. UNCHANGED <<live, lost, stream, streamed>> /\ r \in live
    BY DEF Streams, Chunk, mainVars, workVars, clientVars
  <1>9. ASSUME NEW q \in Requests PROVE Starts(q) => Starts(q)'
    <2>1. ~Replies(k + 1, q)'
      BY <1>4, <1>7 DEF Replies
    <2> QED BY <1>5, <1>6, <1>8, <2>1, StartsStay
  <1>10. ASSUME NEW q \in Requests, q # r PROVE Chain(q) => Chain(q)'
    <2>1. ~Replies(k + 1, q)' /\ ~Carries(k + 1, q)'
      BY <1>4, <1>7, <1>10 DEF Replies, Carries
    <2>2. fetch'[q] = fetch[q]
      BY <1>1, <1>10
    <2> QED BY <1>5, <1>6, <1>8, <2>1, <2>2, ChainStays
  <1>11. ASSUME Chain(r) PROVE Chain(r)'
    <2>1. /\ EndsAt(k + 1, r, fetch[r].body)
          /\ stream[r].on \/ \E j \in DOMAIN pipe : Replies(j, r)
      BY <1>1, <1>6, <1>8, <1>11 DEF Chain
    <2>2. /\ \A i \in DOMAIN pipe : /\ Carries(i, r)' <=> Carries(i, r)
                                    /\ Replies(i, r)' <=> Replies(i, r)
          /\ \A i \in 1..(k + 1) : \A p : EndsAt(i, r, p)' <=> EndsAt(i, r, p)
      BY <1>5, <1>6, <1>8, BeforeGrows
    <2>3. ASSUME NEW i \in DOMAIN pipe', Carries(i, r)'
          PROVE  /\ EndsAt(i, r, pipe[i].from)'
                 /\ stream'[r].on \/ \E j \in DOMAIN pipe' : j <= i /\ Replies(j, r)'
      <3>1. PICK p : p = pipe'[i].from
        OBVIOUS
      <3>2. CASE i \in DOMAIN pipe
        <4>1. EndsAt(i, r, p) /\ (stream[r].on \/ \E j \in DOMAIN pipe : j <= i /\ Replies(j, r))
          BY <1>7, <1>11, <2>2, <2>3, <3>1, <3>2 DEF Chain
        <4>2. EndsAt(i, r, p)'
          BY <1>7, <2>2, <3>2, <4>1
        <4> QED BY <1>7, <1>8, <2>2, <3>1, <4>1, <4>2 DEF EndsAt
      <3>3. CASE i = k + 1
        <4>1. p = fetch[r].body
          BY <1>4, <1>7, <3>1, <3>3
        <4>2. EndsAt(i, r, p)'
          BY <2>1, <2>2, <3>3, <4>1
        <4>3. stream'[r].on \/ \E j \in DOMAIN pipe' : j <= i /\ Replies(j, r)'
          BY <1>7, <1>8, <2>1, <2>2, <3>3
        <4> QED BY <3>1, <4>2, <4>3 DEF EndsAt
      <3> QED BY <1>7, <3>2, <3>3
    <2>4. EndsAt(Len(pipe) + 1, r, fetch[r].body)'
      <3>1. Carries(k + 1, r)'
        BY <1>2, <1>4, <1>7 DEF Carries
      <3>2. EndsAt(k + 2, r, to)'
        BY <1>4, <1>5, <1>6, <1>8, <3>1, EndsBehind
      <3>3. (Len(pipe) + 1)' = k + 2 /\ to = fetch'[r].body
        BY <1>1, <1>2, <1>7
      <3> QED BY <3>2, <3>3 DEF EndsAt, Before
    <2>5. stream'[r].on \/ \E j \in DOMAIN pipe' : Replies(j, r)'
      BY <1>7, <1>8, <2>1, <2>2
    <2> QED BY <1>8, <2>3, <2>4, <2>5 DEF Chain
  <1>12. streamed \subseteq Requests
    BY Parts DEF KnownOK
  <1> QED BY <1>8, <1>9, <1>10, <1>11, <1>12 DEF Chained

\* A chunk that is not streamed brings no bytes.
LEMMA ChunkChains ==
    ASSUME Accounted, Chained, NEW r \in Requests, NEW n \in 1..2, Chunk(r, n)
    PROVE  Chained'
  <1>1. /\ fetch[r].phase = "open" /\ \A q \in Requests \ {r} : fetch'[q] = fetch[q]
        /\ n \in Nat /\ now \in Nat
    BY ChunkGrows, MapsOfShape DEF Accounted
  <1>2. UNCHANGED <<stream, streamed>> /\ streamed \subseteq Requests
    BY Parts DEF Chunk, workVars, clientVars, KnownOK
  <1>3. ASSUME r \in lost', lost \subseteq lost', live' = live, pipe' = Append(pipe, Data(r, 0, 0, n))
        PROVE  Chained'
    <2>1. PICK m \in Messages : m = Data(r, 0, 0, n)
      BY <1>1, MessageKinds
    <2>2. Longer(m) /\ m.id = r
      BY <1>3, <2>1, PipeGrows DEF Data
    <2>3. PICK k \in Nat : k = Len(pipe) /\ pipe'[k + 1] = m
      BY <2>2 DEF Longer
    <2>4. ASSUME NEW q \in Requests, q # r PROVE (Starts(q) => Starts(q)') /\ (Chain(q) => Chain(q)')
      <3>1. ~Replies(k + 1, q)' /\ ~Carries(k + 1, q)'
        BY <2>2, <2>3, <2>4 DEF Replies, Carries
      <3>2. fetch'[q] = fetch[q]
        BY <1>1, <2>4
      <3> QED BY <1>2, <1>3, <2>2, <2>3, <3>1, <3>2, ChainStays
    <2> QED BY <1>2, <1>3, <2>4 DEF Chained
  <1>4. CASE Discards(r, n)
    BY <1>3, <1>4 DEF Discards, Send
  <1>5. ASSUME r \notin live \cup dropped, NEW gone \in Maps, Chunked(r, n, gone) PROVE Chained'
    <2>1. lost \subseteq lost' /\ live' = live
          /\ \/ r \in lost' /\ pipe' = Append(pipe, Data(r, 0, 0, n))
             \/ pipe' = pipe
      BY <1>5 DEF Chunked
    <2>2. CASE pipe' = pipe
      <3>1. ASSUME NEW q \in Requests PROVE (Starts(q) => Starts(q)') /\ (Chain(q) => Chain(q)')
        <4>1. fetch'[q].phase = "open" => fetch[q].phase = "open" /\ (q \in live => fetch'[q] = fetch[q])
          BY <1>1, <1>5
        <4> QED BY <1>2, <2>1, <2>2, <4>1, ChainUnsent
      <3> QED BY <1>2, <2>1, <3>1 DEF Chained
    <2> QED BY <1>3, <2>1, <2>2
  <1> QED BY <1>4, <1>5, ChunkCases, StreamsChains

\* A request that begins has no stream.
LEMMA BeginChains ==
    ASSUME Accounted, AnnouncedOnce, Chained, NEW r \in Requests, Begin(r)
    PROVE  Chained'
  <1>1. /\ fetch[r].phase = "new" /\ \A q \in Requests \ {r} : fetch'[q] = fetch[q]
    BY PhaseChanges
  <1>2. UNCHANGED <<stream, streamed, live, lost>> /\ streamed \subseteq Requests
    BY Parts DEF Begin, mainVars, workVars, clientVars, KnownOK
  <1>3. PICK m \in Messages : m.id = r /\ m.kind = "request" /\ Longer(m)
    <2>1. pipe' = Append(pipe, [kind |-> "request", id |-> r, at |-> now])
      BY DEF Begin, Send
    <2>2. [kind |-> "request", id |-> r, at |-> now] \in Messages
      BY MessageKinds, MapsOfShape DEF Accounted
    <2> QED BY <2>1, <2>2, PipeGrows
  <1>4. PICK k \in Nat : k = Len(pipe) /\ pipe'[k + 1] = m
    BY <1>3 DEF Longer
  <1>5. \A q \in Requests : ~Replies(k + 1, q)' /\ ~Carries(k + 1, q)'
    BY <1>3, <1>4 DEF Replies, Carries
  <1>6. \A q \in Requests : Starts(q) => Starts(q)'
    BY <1>2, <1>3, <1>4, <1>5, StartsStay
  <1>7. ASSUME NEW q \in streamed PROVE Chain(q) => Chain(q)'
    <2>1. q # r /\ q \in Requests
      BY <1>1, <1>2, OnceParts DEF OnceOf
    <2>2. fetch'[q] = fetch[q]
      BY <1>1, <2>1
    <2> QED BY <1>2, <1>3, <1>4, <1>5, <2>1, <2>2, ChainStays
  <1> QED BY <1>2, <1>6, <1>7 DEF Chained

\* Finish sends no bytes of a stream.
LEMMA FinishChains ==
    ASSUME Accounted, Chained, NEW r \in Requests, Finish(r)
    PROVE  Chained'
  <1>1. fetch'[r].phase = "done" /\ \A q \in Requests \ {r} : fetch'[q] = fetch[q]
    BY PhaseChanges
  <1>2. UNCHANGED <<stream, streamed>> /\ streamed \subseteq Requests
    BY Parts DEF Finish, workVars, clientVars, KnownOK
  <1>3. PICK m \in Messages : m.kind = "done" /\ Longer(m)
    <2>1. pipe' = Append(pipe, [kind |-> "done", id |-> r, at |-> now, body |-> Body(r)])
      BY DEF Finish, Send
    <2>2. [kind |-> "done", id |-> r, at |-> now, body |-> Body(r)] \in Messages
      BY MessageKinds, MapsOfShape, BodyIsPieces DEF Accounted
    <2> QED BY <2>1, <2>2, PipeGrows
  <1>4. PICK k \in Nat : k = Len(pipe) /\ pipe'[k + 1] = m
    BY <1>3 DEF Longer
  <1>5. \A q \in Requests : ~Replies(k + 1, q)' /\ ~Carries(k + 1, q)'
    BY <1>3, <1>4 DEF Replies, Carries
  <1>6. Finished(r)
    BY FinishFinishes
  <1>7. ASSUME NEW q \in Requests \ lost' PROVE (Starts(q) => Starts(q)') /\ (Chain(q) => Chain(q)')
    <2>1. fetch'[q].phase = "open" => fetch'[q] = fetch[q] /\ (q \in live' <=> q \in live)
      BY <1>1, <1>6 DEF Finished
    <2> QED BY <1>2, <1>3, <1>4, <1>5, <2>1, ChainStays
  <1>8. lost \subseteq lost'
    BY <1>6 DEF Finished
  <1> QED BY <1>2, <1>7, <1>8 DEF Chained

\* The bytes a request hands over when its stream starts.
LEMMA TakenBytes ==
    ASSUME Accounted, Phased, Wholly, NEW r \in Requests \ lost
    PROVE  /\ Taken(r).from = 0
           /\ Taken(r).to # 0 => fetch[r].phase = "open" /\ r \notin live /\ Taken(r).to = fetch[r].body
           /\ fetch[r].phase = "open" /\ r \notin live => Taken(r).to = fetch[r].body
  <1>1. buffers \in Maps /\ completed \in Maps /\ now \in Nat
    BY MapsOfShape DEF Accounted, Archives
  <1>2. Taken(r) = IF r \in Ids(completed) THEN Get(completed, r)
                   ELSE IF r \in Ids(buffers) THEN Get(buffers, r) ELSE Piece(r, 0, 0, now)
    BY TakenIsPiece DEF Accounted
  <1>3. /\ r \in Ids(completed) <=> HasEntry(completed, r)
        /\ r \in Ids(buffers) <=> HasEntry(buffers, r)
    BY <1>1, EntryOfId
  <1>4. WholeOf(r) /\ PhaseOf(r)
    BY DEF Wholly, Phased
  <1>5. CASE r \in Ids(completed)
    <2>1. Get(completed, r) \in Entries(completed) /\ Get(completed, r).id = r
      BY <1>5, GetIsEntry
    <2> QED BY <1>2, <1>3, <1>4, <1>5, <2>1 DEF WholeOf, PhaseOf
  <1>6. CASE r \notin Ids(completed) /\ r \in Ids(buffers)
    <2>1. Get(buffers, r) \in Entries(buffers) /\ Get(buffers, r).id = r
      BY <1>6, GetIsEntry
    <2> QED BY <1>2, <1>3, <1>4, <1>6, <2>1 DEF WholeOf, PhaseOf
  <1>7. CASE r \notin Ids(completed) /\ r \notin Ids(buffers)
    <2>1. Taken(r).from = 0 /\ Taken(r).to = 0
      BY <1>2, <1>7 DEF Piece
    <2> QED BY <1>3, <1>4, <1>7, <2>1 DEF WholeOf
  <1> QED BY <1>5, <1>6, <1>7

\* The reply starts the stream with all bytes there were.
LEMMA StartStreamingChains ==
    ASSUME Accounted, Phased, Wholly, Chained, StartStreaming
    PROVE  Chained'
  <1>1. PICK r \in Requests : Handed(r)
    BY StartStreamingHands
  <1>2. UNCHANGED <<fetch, stream, streamed, lost>> /\ streamed \subseteq Requests /\ live' = live \cup {r}
    BY <1>1, Parts DEF StartStreaming, Handed, workVars, clientVars, KnownOK
  <1>3. Taken(r).from \in Nat /\ Taken(r).to \in Nat /\ now \in Nat
    BY TakenIsPiece, MapsOfShape DEF Accounted, Pieces
  <1>4. PICK m \in Messages : /\ m = [kind |-> "reply", id |-> r, from |-> Taken(r).from, to |-> Taken(r).to]
                              /\ pipe' = Append(pipe, m)
    BY <1>1, <1>3, MessageKinds DEF Handed
  <1>5. Longer(m) /\ m.kind = "reply" /\ m.id = r /\ m.from = Taken(r).from /\ m.to = Taken(r).to
    BY <1>4, PipeGrows
  <1>6. PICK k \in Nat : k = Len(pipe)
    BY <1>5 DEF Longer
  <1>7. DOMAIN pipe = 1..k /\ DOMAIN pipe' = 1..(k + 1) /\ pipe'[k + 1] = m /\ Len(pipe') = k + 1
        /\ \A i \in DOMAIN pipe : pipe'[i] = pipe[i]
    BY <1>5, <1>6 DEF Longer
  <1>8. ASSUME NEW q \in Requests, q # r PROVE (Starts(q) => Starts(q)') /\ (Chain(q) => Chain(q)')
    <2>1. ~Replies(k + 1, q)' /\ ~Carries(k + 1, q)'
      BY <1>5, <1>7, <1>8 DEF Replies, Carries
    <2>2. fetch'[q] = fetch[q] /\ (q \in live' <=> q \in live)
      BY <1>2, <1>8
    <2> QED BY <1>2, <1>5, <1>6, <2>1, <2>2, ChainStays
  <1>9. ASSUME r \notin lost, Starts(r) PROVE Starts(r)'
    <2>1. m.from = 0
      BY <1>5, <1>9, TakenBytes
    <2> QED BY <1>2, <1>5, <1>6, <1>9, <2>1, StartsStay
  <1>10. ASSUME r \notin lost, Chain(r) PROVE Chain(r)'
    <2>1. /\ m.from = 0
          /\ m.to # 0 => fetch[r].phase = "open" /\ r \notin live /\ m.to = fetch[r].body
          /\ fetch[r].phase = "open" /\ r \notin live => m.to = fetch[r].body
      BY <1>5, <1>10, TakenBytes
    <2>2. /\ \A i \in DOMAIN pipe : /\ Carries(i, r)' <=> Carries(i, r)
                                    /\ Replies(i, r)' <=> Replies(i, r)
          /\ \A i \in 1..(k + 1) : \A p : EndsAt(i, r, p)' <=> EndsAt(i, r, p)
      BY <1>2, <1>5, <1>6, BeforeGrows
    <2>3. Replies(k + 1, r)' /\ (Carries(k + 1, r)' <=> m.to # 0)
      BY <1>5, <1>7, <2>1 DEF Replies, Carries
    <2>4. fetch[r].phase = "open" /\ r \notin live => EndsAt(k + 1, r, 0)
      <3> SUFFICES ASSUME fetch[r].phase = "open", r \notin live PROVE EndsAt(k + 1, r, 0)
        OBVIOUS
      <3>1. ~stream[r].on /\ \A i \in DOMAIN pipe : ~Carries(i, r)
        BY <1>10 DEF Chain
      <3> QED BY <3>1 DEF EndsAt, Base, Before
    <2>5. ASSUME NEW i \in DOMAIN pipe', Carries(i, r)'
          PROVE  /\ EndsAt(i, r, pipe[i].from)'
                 /\ stream'[r].on \/ \E j \in DOMAIN pipe' : j <= i /\ Replies(j, r)'
      <3>1. PICK p : p = pipe'[i].from
        OBVIOUS
      <3>2. CASE i \in DOMAIN pipe
        <4>1. EndsAt(i, r, p) /\ (stream[r].on \/ \E j \in DOMAIN pipe : j <= i /\ Replies(j, r))
          BY <1>7, <1>10, <2>2, <2>5, <3>1, <3>2 DEF Chain
        <4>2. EndsAt(i, r, p)'
          BY <1>7, <2>2, <3>2, <4>1
        <4> QED BY <1>7, <1>2, <2>2, <3>1, <4>1, <4>2 DEF EndsAt
      <3>3. CASE i = k + 1
        <4>1. p = 0 /\ EndsAt(k + 1, r, 0)
          BY <1>7, <2>1, <2>3, <2>4, <2>5, <3>1, <3>3
        <4>2. EndsAt(i, r, p)'
          BY <2>2, <3>3, <4>1
        <4>3. \E j \in DOMAIN pipe' : j <= i /\ Replies(j, r)'
          BY <1>7, <2>3, <3>3
        <4> QED BY <3>1, <4>2, <4>3 DEF EndsAt
      <3> QED BY <1>7, <3>2, <3>3
    <2>6. ASSUME fetch[r].phase = "open" PROVE EndsAt(Len(pipe) + 1, r, fetch[r].body)'
      <3>1. EndsAt(k + 2, r, fetch[r].body)'
        <4>1. PICK p : p = fetch[r].body /\ p = fetch'[r].body
          BY <1>2
        <4>2. CASE r \in live
          <5>1. EndsAt(k + 1, r, p) /\ ~Carries(k + 1, r)'
            BY <1>6, <1>10, <2>1, <2>3, <2>6, <4>1, <4>2 DEF Chain
          <5>2. EndsAt(k + 2, r, p)'
            BY <1>2, <1>5, <1>6, <5>1, EndsBehind
          <5> QED BY <4>1, <5>2 DEF EndsAt
        <4>3. CASE r \notin live
          <5>1. m.to = p /\ EndsAt(k + 1, r, 0)
            BY <2>1, <2>4, <2>6, <4>1, <4>3
          <5>2. EndsAt(k + 2, r, p)'
            <6>1. CASE Carries(k + 1, r)'
              BY <1>2, <1>5, <1>6, <5>1, <6>1, EndsBehind
            <6>2. CASE ~Carries(k + 1, r)'
              <7>1. p = 0
                BY <2>3, <5>1, <6>2
              <7> QED BY <1>2, <1>5, <1>6, <5>1, <6>2, <7>1, EndsBehind
            <6> QED BY <6>1, <6>2
          <5> QED BY <4>1, <5>2 DEF EndsAt
        <4> QED BY <4>2, <4>3
      <3>2. (Len(pipe) + 1)' = k + 2
        BY <1>7
      <3> QED BY <3>1, <3>2 DEF EndsAt, Before
    <2>7. \E j \in DOMAIN pipe' : Replies(j, r)'
      BY <1>7, <2>3
    <2> QED BY <1>2, <2>5, <2>6, <2>7 DEF Chain
  <1> QED BY <1>2, <1>8, <1>9, <1>10 DEF Chained

\* What is behind a message that is taken.
LEMMA EndsOfShorter ==
    ASSUME Shorter, NEW q, Base(q)' = IF Carries(1, q) THEN pipe[1].to ELSE Base(q),
           NEW i \in Nat, 1 <= i, NEW p, EndsAt(i + 1, q, p)
    PROVE  EndsAt(i, q, p)'
  <1>1. PICK n \in Nat : n = Len(pipe) /\ DOMAIN pipe = 1..n /\ n # 0 /\ DOMAIN pipe' = 1..(n - 1)
    BY DEF Shorter
  <1>2. \A j \in 1..(n - 1) : j + 1 \in 1..n /\ pipe'[j] = pipe[j + 1] /\ (Carries(j, q)' <=> Carries(j + 1, q))
    BY <1>1 DEF Shorter, Carries
  <1>3. \A j \in Before(i, q)' : j + 1 \in Before(i + 1, q) /\ j \in 1..(n - 1)
    BY <1>1, <1>2 DEF Before
  <1>4. CASE Before(i + 1, q) = {}
    <2>1. ~Carries(1, q)
      BY <1>1, <1>4 DEF Before
    <2>2. Before(i, q)' = {}
      BY <1>3, <1>4
    <2> QED BY <1>4, <2>1, <2>2 DEF EndsAt
  <1>5. ASSUME NEW j \in Before(i + 1, q), pipe[j].to = p, \A k \in Before(i + 1, q) : k <= j
        PROVE  EndsAt(i, q, p)'
    <2>1. j \in 1..n /\ j < i + 1 /\ Carries(j, q)
      BY <1>1, <1>5 DEF Before
    <2>2. CASE j = 1
      <3>1. ASSUME NEW k \in Before(i, q)' PROVE FALSE
        <4>1. k + 1 <= 1 /\ k \in 1..(n - 1)
          BY <1>3, <1>5, <2>2
        <4> QED BY <4>1
      <3>2. Before(i, q)' = {}
        BY <3>1
      <3> QED BY <1>5, <2>1, <2>2, <3>2 DEF EndsAt
    <2>3. CASE j # 1
      <3>1. PICK h \in 1..(n - 1) : h + 1 = j
        BY <2>1, <2>3
      <3>2. Carries(h, q)' /\ pipe'[h].to = p /\ h < i
        BY <1>2, <1>5, <2>1, <3>1
      <3>3. h \in Before(i, q)'
        BY <1>1, <3>2 DEF Before
      <3>4. ASSUME NEW k \in Before(i, q)' PROVE k <= h
        <4>1. k + 1 <= j /\ k \in 1..(n - 1)
          BY <1>3, <1>5
        <4> QED BY <3>1, <4>1
      <3> QED BY <3>2, <3>3, <3>4 DEF EndsAt
    <2> QED BY <2>2, <2>3
  <1> QED BY <1>4, <1>5 DEF EndsAt

\* The chain of a request whose client takes the first message as it should.
LEMMA ChainOfShorter ==
    ASSUME Shorter, NEW q \in Requests, UNCHANGED <<fetch, live>>,
           Base(q)' = IF Carries(1, q) THEN pipe[1].to ELSE Base(q),
           stream[q].on => stream'[q].on, Replies(1, q) => stream'[q].on,
           ~Carries(1, q) /\ ~Replies(1, q) => stream'[q].on = stream[q].on,
           Chain(q)
    PROVE  Chain(q)'
  <1>1. PICK n \in Nat : n = Len(pipe) /\ DOMAIN pipe = 1..n /\ n # 0 /\ DOMAIN pipe' = 1..(n - 1)
                         /\ Len(pipe') = n - 1
    BY DEF Shorter
  <1>2. \A j \in 1..(n - 1) : /\ j + 1 \in 1..n /\ pipe'[j] = pipe[j + 1]
                              /\ Carries(j, q)' <=> Carries(j + 1, q)
                              /\ Replies(j, q)' <=> Replies(j + 1, q)
    BY <1>1 DEF Shorter, Carries, Replies
  <1>3. ASSUME NEW j \in 1..n, Replies(j, q)
        PROVE  stream'[q].on \/ \E k \in 1..(n - 1) : k + 1 = j /\ Replies(k, q)'
    <2>1. CASE j = 1
      BY <1>3, <2>1
    <2>2. CASE j # 1
      <3>1. PICK k \in 1..(n - 1) : k + 1 = j
        BY <1>3, <2>2
      <3> QED BY <1>2, <1>3, <3>1
    <2> QED BY <2>1, <2>2
  <1>4. ASSUME NEW i \in DOMAIN pipe', Carries(i, q)'
        PROVE  /\ EndsAt(i, q, pipe[i].from)'
               /\ stream'[q].on \/ \E j \in DOMAIN pipe' : j <= i /\ Replies(j, q)'
    <2>1. i \in 1..(n - 1) /\ i + 1 \in DOMAIN pipe /\ Carries(i + 1, q)
      BY <1>1, <1>2, <1>4
    <2>2. PICK p : p = pipe'[i].from /\ p = pipe[i + 1].from
      BY <1>2, <2>1
    <2>3. EndsAt(i + 1, q, p) /\ (stream[q].on \/ \E j \in DOMAIN pipe : j <= i + 1 /\ Replies(j, q))
      BY <2>1, <2>2 DEF Chain
    <2>4. EndsAt(i, q, p)'
      BY <2>1, <2>3, EndsOfShorter
    <2>5. stream'[q].on \/ \E j \in DOMAIN pipe' : j <= i /\ Replies(j, q)'
      <3>1. CASE stream[q].on
        BY <3>1
      <3>2. ASSUME NEW j \in DOMAIN pipe, j <= i + 1, Replies(j, q)
            PROVE  stream'[q].on \/ \E k \in DOMAIN pipe' : k <= i /\ Replies(k, q)'
        <4>1. j \in 1..n
          BY <1>1
        <4>2. stream'[q].on \/ \E k \in 1..(n - 1) : k + 1 = j /\ Replies(k, q)'
          BY <1>3, <3>2, <4>1
        <4>3. \A k \in 1..(n - 1) : k + 1 = j => k <= i
          BY <2>1, <3>2
        <4> QED BY <1>1, <4>2, <4>3
      <3> QED BY <2>3, <3>1, <3>2
    <2> QED BY <2>2, <2>4, <2>5 DEF EndsAt
  <1>5. ASSUME fetch'[q].phase = "open"
        PROVE  IF q \in live'
               THEN /\ EndsAt(Len(pipe) + 1, q, fetch[q].body)'
                    /\ stream'[q].on \/ \E j \in DOMAIN pipe' : Replies(j, q)'
               ELSE ~stream'[q].on /\ \A i \in DOMAIN pipe' : ~Carries(i, q)' /\ ~Replies(i, q)'
    <2>1. CASE q \in live
      <3>1. PICK p : p = fetch[q].body /\ p = fetch'[q].body
        OBVIOUS
      <3>2. EndsAt(n + 1, q, p) /\ (stream[q].on \/ \E j \in DOMAIN pipe : Replies(j, q))
        BY <1>1, <1>5, <2>1, <3>1 DEF Chain
      <3>3. EndsAt(n, q, p)'
        <4>1. 1 <= n
          BY <1>1
        <4> QED BY <3>2, <4>1, EndsOfShorter
      <3>4. (Len(pipe) + 1)' = n
        BY <1>1
      <3>5. EndsAt(Len(pipe) + 1, q, fetch[q].body)'
        BY <3>1, <3>3, <3>4 DEF EndsAt, Before
      <3>6. stream'[q].on \/ \E j \in DOMAIN pipe' : Replies(j, q)'
        BY <1>1, <1>3, <3>2
      <3> QED BY <2>1, <3>5, <3>6
    <2>2. CASE q \notin live
      <3>1. ~stream[q].on /\ \A i \in DOMAIN pipe : ~Carries(i, q) /\ ~Replies(i, q)
        BY <1>5, <2>2 DEF Chain
      <3>2. 1 \in DOMAIN pipe
        BY <1>1
      <3> QED BY <1>1, <1>2, <2>2, <3>1, <3>2
    <2> QED BY <2>1, <2>2
  <1> QED BY <1>4, <1>5 DEF Chain

\* The client takes the first message as it should.
TakesWell(q) ==
    /\ Base(q)' = IF Carries(1, q) THEN pipe[1].to ELSE Base(q)
    /\ stream[q].on => stream'[q].on
    /\ Replies(1, q) => stream'[q].on
    /\ ~Carries(1, q) /\ ~Replies(1, q) => stream'[q].on = stream[q].on

\* A message that brings no bytes of the request leaves its chain.
LEMMA NothingTaken ==
    ASSUME NEW q, stream'[q] = stream[q], ~Carries(1, q), ~Replies(1, q)
    PROVE  TakesWell(q)
  BY DEF TakesWell, Base

\* Bytes that come behind the others join them.
LEMMA BytesJoin ==
    ASSUME NEW m, NEW q, stream[q] \in [on : BOOLEAN, from : Nat, to : Nat, gap : BOOLEAN],
           stream[q].on, m.from # m.to => m.from = stream[q].to, stream'[q] = Joined(stream[q], m)
    PROVE  /\ stream'[q].on /\ stream'[q].from = stream[q].from /\ stream'[q].gap = stream[q].gap
           /\ stream'[q].to = IF m.from # m.to THEN m.to ELSE stream[q].to
  <1>1. CASE m.from = m.to
    BY <1>1 DEF Joined
  <1>2. CASE m.from # m.to
    <2>1. stream'[q] = [stream[q] EXCEPT !.to = m.to]
      BY <1>2 DEF Joined
    <2> QED BY <1>2, <2>1
  <1> QED BY <1>1, <1>2

\* The first message of a chain follows what the client has.
LEMMA FirstFits ==
    ASSUME Shorter, NEW q, Chain(q), Carries(1, q)
    PROVE  pipe[1].from = Base(q) /\ (stream[q].on \/ Replies(1, q))
  <1>1. PICK n \in Nat : n # 0 /\ DOMAIN pipe = 1..n
    BY DEF Shorter
  <1>2. Before(1, q) = {}
    BY <1>1 DEF Before
  <1>3. EndsAt(1, q, pipe[1].from) /\ (stream[q].on \/ \E j \in DOMAIN pipe : j <= 1 /\ Replies(j, q))
    BY <1>1 DEF Chain
  <1>4. \A j \in DOMAIN pipe : j <= 1 => j = 1
    BY <1>1
  <1> QED BY <1>2, <1>3, <1>4 DEF EndsAt

\* A reply, or data, of a streamed request whose chain is sound.
LEMMA ReplyTaken ==
    ASSUME Accounted, Shorter, NEW m \in Messages, m = pipe[1], m.kind = "reply", OnReply(m),
           Starts(m.id), m.id \in streamed, Chain(m.id)
    PROVE  /\ TakesWell(m.id)
           /\ stream'[m.id].on /\ stream'[m.id].from = 0 /\ ~stream'[m.id].gap
  <1> DEFINE q == m.id
  <1>1. /\ stream \in [Requests -> [on : BOOLEAN, from : Nat, to : Nat, gap : BOOLEAN]]
        /\ q \in Requests /\ m.from \in Nat /\ m.to \in Nat
    BY Parts, MessageParts DEF ClientOK
  <1>2. Replies(1, q) /\ (Carries(1, q) <=> m.from # m.to) /\ 1 \in DOMAIN pipe
    BY DEF Replies, Carries, Shorter
  <1>3. m.from = 0
    BY <1>2 DEF Starts
  <1>4. CASE stream[q].on
    <2>1. stream'[q] = Joined(stream[q], m)
      BY <1>1, <1>4 DEF OnReply
    <2>2. m.from # m.to => m.from = stream[q].to
      BY <1>2, <1>4, FirstFits DEF Base
    <2>3. /\ stream'[q].on /\ stream'[q].from = stream[q].from /\ stream'[q].gap = stream[q].gap
          /\ stream'[q].to = IF m.from # m.to THEN m.to ELSE stream[q].to
      BY <1>1, <1>4, <2>1, <2>2, BytesJoin
    <2>4. TakesWell(q)
      BY <1>2, <1>4, <2>3 DEF TakesWell, Base
    <2> QED BY <1>4, <2>3, <2>4 DEF Starts
  <1>5. CASE ~stream[q].on
    <2>1. stream'[q] = [on |-> TRUE, from |-> m.from, to |-> m.to, gap |-> FALSE]
      BY <1>1, <1>5 DEF OnReply
    <2>2. stream'[q].on /\ stream'[q].to = m.to
      BY <2>1
    <2>3. Base(q)' = m.to /\ Base(q) = 0
      BY <1>5, <2>2 DEF Base
    <2>4. Base(q)' = IF Carries(1, q) THEN pipe[1].to ELSE Base(q)
      BY <1>2, <1>3, <2>3
    <2>5. TakesWell(q)
      BY <1>2, <1>5, <2>2, <2>4 DEF TakesWell
    <2> QED BY <1>3, <2>1, <2>5
  <1> QED BY <1>4, <1>5

\* The client joins the bytes of a data event to those it has.
LEMMA DataTaken ==
    ASSUME Accounted, Shorter, NEW m \in Messages, m = pipe[1], m.kind = "data", OnData(m), Known(m.id),
           Starts(m.id), m.id \in streamed, Chain(m.id)
    PROVE  TakesWell(m.id) /\ Starts(m.id)'
  <1> DEFINE q == m.id
  <1>1. /\ stream \in [Requests -> [on : BOOLEAN, from : Nat, to : Nat, gap : BOOLEAN]]
        /\ q \in Requests /\ m.from \in Nat /\ m.to \in Nat
    BY Parts, MessageParts DEF ClientOK
  <1>2. ~Replies(1, q) /\ (Carries(1, q) <=> m.from # m.to) /\ 1 \in DOMAIN pipe
    BY DEF Replies, Carries, Shorter
  <1>3. stream'[q] = Joined(stream[q], m)
    BY <1>1 DEF OnData
  <1>4. \A i \in DOMAIN pipe' : i + 1 \in DOMAIN pipe /\ pipe'[i] = pipe[i + 1]
    BY DEF Shorter
  <1>5. \A i \in DOMAIN pipe' : Replies(i, q)' => pipe'[i].from = 0
    BY <1>4 DEF Replies, Starts
  <1>6. CASE m.from = m.to
    <2>1. stream'[q] = stream[q]
      BY <1>3, <1>6 DEF Joined
    <2>2. TakesWell(q)
      BY <1>2, <1>6, <2>1, NothingTaken
    <2> QED BY <1>5, <2>1, <2>2 DEF Starts
  <1>7. CASE m.from # m.to
    <2>1. Carries(1, q) /\ stream[q].on /\ m.from = stream[q].to
      BY <1>2, <1>7, FirstFits DEF Base
    <2>2. /\ stream'[q].on /\ stream'[q].from = stream[q].from /\ stream'[q].gap = stream[q].gap
          /\ stream'[q].to = m.to
      BY <1>1, <1>3, <1>7, <2>1, BytesJoin
    <2>3. TakesWell(q)
      BY <1>2, <2>1, <2>2 DEF TakesWell, Base
    <2> QED BY <1>5, <2>1, <2>2, <2>3 DEF Starts
  <1> QED BY <1>6, <1>7

\* What the worker takes from the front of the pipe it hands to the client.
LEMMA ReceiveChains ==
    ASSUME Accounted, AnnouncedOnce, Chained, Receive
    PROVE  Chained'
  <1>1. Shorter /\ UNCHANGED <<fetch, live, lost, enabled>>
    BY PipeShrinks, Taking DEF mainVars
  <1>2. PICK m \in Messages : m = Head(pipe) /\ m = pipe[1] /\ 1 \in DOMAIN pipe /\ m.id \in Requests
    BY <1>1, Taking, MessageParts DEF Shorter
  <1>3. /\ stream \in [Requests -> [on : BOOLEAN, from : Nat, to : Nat, gap : BOOLEAN]]
        /\ streamed \subseteq Requests
    BY Parts DEF ClientOK, KnownOK
  <1>4. \A i \in DOMAIN pipe' : i + 1 \in DOMAIN pipe /\ pipe'[i] = pipe[i + 1]
    BY <1>1 DEF Shorter
  <1>5. ASSUME NEW q \in Requests, Starts(q), stream'[q] = stream[q] \/ ~stream'[q].on PROVE Starts(q)'
    <2>1. \A i \in DOMAIN pipe' : Replies(i, q)' => pipe'[i].from = 0
      BY <1>4, <1>5 DEF Replies, Starts
    <2> QED BY <1>5, <2>1 DEF Starts
  <1>6. ASSUME NEW q \in Requests, Chain(q), TakesWell(q) PROVE Chain(q)'
    BY <1>1, <1>6, ChainOfShorter DEF TakesWell
  <1>7. ASSUME NEW q \in Requests, Chain(q), stream'[q] = stream[q], ~Carries(1, q), ~Replies(1, q)
        PROVE  Chain(q)'
    BY <1>6, <1>7, NothingTaken
  <1>8. ASSUME NEW q \in Requests, q # m.id PROVE ~Carries(1, q) /\ ~Replies(1, q)
    BY <1>2, <1>8 DEF Carries, Replies
  <1>9. (~enabled => announced = {}) /\ streamed \subseteq announced
    BY OnceParts
  <1>10. CASE m.kind = "reply" /\ OnReply(m)
    <2>1. streamed' = streamed /\ \A q \in Requests \ {m.id} : stream'[q] = stream[q]
      BY <1>2, <1>3, <1>10 DEF OnReply, workVars
    <2>2. m.id \notin streamed => stream' = stream
      BY <1>10 DEF OnReply
    <2>3. ASSUME NEW q \in Requests \ lost PROVE Starts(q)'
      <3>1. CASE q \in streamed /\ q = m.id
        <4>1. Starts(q) /\ Chain(q)
          BY <2>3, <3>1 DEF Chained
        <4>2. stream'[q].on /\ stream'[q].from = 0 /\ ~stream'[q].gap
          BY <1>1, <1>2, <1>10, <3>1, <4>1, ReplyTaken
        <4>3. \A i \in DOMAIN pipe' : Replies(i, q)' => pipe'[i].from = 0
          BY <1>4, <4>1 DEF Replies, Starts
        <4> QED BY <4>2, <4>3 DEF Starts
      <3>2. CASE q \notin streamed \/ q # m.id
        BY <1>5, <2>1, <2>2, <2>3, <3>2 DEF Chained
      <3> QED BY <3>1, <3>2
    <2>4. ASSUME NEW q \in streamed \ lost PROVE Chain(q)'
      <3>1. q \in Requests /\ Chain(q) /\ Starts(q)
        BY <1>3, <2>4 DEF Chained
      <3>2. CASE q = m.id
        BY <1>1, <1>2, <1>6, <1>10, <2>4, <3>1, <3>2, ReplyTaken
      <3>3. CASE q # m.id
        BY <1>7, <1>8, <2>1, <3>1, <3>3
      <3> QED BY <3>2, <3>3
    <2> QED BY <1>1, <2>1, <2>3, <2>4 DEF Chained
  <1>11. ASSUME stream' = stream, streamed' \subseteq streamed,
                \A q \in streamed' \ lost : ~Carries(1, q) /\ ~Replies(1, q)
         PROVE  Chained'
    <2>1. \A q \in Requests \ lost : Starts(q)'
      BY <1>5, <1>11 DEF Chained
    <2>2. \A q \in streamed' \ lost : Chain(q)'
      BY <1>3, <1>7, <1>11 DEF Chained
    <2> QED BY <1>1, <2>1, <2>2 DEF Chained
  <1>12. CASE m.kind # "reply" /\ ~enabled /\ UNCHANGED <<workVars, clientVars>>
    BY <1>9, <1>11, <1>12 DEF workVars, clientVars
  <1>13. CASE m.kind = "request" /\ enabled /\ OnRequest(m)
    <2>1. stream' = stream /\ streamed' \subseteq streamed
      BY <1>13 DEF OnRequest, Keep
    <2>2. \A q : ~Carries(1, q) /\ ~Replies(1, q)
      BY <1>2, <1>13 DEF Carries, Replies
    <2> QED BY <1>11, <2>1, <2>2
  <1>14. CASE m.kind = "data" /\ enabled /\ OnData(m)
    <2>1. CASE ~Known(m.id)
      <3>1. stream' = stream /\ streamed' = streamed
        BY <1>14, <2>1 DEF OnData, workVars, clientVars
      <3>2. m.id \notin streamed
        BY <1>9, <2>1 DEF Known
      <3> QED BY <1>3, <1>8, <1>11, <3>1, <3>2
    <2>2. CASE Known(m.id)
      <3>1. streamed' = streamed /\ \A q \in Requests \ {m.id} : stream'[q] = stream[q]
        BY <1>2, <1>3, <1>14, <2>2 DEF OnData
      <3>2. m.id \notin streamed => stream' = stream
        BY <1>14, <2>2 DEF OnData
      <3>3. ASSUME NEW q \in Requests \ lost PROVE Starts(q)'
        <4>1. CASE q \in streamed /\ q = m.id
          <5>1. Starts(q) /\ Chain(q)
            BY <3>3, <4>1 DEF Chained
          <5> QED BY <1>1, <1>2, <1>14, <2>2, <4>1, <5>1, DataTaken
        <4>2. CASE q \notin streamed \/ q # m.id
          BY <1>5, <3>1, <3>2, <3>3, <4>2 DEF Chained
        <4> QED BY <4>1, <4>2
      <3>4. ASSUME NEW q \in streamed \ lost PROVE Chain(q)'
        <4>1. q \in Requests /\ Chain(q) /\ Starts(q)
          BY <1>3, <3>4 DEF Chained
        <4>2. CASE q = m.id
          BY <1>1, <1>2, <1>6, <1>14, <2>2, <3>4, <4>1, <4>2, DataTaken
        <4>3. CASE q # m.id
          BY <1>7, <1>8, <3>1, <4>1, <4>3
        <4> QED BY <4>2, <4>3
      <3> QED BY <1>1, <3>1, <3>3, <3>4 DEF Chained
    <2> QED BY <2>1, <2>2
  <1>15. CASE m.kind = "done" /\ enabled /\ OnDone(m)
    <2>1. streamed' \subseteq streamed /\ stream' = [stream EXCEPT ![m.id] = NoStream]
      BY <1>15 DEF OnDone, Keep
    <2>2. ~stream'[m.id].on /\ \A q \in Requests \ {m.id} : stream'[q] = stream[q]
      BY <1>2, <1>3, <2>1 DEF NoStream
    <2>3. \A q : ~Carries(1, q) /\ ~Replies(1, q)
      BY <1>2, <1>15 DEF Carries, Replies
    <2>4. m.id \notin streamed'
      BY <1>15 DEF OnDone, Keep
    <2>5. ASSUME NEW q \in Requests \ lost PROVE Starts(q)'
      BY <1>5, <2>2, <2>5 DEF Chained
    <2>6. ASSUME NEW q \in streamed' \ lost PROVE Chain(q)'
      BY <1>3, <1>7, <2>1, <2>2, <2>3, <2>4, <2>6 DEF Chained
    <2> QED BY <1>1, <2>5, <2>6 DEF Chained
  <1> QED BY <1>2, <1>10, <1>12, <1>13, <1>14, <1>15, Taking

\* The client asks for a request whose bytes are with the main thread still.
LEMMA AskChains ==
    ASSUME Accounted, AnnouncedOnce, StreamedIfAsked, Chained, NEW r \in Requests, Ask(r)
    PROVE  Chained'
  <1>1. UNCHANGED <<pipe, fetch, live, lost, stream>> /\ streamed' = streamed \cup {r} /\ r \in announced
    BY DEF Ask, mainVars, clientVars, Known
  <1>2. streamed \subseteq Requests
    BY Parts DEF KnownOK
  <1>3. \A q \in Requests : (Starts(q) => Starts(q)') /\ (Chain(q) => Chain(q)')
    BY <1>1, ChainUnsent
  <1>4. ASSUME r \notin streamed PROVE Chain(r)
    <2>1. ~Traces(r)
      BY <1>1, <1>4 DEF StreamedIfAsked, Past
    <2> QED BY <2>1 DEF Traces, Chain
  <1> QED BY <1>1, <1>2, <1>3, <1>4 DEF Chained

\* Chained is preserved.
LEMMA ChainedNext ==
    ASSUME Accounted, Phases, AnnouncedOnce, KeptWhole, StreamedIfAsked, Chained, [Next]_vars
    PROVE  Chained'
  <1>1. Phased /\ Wholly
    BY PhasesByEntry, KeptByEntry
  <1>2. streamed \subseteq Requests
    BY Parts DEF KnownOK
  <1>3. CASE \E r \in Requests : Begin(r) \/ Finish(r) \/ Ask(r) \/ \E n \in 1..2 : Chunk(r, n)
    BY <1>3, BeginChains, FinishChains, AskChains, ChunkChains
  <1>4. CASE StartStreaming
    BY <1>1, <1>4, StartStreamingChains
  <1>5. CASE Receive
    BY <1>5, ReceiveChains
  <1>6. CASE Enable \/ Tick \/ UNCHANGED vars
    <2>1. UNCHANGED <<pipe, fetch, live, lost, stream, streamed>>
      BY <1>6 DEF Enable, Tick, vars, mainVars, workVars, clientVars
    <2>2. \A q \in Requests : (Starts(q) => Starts(q)') /\ (Chain(q) => Chain(q)')
      BY <2>1, ChainUnsent
    <2> QED BY <1>2, <2>1, <2>2 DEF Chained
  <1>7. CASE Disable
    <2>1. UNCHANGED <<pipe, lost>> /\ streamed' = {} /\ \A q \in Requests : ~stream'[q].on
      BY <1>7 DEF Disable, mainVars, NoStream
    <2>2. ASSUME NEW q \in Requests \ lost PROVE Starts(q)'
      <3>1. \A i \in DOMAIN pipe' : Replies(i, q)' => pipe'[i].from = 0
        BY <2>1, <2>2 DEF Chained, Starts, Replies
      <3> QED BY <2>1, <3>1 DEF Starts
    <2> QED BY <2>1, <2>2 DEF Chained
  <1> QED BY <1>3, <1>4, <1>5, <1>6, <1>7 DEF Next

-----------------------------------------------------------------------------
(* What is delivered when a request is done, and what is cached.           *)

\* A finished request does not change any more, and what is lost stays lost.
LEMMA DoneStays ==
    ASSUME Accounted, [Next]_vars
    PROVE  /\ \A q \in Requests : fetch[q].phase = "done" => fetch'[q] = fetch[q]
           /\ lost \subseteq lost'
  <1>1. CASE MainSame
    BY <1>1 DEF MainSame, mainVars
  <1>2. ASSUME NEW r \in Requests, NEW n \in 1..2, Chunk(r, n)
        PROVE  /\ \A q \in Requests : fetch[q].phase = "done" => fetch'[q] = fetch[q]
               /\ lost \subseteq lost'
    <2>1. lost \subseteq lost'
      BY <1>2, ChunkCases DEF Streams, Discards, Chunked, mainVars
    <2> QED BY <1>2, <2>1, ChunkGrows
  <1>3. ASSUME NEW r \in Requests, Begin(r)
        PROVE  /\ \A q \in Requests : fetch[q].phase = "done" => fetch'[q] = fetch[q]
               /\ lost \subseteq lost'
    BY <1>3, PhaseChanges DEF mainVars
  <1>4. ASSUME NEW r \in Requests, Finish(r)
        PROVE  /\ \A q \in Requests : fetch[q].phase = "done" => fetch'[q] = fetch[q]
               /\ lost \subseteq lost'
    BY <1>4, PhaseChanges, FinishFinishes DEF Finished
  <1>5. CASE StartStreaming
    BY <1>5 DEF StartStreaming
  <1> QED BY <1>1, <1>2, <1>3, <1>4, <1>5, MainSteps

\* The worker notes no body of a streamed request as one it may have.
NotedAsLive == \A r \in streamed : pending[r] \in {"none", "live"}

\* What a Done message of the request may bring.
Brings(m) ==
    /\ fetch[m.id].phase = "done"
    /\ m.id \notin lost =>
         /\ \A e \in m.body : e.from = 0 /\ e.to = fetch[m.id].body
         /\ m.body = {} => fetch[m.id].body = 0 \/ m.id \in streamed \/ Past(m.id)

\* What an entry of the cache is.
IsCached(e) == fetch[e.id].phase = "done" /\ (e.id \notin lost /\ ~e.cut => Whole(e))

\* Delivered, by what each message brings and what is cached.
LEMMA DeliveredParts ==
    Delivered <=> /\ NotedAsLive
                  /\ \A i \in DOMAIN pipe : pipe[i].kind = "done" => Brings(pipe[i])
                  /\ \A i \in DOMAIN cache : IsCached(cache[i])
  BY DEF Delivered, NotedAsLive, Brings, IsCached

\* The same in the next state.
LEMMA DeliveredPartsNext ==
    Delivered' <=> /\ NotedAsLive'
                   /\ \A i \in DOMAIN pipe' : pipe'[i].kind = "done" => Brings(pipe[i])'
                   /\ \A i \in DOMAIN cache' : IsCached(cache[i])'
  BY DEF Delivered, NotedAsLive, Brings, IsCached, Past, Announces, Whole

\* A message and an entry keep their sense.
LEMMA BringsStays ==
    ASSUME Accounted, AnnouncedOnce, [Next]_vars, NEW m \in Messages, Brings(m)
    PROVE  Brings(m)'
  <1>1. m.id \in Requests
    BY MessageParts
  <1>2. fetch'[m.id] = fetch[m.id] /\ lost \subseteq lost'
    BY <1>1, DoneStays DEF Brings
  <1>3. m.id \in streamed \/ Past(m.id) => m.id \in streamed' \/ Past(m.id)'
    BY <1>1, PastStays, StreamedEnds
  <1> QED BY <1>2, <1>3 DEF Brings

\* A cached body stays whole, because its request is done.
LEMMA CachedStays ==
    ASSUME Accounted, [Next]_vars, NEW e \in Bodies, IsCached(e)
    PROVE  IsCached(e)'
  <1>1. e.id \in Requests
    BY DEF Bodies
  <1>2. fetch'[e.id] = fetch[e.id] /\ lost \subseteq lost'
    BY <1>1, DoneStays DEF IsCached
  <1> QED BY <1>2 DEF IsCached, Whole

\* No body is collected in the worker for a streamed request.
LEMMA NotedNext ==
    ASSUME Accounted, AnnouncedOnce, NotedAsLive, [Next]_vars
    PROVE  NotedAsLive'
  <1>1. pending \in [Requests -> {"none", "live", "open", "cut"}] /\ streamed \subseteq Requests
    BY Parts DEF KnownOK
  <1>2. ASSUME streamed' \subseteq streamed, \A q \in streamed' : pending'[q] \in {pending[q], "none", "live"}
        PROVE  NotedAsLive'
    BY <1>2 DEF NotedAsLive
  <1>3. CASE WorkSame
    BY <1>2, <1>3 DEF WorkSame, workVars
  <1>4. CASE Receive
    <2>1. PICK m \in Messages : m = Head(pipe)
      BY <1>4, Taking
    <2>2. m.id \in Requests
      BY MessageParts
    <2>3. CASE m.kind = "reply" /\ OnReply(m)
      BY <1>2, <2>3 DEF OnReply, workVars
    <2>4. CASE UNCHANGED <<workVars, clientVars>>
      BY <1>2, <2>4 DEF workVars
    <2>5. CASE m.kind = "request" /\ OnRequest(m)
      <3>1. PICK gone : streamed' = streamed \ gone
                        /\ pending' = [r \in Requests |-> IF r \in gone THEN "none" ELSE pending[r]]
        BY <2>5 DEF OnRequest, Keep
      <3> QED BY <1>1, <1>2, <3>1
    <2>6. CASE m.kind = "data" /\ OnData(m)
      <3>1. CASE ~Known(m.id)
        BY <2>4, <2>6, <3>1 DEF OnData
      <3>2. CASE Known(m.id)
        <4> DEFINE entry == IF pending[m.id] = "none" THEN IF m.id \in streamed THEN "live" ELSE "open" ELSE pending[m.id]
                   new == IF entry = "open" /\ ~(m.size <= Preview /\ 2 * m.size <= Preview) THEN "cut" ELSE entry
        <4>1. streamed' = streamed /\ pending' = [pending EXCEPT ![m.id] = new]
          BY <2>6, <3>2 DEF OnData
        <4>2. m.id \in streamed => entry \in {"none", "live"}
          BY DEF NotedAsLive
        <4>3. m.id \in streamed => new \in {"none", "live"}
          BY <4>2
        <4> HIDE DEF new, entry
        <4>4. pending'[m.id] = new /\ \A q \in Requests \ {m.id} : pending'[q] = pending[q]
          BY <1>1, <2>2, <4>1
        <4> QED BY <1>1, <1>2, <4>1, <4>3, <4>4
      <3> QED BY <3>1, <3>2
    <2>7. CASE m.kind = "done" /\ OnDone(m)
      <3>1. PICK gone : streamed' = (streamed \ {m.id}) \ gone
                        /\ pending' = [r \in Requests |-> IF r \in gone THEN "none"
                                                          ELSE [pending EXCEPT ![m.id] = "none"][r]]
        BY <2>7 DEF OnDone, Keep
      <3> QED BY <1>1, <1>2, <3>1
    <2> QED BY <1>4, <2>1, <2>3, <2>4, <2>5, <2>6, <2>7, Taking
  <1>5. CASE Enable
    BY <1>2, <1>5 DEF Enable, workVars
  <1>6. CASE Disable
    BY <1>6 DEF Disable, NotedAsLive
  <1>7. ASSUME NEW r \in Requests, Ask(r) PROVE NotedAsLive'
    <2>1. streamed' = streamed \cup {r} /\ pending'[r] = "none"
          /\ \A q \in Requests \ {r} : pending'[q] = pending[q]
      BY <1>1, <1>7 DEF Ask
    <2> QED BY <1>1, <2>1 DEF NotedAsLive
  <1> QED BY <1>3, <1>4, <1>5, <1>6, <1>7, WorkSteps

\* The Done message of a request that finishes.
LEMMA FinishBrings ==
    ASSUME Accounted, Phases, KeptWhole, AnnouncedOnce, StreamedIfAsked, NEW r \in Requests, Finish(r), Next,
           NEW m, m = [kind |-> "done", id |-> r, at |-> now, body |-> Body(r)]
    PROVE  Brings(m)'
  <1>1. fetch[r].phase = "open" /\ fetch'[r].phase = "done" /\ fetch'[r].body = fetch[r].body /\ lost \subseteq lost'
    BY PhaseChanges, DoneStays
  <1>2. streamed' = streamed /\ (Past(r) => Past(r)')
    BY PastStays DEF Finish, workVars
  <1>3. ASSUME r \notin lost
        PROVE  /\ \A e \in Body(r) : e.from = 0 /\ e.to = fetch[r].body
               /\ Body(r) = {} => fetch[r].body = 0 \/ r \in streamed \/ Past(r)
    <2>1. WholeOf(r) /\ fetch[r].body \in Nat
      BY <1>3, KeptByEntry, MapsOfShape, BoundsAssumption DEF Wholly, Accounted
    <2>2. buffers \in Maps /\ completed \in Maps
      BY MapsOfShape DEF Accounted, Archives
    <2>3. /\ r \in Ids(completed) <=> HasEntry(completed, r)
          /\ r \in Ids(buffers) <=> HasEntry(buffers, r)
      BY <2>2, EntryOfId
    <2>4. CASE r \in Ids(completed)
      <3>1. Get(completed, r) \in Entries(completed) /\ Get(completed, r).id = r
        BY <2>4, GetIsEntry
      <3>2. Body(r) = {Get(completed, r)}
        BY <2>4 DEF Body
      <3> QED BY <2>1, <3>1, <3>2 DEF WholeOf
    <2>5. CASE r \notin Ids(completed)
      <3>1. Body(r) = {e \in Entries(buffers) : e.id = r /\ Size(e) > 0}
        BY <2>5 DEF Body, Entries
      <3>2. \A e \in Body(r) : e.from = 0 /\ e.to = fetch[r].body
        BY <2>1, <3>1 DEF WholeOf
      <3>3. ASSUME Body(r) = {} PROVE fetch[r].body = 0 \/ r \in streamed \/ Past(r)
        <4>1. ~HasEntry(buffers, r)
          <5> SUFFICES ASSUME NEW e \in Entries(buffers), e.id = r PROVE FALSE
            BY DEF HasEntry
          <5>1. e.from = 0 /\ e.to = fetch[r].body /\ fetch[r].body # 0
            BY <2>1 DEF WholeOf
          <5>2. Size(e) > 0
            BY <2>1, <5>1 DEF Size
          <5> QED BY <3>1, <3>3, <5>2
        <4>2. CASE r \in live
          BY <4>2 DEF StreamedIfAsked, Traces
        <4>3. CASE r \notin live
          BY <1>1, <2>1, <2>3, <2>5, <4>1, <4>3 DEF WholeOf
        <4> QED BY <4>2, <4>3
      <3> QED BY <3>2, <3>3
    <2> QED BY <2>4, <2>5
  <1>4. m.id = r /\ m.body = Body(r)
    OBVIOUS
  <1> QED BY <1>1, <1>2, <1>3, <1>4 DEF Brings

\* Every Done message brings the whole body of its request, if nothing is lost.
LEMMA PipeBrings ==
    ASSUME Accounted, Phases, KeptWhole, AnnouncedOnce, StreamedIfAsked, Delivered, [Next]_vars
    PROVE  \A i \in DOMAIN pipe' : pipe'[i].kind = "done" => Brings(pipe[i])'
  <1> SUFFICES ASSUME NEW i \in DOMAIN pipe', pipe'[i].kind = "done" PROVE Brings(pipe[i])'
    OBVIOUS
  <1>1. pipe \in Seq(Messages) /\ \A j \in DOMAIN pipe : pipe[j] \in Messages
    BY Parts, ElementOfSeq, LenProperties DEF PipeOK
  <1>2. ASSUME NEW j \in DOMAIN pipe, pipe'[i] = pipe[j] PROVE Brings(pipe[i])'
    <2>1. PICK m \in Messages : m = pipe[j] /\ m = pipe'[i]
      BY <1>1, <1>2
    <2>2. Brings(m)'
      BY <2>1, BringsStays, DeliveredParts
    <2> QED BY <2>1, <2>2 DEF Brings, Past, Announces
  <1>3. CASE pipe' = pipe
    BY <1>2, <1>3
  <1>4. CASE Receive
    BY <1>2, <1>4, PipeShrinks DEF Shorter
  <1>5. ASSUME NEW m \in Messages, Longer(m), m.kind # "done" PROVE Brings(pipe[i])'
    <2>1. i \in DOMAIN pipe /\ pipe'[i] = pipe[i]
      BY <1>5 DEF Longer
    <2> QED BY <1>2, <2>1
  <1>6. CASE Sends("data") \/ Sends("reply")
    BY <1>5, <1>6 DEF Sends
  <1>7. ASSUME NEW r \in Requests, Begin(r) PROVE Brings(pipe[i])'
    <2>1. pipe' = Append(pipe, [kind |-> "request", id |-> r, at |-> now])
      BY <1>7 DEF Begin, Send
    <2>2. [kind |-> "request", id |-> r, at |-> now] \in Messages
      BY MessageKinds, MapsOfShape DEF Accounted
    <2> QED BY <1>5, <2>1, <2>2, PipeGrows
  <1>8. ASSUME NEW r \in Requests, Finish(r) PROVE Brings(pipe[i])'
    <2>1. pipe' = Append(pipe, [kind |-> "done", id |-> r, at |-> now, body |-> Body(r)])
      BY <1>8 DEF Finish, Send
    <2>2. PICK m \in Messages : m = [kind |-> "done", id |-> r, at |-> now, body |-> Body(r)]
      BY MessageKinds, MapsOfShape, BodyIsPieces DEF Accounted
    <2>3. Longer(m)
      BY <2>1, <2>2, PipeGrows
    <2>4. Next
      BY <1>8 DEF Next
    <2>5. Brings(m)'
      BY <1>8, <2>2, <2>4, FinishBrings
    <2>6. CASE i \in DOMAIN pipe
      BY <1>2, <2>3, <2>6 DEF Longer
    <2>7. CASE i \notin DOMAIN pipe
      <3>1. pipe'[i] = m
        BY <2>3, <2>7 DEF Longer
      <3> QED BY <2>5, <3>1 DEF Brings, Past, Announces
    <2> QED BY <2>6, <2>7
  <1> QED BY <1>3, <1>4, <1>6, <1>7, <1>8, PipeSteps

\* The entry of a message that finishes a known request.
LEMMA EntryIsCached ==
    ASSUME Accounted, NotedAsLive, NEW m \in Messages, m.kind = "done", Brings(m), Known(m.id),
           NEW e \in Entry(m)
    PROVE  IsCached(e)
  <1>1. m.id \in Requests /\ fetch[m.id].phase = "done"
    BY MessageParts DEF Brings
  <1>2. CASE m.body # {}
    <2>1. PICK x \in m.body : e = [id |-> m.id, from |-> x.from, to |-> x.to, cut |-> FALSE]
      BY <1>2 DEF Entry
    <2>2. m.id \notin lost => x.from = 0 /\ x.to = fetch[m.id].body
      BY DEF Brings
    <2>3. e.id = m.id /\ e.from = x.from /\ e.to = x.to
      BY <2>1
    <2> QED BY <1>1, <2>2, <2>3 DEF IsCached, Whole
  <1>3. CASE m.body = {}
    <2>1. /\ pending[m.id] \in {"open", "cut"}
          /\ e = [id |-> m.id, from |-> 0, to |-> 0, cut |-> pending[m.id] = "cut"]
      BY <1>3 DEF Entry
    <2>2. e.id = m.id /\ e.from = 0 /\ e.to = 0
      BY <2>1
    <2>3. m.id \notin lost => fetch[m.id].body = 0
      BY <1>3, <2>1 DEF Brings, NotedAsLive, Known, Past
    <2> QED BY <1>1, <2>2, <2>3 DEF IsCached, Whole
  <1> QED BY <1>2, <1>3

\* Every cached body is whole, if nothing is lost.
LEMMA CacheNext ==
    ASSUME Accounted, AnnouncedOnce, Delivered, [Next]_vars
    PROVE  \A i \in DOMAIN cache' : IsCached(cache[i])'
  <1> SUFFICES ASSUME NEW i \in DOMAIN cache' PROVE IsCached(cache[i])'
    OBVIOUS
  <1>1. CacheOK /\ cache \in Seq(Bodies) /\ Entries(cache) \subseteq Bodies
    BY Parts, EntriesOfSeq DEF CacheOK
  <1>2. ASSUME NEW e \in Entries(cache), e = cache'[i] PROVE IsCached(cache[i])'
    <2>1. IsCached(e)
      BY <1>2, DeliveredParts DEF Entries
    <2>2. IsCached(e)'
      BY <1>1, <2>1, CachedStays
    <2> QED BY <1>2, <2>2 DEF IsCached, Whole
  <1>3. CASE cache' = cache
    BY <1>2, <1>3 DEF Entries
  <1>4. CASE Receive
    <2>1. PICK m \in Messages : m = Head(pipe) /\ m = pipe[1] /\ 1 \in DOMAIN pipe
      BY <1>4, PipeShrinks, Taking DEF Shorter
    <2>2. ASSUME m.kind = "done", OnDone(m), Known(m.id), NEW e \in Entry(m), cache' = Cached(cache, e)
          PROVE  IsCached(cache[i])'
      <3>1. Brings(m) /\ NotedAsLive
        BY <2>1, <2>2, DeliveredParts
      <3>2. IsCached(e)
        BY <2>2, <3>1, EntryIsCached
      <3>3. e \in Bodies
        BY <2>2, EntryIsBody, Parts
      <3>4. IsCached(e)'
        BY <3>2, <3>3, CachedStays
      <3>5. Entries(cache') \subseteq Entries(cache) \cup {e}
        BY <1>1, <2>2, <3>3, CachedAdds
      <3>6. PICK x \in Entries(cache) \cup {e} : x = cache'[i]
        BY <3>5 DEF Entries
      <3>7. CASE x = e
        BY <3>4, <3>6, <3>7 DEF IsCached, Whole
      <3> QED BY <1>2, <3>6, <3>7
    <2>3. CASE m.kind = "done" /\ OnDone(m)
      BY <1>3, <2>2, <2>3 DEF OnDone
    <2>4. CASE m.kind = "reply" /\ OnReply(m)
      BY <1>3, <2>4 DEF OnReply, workVars
    <2>5. CASE UNCHANGED <<workVars, clientVars>>
      BY <1>3, <2>5 DEF workVars
    <2>6. CASE m.kind = "request" /\ OnRequest(m)
      BY <1>3, <2>6 DEF OnRequest
    <2>7. CASE m.kind = "data" /\ OnData(m)
      BY <1>3, <2>7 DEF OnData, workVars
    <2> QED BY <1>4, <2>1, <2>3, <2>4, <2>5, <2>6, <2>7, Taking
  <1>5. CASE WorkSame
    BY <1>3, <1>5 DEF WorkSame, workVars
  <1>6. CASE Enable \/ \E r \in Requests : Ask(r)
    BY <1>3, <1>6 DEF Enable, Ask, workVars
  <1>7. CASE Disable
    <2>1. cache' = <<>>
      BY <1>7 DEF Disable
    <2>2. DOMAIN cache' = {}
      BY <2>1
    <2> QED BY <2>2
  <1> QED BY <1>4, <1>5, <1>6, <1>7, WorkSteps

\* Delivered is preserved.
LEMMA DeliveredNext ==
    ASSUME Accounted, Phases, KeptWhole, AnnouncedOnce, StreamedIfAsked, Delivered, [Next]_vars
    PROVE  Delivered'
  <1>1. NotedAsLive'
    BY NotedNext, DeliveredParts
  <1>2. \A i \in DOMAIN pipe' : pipe'[i].kind = "done" => Brings(pipe[i])'
    BY PipeBrings
  <1>3. \A i \in DOMAIN cache' : IsCached(cache[i])'
    BY CacheNext
  <1> QED BY <1>1, <1>2, <1>3, DeliveredPartsNext

-----------------------------------------------------------------------------
(* The invariant, and the theorems.                                        *)

Inductive == /\ Accounted /\ Phases /\ KeptWhole
             /\ AnnouncedOnce /\ StreamedIfAsked /\ Chained /\ Delivered

\* The invariant holds at first.
LEMMA Initially == Init => Inductive
  <1> SUFFICES ASSUME Init PROVE Inductive
    OBVIOUS
  <1>1. Accounted
    BY InitTyped
  <1>2. /\ now = Interval /\ buffers = <<>> /\ completed = <<>> /\ live = {} /\ dropped = {} /\ lost = {}
        /\ registered = [r \in Requests |-> 0] /\ pipe = <<>> /\ calls = <<>> /\ cache = <<>>
        /\ announced = {} /\ streamed = {} /\ seen = [r \in Requests |-> "none"]
        /\ fetch = [r \in Requests |-> [phase |-> "new", body |-> 0]]
        /\ stream = [r \in Requests |-> NoStream]
    BY DEF Init
  <1>3. Ids(buffers) = {} /\ Ids(completed) = {} /\ Entries(buffers) = {} /\ Entries(completed) = {}
    BY <1>2, EmptyMap
  <1>4. DOMAIN pipe = {} /\ DOMAIN calls = {} /\ DOMAIN cache = {}
    BY <1>2
  <1>5. Phases
    BY <1>2, <1>3, TimesAssumption DEF Phases
  <1>6. KeptWhole
    BY <1>2, <1>3 DEF KeptWhole, KeptOf
  <1>7. AnnouncedOnce
    BY <1>2, <1>4 DEF AnnouncedOnce
  <1>8. StreamedIfAsked
    BY <1>2, <1>4 DEF StreamedIfAsked, Traces, NoStream
  <1>9. Chained
    BY <1>2, <1>4 DEF Chained, Starts, NoStream
  <1>10. Delivered
    BY <1>2, <1>4 DEF Delivered
  <1> QED BY <1>1, <1>5, <1>6, <1>7, <1>8, <1>9, <1>10 DEF Inductive

\* And every step preserves it.
LEMMA Step == ASSUME Inductive, [Next]_vars PROVE Inductive'
  <1>1. Accounted'
    BY NextTyped DEF Inductive
  <1>2. Phases' /\ KeptWhole'
    BY <1>1, PhasesNext, KeptNext DEF Inductive
  <1>3. AnnouncedOnce'
    BY <1>1, AnnouncedNext DEF Inductive
  <1>4. StreamedIfAsked'
    BY AskedNext DEF Inductive
  <1>5. Chained'
    BY ChainedNext DEF Inductive
  <1>6. Delivered'
    BY DeliveredNext DEF Inductive
  <1> QED BY <1>1, <1>2, <1>3, <1>4, <1>5, <1>6 DEF Inductive

\* The inductive invariant holds in every reachable state.
THEOREM Invariance == Spec => []Inductive
  <1>1. Init => Inductive
    BY Initially
  <1>2. Inductive /\ [Next]_vars => Inductive'
    BY Step
  <1> QED BY <1>1, <1>2, PTL DEF Spec

\* Every variable keeps its shape, for any requests, caps, times and bounds.
THEOREM TypeCorrect == Spec => []TypeOK
  <1>1. Inductive => TypeOK
    BY DEF Inductive, Accounted, Shape
  <1> QED BY <1>1, Invariance, PTL

\* hooks.ts: fetchBodyBufferBytes is the sum of what is buffered, and never over the
\* cap, whatever chunks, evictions, sweeps and streams came before.
THEOREM BytesCorrect == Spec => []BytesAccounted
  <1>1. Inductive => BytesAccounted
    BY DEF Inductive, Accounted
  <1> QED BY <1>1, Invariance, PTL

\* network.ts: the client sees events of a request only between its announcement and
\* its end, however disables and sweeps interleave with messages in flight.
THEOREM EventsCorrect == Spec => []EventsFollowAnnouncement
  <1>1. Inductive => EventsFollowAnnouncement
    BY DEF Inductive, AnnouncedOnce, EventsFollowAnnouncement
  <1> QED BY <1>1, Invariance, PTL

\* hooks.ts and network.ts: the bytes of a streamed response reach the client without a
\* gap, the buffered ones in the reply and the later ones in events behind it.
THEOREM StreamCorrect == Spec => []StreamHasNoGap
  <1>1. Inductive => StreamHasNoGap
    BY DEF Inductive, Chained, Starts, StreamHasNoGap
  <1> QED BY <1>1, Invariance, PTL

\* hooks.ts and network.ts: a cached body that is not marked as cut is the whole of it,
\* unless the main thread gave bytes of that request up.
THEOREM WholeCorrect == Spec => []WholeUnlessLost
  <1>1. Inductive => WholeUnlessLost
    BY DEF Inductive, Delivered, WholeUnlessLost
  <1> QED BY <1>1, Invariance, PTL

\* hooks.ts: nothing is kept of a request that is finished, but the mark of a call
\* that came late, which the reaper knows of.
THEOREM ReclaimableCorrect == Spec => []FinishedIsReclaimable
  <1>1. Inductive => FinishedIsReclaimable
    BY DEF Inductive, Phases, FinishedIsReclaimable
  <1> QED BY <1>1, Invariance, PTL
=============================================================================
