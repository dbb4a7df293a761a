------------------------- MODULE ModuleEvaluationProofs -------------------------
EXTENDS ModuleEvaluation, SequenceTheorems, FiniteSetTheorems, TLAPS

-----------------------------------------------------------------------------
(* The inductive invariant.                                                *)

CallOf == [at : Modules, next : Nat \ {0}]
PlaceFor == [of : Modules, low : Nat \ {0}]

Types ==
    /\ req \in [Modules -> Seq(Modules)] /\ tla \in [Modules -> BOOLEAN]
    /\ status \in [Modules -> {"unlinked", "linking", "linked", "evaluating", "async", "evaluated"}]
    /\ root \in [Modules -> Modules \cup {None}]
    /\ body \in [Modules -> {"new", "running", "done", "threw"}]
    /\ pending \in [Modules -> Int] /\ parents \in [Modules -> Seq(Modules)]
    /\ turn \in {"idle", "linking", "evaluating", "gathering", "running"}
    /\ entry \in Modules \cup {None}
    /\ gather \in Seq(Modules) /\ ready \subseteq Modules
    /\ frames \in Seq(CallOf) /\ stack \in Seq(PlaceFor)

\* The stack holds the modules that are linked or evaluated right now.
OnStackAsTheyShould ==
    /\ \A m \in Modules : m \in OnStack <=> status[m] \in {"linking", "evaluating"}
    /\ \A m \in Modules : status[m] \in {"linking", "evaluating"} => status[m] = turn
    /\ \A i, j \in DOMAIN stack : stack[i].of = stack[j].of => i = j
    /\ \A i \in DOMAIN stack : stack[i].low <= i

\* Each call is of a module of the stack, in the order of the stack, the first
\* of the first.
CallsFollowStack ==
    /\ \A i \in DOMAIN frames : frames[i].at \in OnStack
    /\ \A i, j \in DOMAIN frames : \A a, b \in DOMAIN stack :
           i < j /\ stack[a].of = frames[i].at /\ stack[b].of = frames[j].at => a < b
    /\ frames = <<>> => stack = <<>>
    /\ frames # <<>> => stack # <<>> /\ stack[1].of = frames[1].at
    /\ frames # <<>> => turn \in {"linking", "evaluating"}
    /\ turn = "evaluating" => frames # <<>>
    /\ turn \in {"linking", "evaluating"} => entry \in Modules

Called == {frames[i].at : i \in DOMAIN frames}

Stacked == OnStackAsTheyShould /\ CallsFollowStack

\* Whose code has not been called: what is not evaluated yet, what is being
\* evaluated, and what waits for others or has just stopped waiting.
NotStarted ==
    /\ \A m \in Modules : status[m] \in {"unlinked", "linking", "linked"} => body[m] = "new"
    /\ turn = "evaluating" => \A m \in Called : body[m] = "new"
    /\ \A m \in Modules : status[m] # "evaluated" /\ pending[m] > 0 => body[m] = "new"
    /\ \A m \in ready : pending[m] <= 0 /\ (status[m] # "evaluated" => body[m] = "new")
    /\ ready # {} => turn \in {"gathering", "running"}

\* Who waits was reached by an evaluation.
Begun == {m \in Modules : status[m] \in {"evaluating", "async", "evaluated"}}
Reached ==
    /\ \A m \in Modules : Elements(parents[m]) \subseteq Begun
    /\ Elements(gather) \subseteq Begun /\ ready \subseteq Begun
    /\ \A m \in Modules : body[m] # "new" => m \in Begun
    /\ \A m \in Modules : Done(m) => root[m] \in Modules

Inv == Types /\ Stacked /\ NotStarted /\ Reached

-----------------------------------------------------------------------------
(* The stack and the calls.                                                *)

\* A module of the stack has one place.
LEMMA PlaceOf ==
    ASSUME stack \in Seq(PlaceFor), OnStackAsTheyShould, NEW i \in DOMAIN stack
    PROVE  Place(stack[i].of) = i
BY DEF Place, OnStackAsTheyShould

LEMMA PlaceExists ==
    ASSUME stack \in Seq(PlaceFor), OnStackAsTheyShould, NEW m \in OnStack
    PROVE  /\ Place(m) \in DOMAIN stack /\ stack[Place(m)].of = m
           /\ Place(m) \in 1..Len(stack)
<1>1. PICK i \in DOMAIN stack : stack[i].of = m
  BY DEF OnStack
<1>2. Place(m) = i
  BY <1>1, PlaceOf
<1> QED BY <1>1, <1>2 DEF PlaceFor

\* What the calls and the stack are made of.
LEMMA Listed ==
    ASSUME Types
    PROVE  /\ Len(stack) \in Nat /\ DOMAIN stack = 1..Len(stack)
           /\ \A i \in DOMAIN stack : stack[i] \in PlaceFor
           /\ stack # <<>> => Len(stack) >= 1
           /\ Len(frames) \in Nat /\ DOMAIN frames = 1..Len(frames)
           /\ \A i \in DOMAIN frames : frames[i] \in CallOf
           /\ frames # <<>> => Len(frames) >= 1
           /\ stack \in Seq(PlaceFor) /\ frames \in Seq(CallOf)
<1>1. stack \in Seq(PlaceFor) /\ frames \in Seq(CallOf)
  BY DEF Types
<1>2. Len(stack) \in Nat /\ DOMAIN stack = 1..Len(stack) /\ stack \in [1..Len(stack) -> PlaceFor]
  BY <1>1, LenProperties
<1>3. Len(frames) \in Nat /\ DOMAIN frames = 1..Len(frames) /\ frames \in [1..Len(frames) -> CallOf]
  BY <1>1, LenProperties
<1>4. (stack # <<>> => Len(stack) >= 1) /\ (frames # <<>> => Len(frames) >= 1)
  BY <1>1, EmptySeq
<1> QED BY <1>1, <1>2, <1>3, <1>4

\* A call enters a module.
LEMMA Pushed ==
    ASSUME Types, Stacked, NEW m \in Modules, Push(m), NEW s \in {"linking", "evaluating"},
           status[m] \notin {"linking", "evaluating"}, status' = [status EXCEPT ![m] = s],
           turn' = s, turn = s \/ stack = <<>>, entry' \in Modules
    PROVE  /\ Stacked' /\ frames' \in Seq(CallOf) /\ stack' \in Seq(PlaceFor)
           /\ Called' = Called \cup {m}
<1>1. stack' = Append(stack, [of |-> m, low |-> Len(stack) + 1])
      /\ frames' = Append(frames, [at |-> m, next |-> 1])
  BY DEF Push
<1>2. stack \in Seq(PlaceFor) /\ frames \in Seq(CallOf) /\ Len(stack) \in Nat /\ Len(frames) \in Nat
  BY DEF Types
<1>3. stack' \in Seq(PlaceFor) /\ frames' \in Seq(CallOf)
  BY <1>1, <1>2 DEF PlaceFor, CallOf
<1>4. /\ DOMAIN stack = 1..Len(stack) /\ DOMAIN stack' = 1..(Len(stack) + 1)
      /\ \A i \in 1..Len(stack) : stack'[i] = stack[i]
      /\ stack'[Len(stack) + 1] = [of |-> m, low |-> Len(stack) + 1]
  BY <1>1, <1>2 DEF PlaceFor
<1>5. /\ DOMAIN frames = 1..Len(frames) /\ DOMAIN frames' = 1..(Len(frames) + 1)
      /\ \A i \in 1..Len(frames) : frames'[i] = frames[i]
      /\ frames'[Len(frames) + 1] = [at |-> m, next |-> 1]
  BY <1>1, <1>2 DEF CallOf
<1>6. m \notin OnStack
  BY DEF Stacked, OnStackAsTheyShould
<1>7. OnStack' = OnStack \cup {m}
  <2>1. \A i \in DOMAIN stack' : i \in DOMAIN stack \/ i = Len(stack) + 1
    BY <1>2, <1>4
  <2>2. \A i \in DOMAIN stack : i \in DOMAIN stack' /\ stack'[i].of = stack[i].of
    BY <1>2, <1>4
  <2>3. Len(stack) + 1 \in DOMAIN stack' /\ stack'[Len(stack) + 1].of = m
    BY <1>2, <1>4
  <2> QED BY <2>1, <2>2, <2>3 DEF OnStack
<1>8. \A i \in 1..Len(stack) : stack[i].of # m
  BY <1>4, <1>6 DEF OnStack
<1>9. OnStackAsTheyShould'
  <2>1. \A n \in Modules : n \in OnStack' <=> status'[n] \in {"linking", "evaluating"}
    BY <1>7 DEF Stacked, OnStackAsTheyShould, Types
  <2>2. \A n \in Modules : status'[n] \in {"linking", "evaluating"} => status'[n] = turn'
    <3>1. stack = <<>> => OnStack = {}
      BY DEF OnStack
    <3> QED BY <3>1 DEF Stacked, OnStackAsTheyShould, Types
  <2>3. \A i, j \in DOMAIN stack' : stack'[i].of = stack'[j].of => i = j
    BY <1>2, <1>4, <1>8 DEF Stacked, OnStackAsTheyShould
  <2>4. \A i \in DOMAIN stack' : stack'[i].low <= i
    BY <1>2, <1>4 DEF Stacked, OnStackAsTheyShould
  <2> QED BY <2>1, <2>2, <2>3, <2>4 DEF OnStackAsTheyShould
<1>10. CallsFollowStack'
  <2>1. \A i \in DOMAIN frames' : frames'[i].at \in OnStack'
    BY <1>2, <1>5, <1>7 DEF Stacked, CallsFollowStack
  <2>2. ASSUME NEW i \in DOMAIN frames', NEW j \in DOMAIN frames',
               NEW a \in DOMAIN stack', NEW b \in DOMAIN stack',
               i < j, stack'[a].of = frames'[i].at, stack'[b].of = frames'[j].at
        PROVE  a < b
    <3>1. i \in DOMAIN frames /\ frames'[i] = frames[i]
      BY <1>2, <1>5, <2>2
    <3>2. frames[i].at \in OnStack
      BY <3>1 DEF Stacked, CallsFollowStack
    <3>3. a \in DOMAIN stack /\ stack'[a] = stack[a]
      BY <1>2, <1>4, <1>6, <2>2, <3>1, <3>2
    <3>4. CASE j = Len(frames) + 1
      <4>1. b = Len(stack) + 1
        BY <1>2, <1>4, <1>5, <1>8, <2>2, <3>4
      <4> QED BY <1>2, <1>4, <3>3, <4>1
    <3>5. CASE j # Len(frames) + 1
      <4>1. j \in DOMAIN frames /\ frames'[j] = frames[j]
        BY <1>2, <1>5, <3>5
      <4>2. frames[j].at \in OnStack
        BY <4>1 DEF Stacked, CallsFollowStack
      <4>3. b \in DOMAIN stack /\ stack'[b] = stack[b]
        BY <1>2, <1>4, <1>6, <2>2, <4>1, <4>2
      <4> QED BY <2>2, <3>1, <3>3, <4>1, <4>3 DEF Stacked, CallsFollowStack
    <3> QED BY <3>4, <3>5
  <2>3. frames' # <<>> /\ stack' # <<>>
    BY <1>2, <1>4, <1>5
  <2>4. stack'[1].of = frames'[1].at
    <3>1. CASE frames = <<>>
      BY <1>2, <1>4, <1>5, <3>1 DEF Stacked, CallsFollowStack
    <3>2. CASE frames # <<>>
      <4>1. stack # <<>> /\ stack[1].of = frames[1].at
        BY <3>2 DEF Stacked, CallsFollowStack
      <4>2. Len(stack) >= 1 /\ Len(frames) >= 1
        BY <1>2, <3>2, <4>1 DEF PlaceFor, CallOf
      <4> QED BY <1>2, <1>4, <1>5, <4>1, <4>2
    <3> QED BY <3>1, <3>2
  <2> QED BY <2>1, <2>2, <2>3, <2>4 DEF CallsFollowStack
<1>11. Called' = Called \cup {m}
  <2>1. \A i \in DOMAIN frames' : i \in DOMAIN frames \/ i = Len(frames) + 1
    BY <1>2, <1>5
  <2>2. \A i \in DOMAIN frames : i \in DOMAIN frames' /\ frames'[i].at = frames[i].at
    BY <1>2, <1>5
  <2>3. Len(frames) + 1 \in DOMAIN frames' /\ frames'[Len(frames) + 1].at = m
    BY <1>2, <1>5
  <2> QED BY <2>1, <2>2, <2>3 DEF Called
<1> QED BY <1>3, <1>9, <1>10, <1>11 DEF Stacked

\* A call goes on to its next request; a module of the stack that it met joins
\* its cycle.
LEMMA WentOn ==
    ASSUME Types, Stacked, frames # <<>>, frames' = Advanced, turn' = turn, entry' = entry,
           status' = status, stack' = stack \/ (Request \in OnStack /\ Meet(Request))
    PROVE  /\ Stacked' /\ frames' \in Seq(CallOf) /\ stack' \in Seq(PlaceFor)
           /\ Called' = Called
<1>1. /\ Len(stack) \in Nat /\ DOMAIN stack = 1..Len(stack)
      /\ \A i \in DOMAIN stack : stack[i] \in PlaceFor
      /\ stack # <<>> => Len(stack) >= 1
      /\ Len(frames) \in Nat /\ DOMAIN frames = 1..Len(frames)
      /\ \A i \in DOMAIN frames : frames[i] \in CallOf
      /\ frames # <<>> => Len(frames) >= 1
      /\ stack \in Seq(PlaceFor) /\ frames \in Seq(CallOf)
  BY Listed
<1>2. Len(frames) \in DOMAIN frames /\ Frame.at \in OnStack
  BY <1>1 DEF CallOf, Frame, Stacked, CallsFollowStack
<1>3. /\ frames' \in Seq(CallOf) /\ DOMAIN frames' = DOMAIN frames
      /\ \A i \in DOMAIN frames : frames'[i].at = frames[i].at
      /\ frames' # <<>>
  <2> DEFINE new == [frames[Len(frames)] EXCEPT !.next = frames[Len(frames)].next + 1]
  <2>1. frames' = [frames EXCEPT ![Len(frames)] = new]
    BY DEF Advanced
  <2>2. frames[Len(frames)] \in CallOf
    BY <1>1, <1>2
  <2>3. new \in CallOf /\ new.at = frames[Len(frames)].at
    BY <2>2 DEF CallOf
  <2> HIDE DEF new
  <2>4. frames' \in Seq(CallOf) /\ DOMAIN frames' = DOMAIN frames
    BY <1>1, <1>2, <2>1, <2>3, ExceptSeq
  <2>5. \A i \in DOMAIN frames : frames'[i] = IF i = Len(frames) THEN new ELSE frames[i]
    BY <1>1, <1>2, <2>1
  <2>6. \A i \in DOMAIN frames : frames'[i].at = frames[i].at
    BY <2>3, <2>5
  <2>7. frames' # <<>>
    BY <1>2, <2>4
  <2> QED BY <2>4, <2>6, <2>7
<1>4. /\ stack' \in Seq(PlaceFor) /\ DOMAIN stack' = DOMAIN stack
      /\ \A i \in DOMAIN stack : stack'[i].of = stack[i].of /\ stack'[i].low <= stack[i].low
  <2>1. CASE stack' = stack
    BY <1>1, <2>1 DEF PlaceFor
  <2>2. CASE Request \in OnStack /\ Meet(Request)
    <3>1. /\ Place(Frame.at) \in DOMAIN stack /\ Place(Request) \in DOMAIN stack
      BY <1>1, <1>2, <2>2, PlaceExists DEF Stacked
    <3> DEFINE p == Place(Frame.at)
    <3> DEFINE q == Place(Request)
    <3> DEFINE new == [stack[p] EXCEPT !.low = Earlier(@, stack[q].low)]
    <3>2. stack' = [stack EXCEPT ![p] = new]
      BY <2>2 DEF Meet
    <3>3. /\ stack[p] \in PlaceFor
          /\ stack[q] \in PlaceFor
      BY <1>1, <3>1
    <3>4. /\ new \in PlaceFor /\ new.of = stack[p].of
          /\ new.low <= stack[p].low
      BY <3>3 DEF Earlier, PlaceFor
    <3>5. p \in DOMAIN stack
      BY <3>1
    <3> HIDE DEF new, p, q
    <3> QED BY <1>1, <3>2, <3>4, <3>5 DEF PlaceFor
  <2> QED BY <2>1, <2>2
<1>5. OnStack' = OnStack
  BY <1>4 DEF OnStack
<1>6. OnStackAsTheyShould'
  <2>1. \A i, j \in DOMAIN stack' : stack'[i].of = stack'[j].of => i = j
    BY <1>4 DEF Stacked, OnStackAsTheyShould
  <2>2. \A i \in DOMAIN stack' : stack'[i].low <= i
    <3>1. ASSUME NEW i \in DOMAIN stack PROVE stack'[i].low <= i
      <4>1. stack[i].low <= i /\ stack'[i].low <= stack[i].low
        BY <1>4 DEF Stacked, OnStackAsTheyShould
      <4>2. stack'[i] \in PlaceFor
        BY <1>4, LenProperties
      <4>3. stack[i].low \in Nat /\ stack'[i].low \in Nat /\ i \in Nat
        BY <1>1, <4>2 DEF PlaceFor
      <4> QED BY <4>1, <4>3
    <3> QED BY <1>4, <3>1
  <2>3. \A m \in Modules : m \in OnStack' <=> status'[m] \in {"linking", "evaluating"}
    BY <1>5 DEF Stacked, OnStackAsTheyShould
  <2>4. \A m \in Modules : status'[m] \in {"linking", "evaluating"} => status'[m] = turn'
    BY DEF Stacked, OnStackAsTheyShould
  <2> QED BY <2>1, <2>2, <2>3, <2>4 DEF OnStackAsTheyShould
<1>7. CallsFollowStack'
  <2>1. \A i \in DOMAIN frames' : frames'[i].at \in OnStack'
    BY <1>3, <1>5 DEF Stacked, CallsFollowStack
  <2>2. \A i, j \in DOMAIN frames' : \A a, b \in DOMAIN stack' :
            i < j /\ stack'[a].of = frames'[i].at /\ stack'[b].of = frames'[j].at => a < b
    BY <1>3, <1>4 DEF Stacked, CallsFollowStack
  <2>3. stack # <<>> /\ stack[1].of = frames[1].at
    BY DEF Stacked, CallsFollowStack
  <2>4. 1 \in DOMAIN stack /\ 1 \in DOMAIN frames
    BY <1>1, <2>3
  <2>5. stack' # <<>> /\ stack'[1].of = frames'[1].at
    BY <1>3, <1>4, <2>3, <2>4
  <2>6. turn \in {"linking", "evaluating"} /\ entry \in Modules
    BY DEF Stacked, CallsFollowStack
  <2> QED BY <1>3, <2>1, <2>2, <2>5, <2>6 DEF CallsFollowStack
<1>8. Called' = Called
  BY <1>3 DEF Called
<1> QED BY <1>3, <1>4, <1>6, <1>7, <1>8 DEF Stacked

\* What is left of the stack when a call returns.
LEMMA Below ==
    ASSUME Types, Stacked, frames # <<>>
    PROVE  /\ Frame.at \in OnStack /\ Frame.at \in Modules
           /\ Place(Frame.at) \in 1..Len(stack) /\ stack[Place(Frame.at)].of = Frame.at
           /\ Returned \in Seq(CallOf) /\ DOMAIN Returned = 1..(Len(frames) - 1)
           /\ \A i \in DOMAIN Returned : i \in DOMAIN frames /\ Returned[i] = frames[i]
           /\ Popped \in Seq(PlaceFor) /\ DOMAIN Popped = 1..(Place(Frame.at) - 1)
           /\ \A i \in DOMAIN Popped : i \in DOMAIN stack /\ Popped[i] = stack[i]
           /\ Cycle \subseteq OnStack
           /\ \A m \in OnStack : m \notin Cycle <=> \E i \in DOMAIN Popped : Popped[i].of = m
           /\ Len(frames) = 1 => Place(Frame.at) = 1 /\ Closes
<1>1. /\ Len(stack) \in Nat /\ DOMAIN stack = 1..Len(stack)
      /\ \A i \in DOMAIN stack : stack[i] \in PlaceFor
      /\ stack # <<>> => Len(stack) >= 1
      /\ Len(frames) \in Nat /\ DOMAIN frames = 1..Len(frames)
      /\ \A i \in DOMAIN frames : frames[i] \in CallOf
      /\ frames # <<>> => Len(frames) >= 1
      /\ stack \in Seq(PlaceFor) /\ frames \in Seq(CallOf)
  BY Listed
<1>2. Len(frames) \in DOMAIN frames /\ Frame.at \in OnStack /\ Frame.at \in Modules
  BY <1>1 DEF CallOf, Frame, Stacked, CallsFollowStack
<1>3. /\ Place(Frame.at) \in 1..Len(stack) /\ stack[Place(Frame.at)].of = Frame.at
      /\ Place(Frame.at) \in DOMAIN stack
  BY <1>1, <1>2, PlaceExists DEF Stacked
<1>4. /\ Returned \in Seq(CallOf) /\ DOMAIN Returned = 1..(Len(frames) - 1)
      /\ \A i \in DOMAIN Returned : i \in DOMAIN frames /\ Returned[i] = frames[i]
  BY <1>1, <1>2 DEF Returned
<1> DEFINE p == Place(Frame.at)
<1>5. p \in 1..Len(stack) /\ Popped = SubSeq(stack, 1, p - 1)
  BY <1>3 DEF Popped
<1> HIDE DEF p
<1>6. /\ Popped \in Seq(PlaceFor) /\ DOMAIN Popped = 1..(p - 1)
      /\ \A i \in DOMAIN Popped : i \in DOMAIN stack /\ Popped[i] = stack[i]
  BY <1>1, <1>5
<1>7. Cycle = {stack[i].of : i \in p..Len(stack)}
  BY DEF Cycle, p
<1>8. Cycle \subseteq OnStack
  BY <1>1, <1>5, <1>7 DEF OnStack
<1>9. ASSUME NEW m \in OnStack
      PROVE  m \notin Cycle <=> \E i \in DOMAIN Popped : Popped[i].of = m
  <2>1. PICK i \in DOMAIN stack : stack[i].of = m
    BY DEF OnStack
  <2>2. i \in 1..Len(stack)
    BY <1>1
  <2>3. CASE i < p
    <3>1. i \in DOMAIN Popped /\ Popped[i].of = m
      BY <1>5, <1>6, <2>1, <2>2, <2>3
    <3>2. m \notin Cycle
      <4>1. ASSUME NEW j \in p..Len(stack), stack[j].of = m PROVE FALSE
        <5>1. j \in DOMAIN stack
          BY <1>1, <1>5
        <5> QED BY <1>5, <2>1, <2>2, <2>3, <4>1, <5>1 DEF Stacked, OnStackAsTheyShould
      <4> QED BY <1>7, <4>1
    <3> QED BY <3>1, <3>2
  <2>4. CASE ~(i < p)
    <3>1. m \in Cycle
      BY <1>5, <1>7, <2>1, <2>2, <2>4
    <3>2. ASSUME NEW j \in DOMAIN Popped, Popped[j].of = m PROVE FALSE
      <4>1. j \in DOMAIN stack /\ stack[j].of = m /\ j < p
        BY <1>5, <1>6, <3>2
      <4> QED BY <1>5, <2>1, <2>2, <2>4, <4>1 DEF Stacked, OnStackAsTheyShould
    <3> QED BY <3>1, <3>2
  <2> QED BY <2>3, <2>4
<1>10. ASSUME Len(frames) = 1 PROVE p = 1 /\ Closes
  <2>1. stack # <<>> /\ stack[1].of = Frame.at
    BY <1>10 DEF Stacked, CallsFollowStack, Frame
  <2>2. 1 \in DOMAIN stack /\ stack[1].low \in Nat \ {0}
    BY <1>1, <2>1 DEF PlaceFor
  <2>3. Place(Frame.at) = 1
    BY <1>1, <2>1, <2>2, PlaceOf DEF Stacked
  <2>4. stack[1].low <= 1
    BY <2>2 DEF Stacked, OnStackAsTheyShould
  <2>5. stack[1].low = 1
    BY <2>2, <2>4
  <2> QED BY <2>3, <2>5 DEF Closes, p
<1> QED BY <1>2, <1>3, <1>4, <1>6, <1>8, <1>9, <1>10 DEF p

\* A call returns, and takes the cycle it closes from the stack.
LEMMA CallReturned ==
    ASSUME Types, Stacked, frames # <<>>, frames' = Returned,
           IF Closes THEN stack' = Popped ELSE stack' = stack,
           status' \in [Modules -> {"unlinked", "linking", "linked", "evaluating", "async", "evaluated"}],
           \A m \in Modules :
               IF Closes /\ m \in Cycle THEN status'[m] \notin {"linking", "evaluating"}
               ELSE status'[m] = status[m],
           \/ turn' = turn /\ entry' = entry /\ (Len(frames) # 1 \/ turn = "linking")
           \/ turn' = "idle" /\ Len(frames) = 1
    PROVE  /\ Stacked' /\ frames' \in Seq(CallOf) /\ stack' \in Seq(PlaceFor)
           /\ Called' \subseteq Called \ {Frame.at}
<1>1. /\ Len(stack) \in Nat /\ DOMAIN stack = 1..Len(stack)
      /\ \A i \in DOMAIN stack : stack[i] \in PlaceFor
      /\ stack # <<>> => Len(stack) >= 1
      /\ Len(frames) \in Nat /\ DOMAIN frames = 1..Len(frames)
      /\ \A i \in DOMAIN frames : frames[i] \in CallOf
      /\ frames # <<>> => Len(frames) >= 1
      /\ stack \in Seq(PlaceFor) /\ frames \in Seq(CallOf)
  BY Listed
<1> DEFINE p == Place(Frame.at)
<1>2. /\ Frame.at \in OnStack /\ p \in 1..Len(stack) /\ stack[p].of = Frame.at
      /\ Len(frames) = 1 => p = 1 /\ Closes
  BY Below
<1>3. /\ frames' \in Seq(CallOf) /\ DOMAIN frames' = 1..(Len(frames) - 1)
      /\ \A i \in DOMAIN frames' : i \in DOMAIN frames /\ frames'[i] = frames[i]
  BY Below
<1>4. /\ Popped \in Seq(PlaceFor) /\ DOMAIN Popped = 1..(p - 1)
      /\ \A i \in DOMAIN Popped : i \in DOMAIN stack /\ Popped[i] = stack[i]
  BY Below
<1>5. /\ Cycle \subseteq OnStack
      /\ \A m \in OnStack : m \notin Cycle <=> \E i \in DOMAIN Popped : Popped[i].of = m
  BY Below
<1>6. /\ stack' \in Seq(PlaceFor)
      /\ \A i \in DOMAIN stack' : i \in DOMAIN stack /\ stack'[i] = stack[i]
  BY <1>1, <1>4
<1>7. OnStack' = IF Closes THEN OnStack \ Cycle ELSE OnStack
  <2>1. CASE ~Closes
    BY <2>1 DEF OnStack
  <2>2. CASE Closes
    <3>1. stack' = Popped /\ OnStack' = {stack'[i].of : i \in DOMAIN stack'}
      BY <2>2 DEF OnStack
    <3>2. \A m \in OnStack' : m \in OnStack
      BY <1>6 DEF OnStack
    <3> QED BY <1>5, <2>2, <3>1, <3>2
  <2> QED BY <2>1, <2>2
<1>8. Len(frames) = 1 => OnStack' = {} /\ stack' = <<>>
  <2>1. ASSUME Len(frames) = 1 PROVE stack' = <<>>
    <3>1. DOMAIN stack' = {}
      BY <1>2, <1>4, <2>1
    <3> QED BY <1>6, <3>1
  <2>2. stack' = <<>> => OnStack' = {}
    BY DEF OnStack
  <2> QED BY <2>1, <2>2
<1>9. OnStackAsTheyShould'
  <2>1. \A m \in Modules : m \in OnStack' <=> status'[m] \in {"linking", "evaluating"}
    BY <1>5, <1>7 DEF Stacked, OnStackAsTheyShould
  <2>2. \A m \in Modules : status'[m] \in {"linking", "evaluating"} => status'[m] = turn'
    <3>1. \A m \in Modules : status'[m] \in {"linking", "evaluating"} => status'[m] = status[m]
      OBVIOUS
    <3>2. CASE turn' = turn
      BY <3>1, <3>2 DEF Stacked, OnStackAsTheyShould
    <3>3. CASE Len(frames) = 1
      BY <1>8, <2>1, <3>3
    <3> QED BY <3>2, <3>3
  <2>3. \A i, j \in DOMAIN stack' : stack'[i].of = stack'[j].of => i = j
    BY <1>6 DEF Stacked, OnStackAsTheyShould
  <2>4. \A i \in DOMAIN stack' : stack'[i].low <= i
    BY <1>6 DEF Stacked, OnStackAsTheyShould
  <2> QED BY <2>1, <2>2, <2>3, <2>4 DEF OnStackAsTheyShould
<1>10. CallsFollowStack'
  <2>1. ASSUME NEW i \in DOMAIN frames' PROVE frames'[i].at \in OnStack'
    <3>1. i \in DOMAIN frames /\ i < Len(frames) /\ frames'[i] = frames[i]
      BY <1>1, <1>3
    <3>2. Len(frames) \in DOMAIN frames /\ frames[Len(frames)] = Frame
      BY <1>1, <3>1 DEF Frame
    <3>3. frames[i].at \in OnStack
      BY <3>1 DEF Stacked, CallsFollowStack
    <3>4. PICK a \in DOMAIN stack : stack[a].of = frames[i].at
      BY <3>3 DEF OnStack
    <3>5. p \in DOMAIN stack
      BY <1>1, <1>2
    <3>6. a < p
      BY <1>2, <3>1, <3>2, <3>4, <3>5 DEF Stacked, CallsFollowStack
    <3>7. a \in DOMAIN Popped /\ Popped[a].of = frames[i].at
      <4>1. a \in 1..Len(stack)
        BY <1>1, <3>4
      <4>2. a \in 1..(p - 1)
        BY <1>2, <3>6, <4>1
      <4> QED BY <1>4, <3>4, <4>2
    <3> QED BY <1>5, <1>7, <3>1, <3>3, <3>7
  <2>2. \A i, j \in DOMAIN frames' : \A a, b \in DOMAIN stack' :
            i < j /\ stack'[a].of = frames'[i].at /\ stack'[b].of = frames'[j].at => a < b
    BY <1>3, <1>6 DEF Stacked, CallsFollowStack
  <2>3. CASE Len(frames) = 1
    <3>1. frames' = <<>>
      BY <1>3, <2>3
    <3>2. (turn' = "linking" /\ turn = "linking" /\ entry' = entry) \/ turn' = "idle"
      BY <2>3
    <3> QED BY <1>8, <2>1, <2>2, <2>3, <3>1, <3>2 DEF CallsFollowStack, Stacked
  <2>4. CASE Len(frames) # 1
    <3>1. Len(frames) >= 2 /\ 1 \in DOMAIN frames' /\ frames'[1] = frames[1] /\ frames' # <<>>
      BY <1>1, <1>3, <2>4
    <3>2. stack # <<>> /\ stack[1].of = frames[1].at
      BY DEF Stacked, CallsFollowStack
    <3>3. frames'[1].at \in OnStack'
      BY <2>1, <3>1
    <3>4. stack' # <<>>
      BY <3>3 DEF OnStack
    <3>5. 1 \in DOMAIN stack'
      BY <1>6, <3>4
    <3>6. turn' = turn /\ entry' = entry /\ turn \in {"linking", "evaluating"} /\ entry \in Modules
      BY <2>4 DEF Stacked, CallsFollowStack
    <3> QED BY <1>6, <2>1, <2>2, <3>1, <3>2, <3>4, <3>5, <3>6 DEF CallsFollowStack
  <2> QED BY <2>3, <2>4
<1>11. Called' \subseteq Called \ {Frame.at}
  <2>1. ASSUME NEW i \in DOMAIN frames' PROVE frames'[i].at \in Called /\ frames'[i].at # Frame.at
    <3>1. i \in DOMAIN frames /\ i < Len(frames) /\ frames'[i] = frames[i]
      BY <1>1, <1>3
    <3>2. Len(frames) \in DOMAIN frames /\ frames[Len(frames)] = Frame
      BY <1>1, <3>1 DEF Frame
    <3>3. p \in DOMAIN stack /\ stack[p].of = Frame.at /\ p \in Nat
      BY <1>1, <1>2
    <3>4. frames[i].at # Frame.at
      BY <3>1, <3>2, <3>3 DEF Stacked, CallsFollowStack
    <3> QED BY <3>1, <3>4 DEF Called
  <2> QED BY <2>1 DEF Called
<1> QED BY <1>3, <1>6, <1>9, <1>10, <1>11 DEF Stacked

\* Nothing is on the stack.
LEMMA NothingStacked ==
    ASSUME frames' = <<>>, stack' = <<>>, turn' # "evaluating", turn' = "linking" => entry' \in Modules,
           \A m \in Modules : status'[m] \notin {"linking", "evaluating"}
    PROVE  /\ Stacked' /\ frames' \in Seq(CallOf) /\ stack' \in Seq(PlaceFor)
           /\ Called' = {}
<1>1. OnStack' = {} /\ Called' = {}
  BY DEF OnStack, Called
<1>2. OnStackAsTheyShould'
  BY <1>1 DEF OnStackAsTheyShould
<1>3. CallsFollowStack'
  BY <1>1 DEF CallsFollowStack
<1>4. frames' \in Seq(CallOf) /\ stack' \in Seq(PlaceFor)
  BY EmptySeq
<1> QED BY <1>1, <1>2, <1>3, <1>4 DEF Stacked

\* So it is between two calls.
LEMMA Resting ==
    ASSUME Stacked, frames = <<>>
    PROVE  /\ stack = <<>> /\ OnStack = {} /\ Called = {} /\ turn # "evaluating"
           /\ \A m \in Modules : status[m] \notin {"linking", "evaluating"}
<1>1. stack = <<>> /\ turn # "evaluating"
  BY DEF Stacked, CallsFollowStack
<1>2. OnStack = {} /\ Called = {}
  BY <1>1 DEF OnStack, Called
<1> QED BY <1>1, <1>2 DEF Stacked, OnStackAsTheyShould

\* A call in the middle of its requests.
LEMMA InCall ==
    ASSUME Types, Stacked, frames # <<>>
    PROVE  /\ Frame \in CallOf /\ Frame.at \in Called /\ Frame.at \in OnStack /\ Frame.at \in Modules
           /\ ~AllRequested => Request \in Modules
           /\ turn \in {"linking", "evaluating"} /\ entry \in Modules
<1>1. Len(frames) \in DOMAIN frames /\ Frame \in CallOf
  BY Listed DEF Frame
<1>2. Frame.at \in Called /\ Frame.at \in OnStack
  BY <1>1 DEF Frame, Called, Stacked, CallsFollowStack
<1>3. Frame.at \in Modules /\ Frame.next \in Nat \ {0}
  BY <1>1 DEF CallOf
<1>4. ~AllRequested => Request \in Modules
  <2>1. req[Frame.at] \in Seq(Modules)
    BY <1>3 DEF Types
  <2>2. Len(req[Frame.at]) \in Nat
    BY <2>1, LenProperties
  <2>3. ASSUME ~AllRequested PROVE Request \in Modules
    <3>1. Frame.next \in 1..Len(req[Frame.at])
      BY <1>3, <2>2, <2>3 DEF AllRequested
    <3> QED BY <2>1, <3>1, ElementOfSeq DEF Request
  <2> QED BY <2>3
<1>5. turn \in {"linking", "evaluating"} /\ entry \in Modules
  BY DEF Stacked, CallsFollowStack
<1> QED BY <1>1, <1>2, <1>3, <1>4, <1>5

-----------------------------------------------------------------------------
(* Lists of modules.                                                       *)

LEMMA ElementsOf ==
    ASSUME NEW s \in Seq(Modules)
    PROVE  /\ Elements(s) \subseteq Modules
           /\ \A t \in Seq(Modules) : /\ s \o t \in Seq(Modules)
                                      /\ Elements(s \o t) = Elements(s) \cup Elements(t)
           /\ \A m \in Modules : /\ Append(s, m) \in Seq(Modules)
                                 /\ Elements(Append(s, m)) = Elements(s) \cup {m}
           /\ s # <<>> => /\ Head(s) \in Elements(s) /\ Tail(s) \in Seq(Modules)
                          /\ Elements(Tail(s)) \subseteq Elements(s)
<1>1. /\ Len(s) \in Nat /\ DOMAIN s = 1..Len(s) /\ \A i \in DOMAIN s : s[i] \in Modules
  BY LenProperties, ElementOfSeq
<1>2. ASSUME NEW t \in Seq(Modules)
      PROVE  /\ s \o t \in Seq(Modules) /\ Elements(s \o t) = Elements(s) \cup Elements(t)
  <2>1. Len(t) \in Nat /\ DOMAIN t = 1..Len(t)
    BY LenProperties
  <2> DEFINE u == s \o t
  <2>2. /\ u \in Seq(Modules) /\ Len(u) = Len(s) + Len(t)
        /\ \A i \in 1..Len(s) + Len(t) : u[i] = IF i <= Len(s) THEN s[i] ELSE t[i - Len(s)]
    BY ConcatProperties
  <2> HIDE DEF u
  <2>3. DOMAIN u = 1..Len(s) + Len(t)
    BY <2>2, LenProperties
  <2>4. \A i \in DOMAIN s : i \in DOMAIN u /\ u[i] = s[i]
    BY <1>1, <2>1, <2>2, <2>3
  <2>5. \A i \in DOMAIN t : i + Len(s) \in DOMAIN u /\ u[i + Len(s)] = t[i]
    BY <1>1, <2>1, <2>2, <2>3
  <2>6. \A i \in DOMAIN u : (i \in DOMAIN s /\ u[i] = s[i]) \/ (i - Len(s) \in DOMAIN t /\ u[i] = t[i - Len(s)])
    BY <1>1, <2>1, <2>2, <2>3
  <2>7. Elements(u) = Elements(s) \cup Elements(t)
    BY <2>4, <2>5, <2>6 DEF Elements
  <2> QED BY <2>2, <2>7 DEF u
<1>3. ASSUME NEW m \in Modules
      PROVE  /\ Append(s, m) \in Seq(Modules) /\ Elements(Append(s, m)) = Elements(s) \cup {m}
  <2> DEFINE u == Append(s, m)
  <2>1. /\ u \in Seq(Modules) /\ Len(u) = Len(s) + 1
        /\ (\A i \in 1..Len(s) : u[i] = s[i]) /\ u[Len(s) + 1] = m
    BY AppendProperties
  <2> HIDE DEF u
  <2>2. DOMAIN u = 1..Len(s) + 1
    BY <2>1, LenProperties
  <2>3. \A i \in DOMAIN s : i \in DOMAIN u /\ u[i] = s[i]
    BY <1>1, <2>1, <2>2
  <2>4. \A i \in DOMAIN u : (i \in DOMAIN s /\ u[i] = s[i]) \/ u[i] = m
    BY <1>1, <2>1, <2>2
  <2>5. Len(s) + 1 \in DOMAIN u
    BY <1>1, <2>2
  <2>6. Elements(u) = Elements(s) \cup {m}
    BY <2>1, <2>3, <2>4, <2>5 DEF Elements
  <2> QED BY <2>1, <2>6 DEF u
<1>4. ASSUME s # <<>>
      PROVE  /\ Head(s) \in Elements(s) /\ Tail(s) \in Seq(Modules)
             /\ Elements(Tail(s)) \subseteq Elements(s)
  <2>1. Len(s) >= 1 /\ Head(s) = s[1]
    BY <1>1, <1>4, EmptySeq
  <2>2. Head(s) \in Elements(s)
    BY <1>1, <2>1 DEF Elements
  <2> DEFINE u == Tail(s)
  <2>3. /\ u \in Seq(Modules) /\ Len(u) = Len(s) - 1
        /\ \A i \in 1..Len(u) : u[i] = s[i + 1]
    BY <1>4, HeadTailProperties
  <2> HIDE DEF u
  <2>4. DOMAIN u = 1..Len(u)
    BY <2>3, LenProperties
  <2>5. \A i \in DOMAIN u : i + 1 \in DOMAIN s /\ u[i] = s[i + 1]
    BY <1>1, <2>1, <2>3, <2>4
  <2>6. Elements(u) \subseteq Elements(s)
    BY <2>5 DEF Elements
  <2> QED BY <2>2, <2>3, <2>6 DEF u
<1>5. Elements(s) \subseteq Modules
  BY <1>1 DEF Elements
<1> QED BY <1>2, <1>3, <1>4, <1>5

-----------------------------------------------------------------------------
(* Steps.                                                                  *)

Statuses == [Modules -> {"unlinked", "linking", "linked", "evaluating", "async", "evaluated"}]

LEMMA Initially == Init => Inv
<1> SUFFICES ASSUME Init PROVE Inv
  OBVIOUS
<1>1. Types
  BY GraphsAssumption, EmptySeq DEF Init, Types
<1>2. OnStack = {} /\ Called = {}
  BY DEF Init, OnStack, Called
<1>3. Stacked
  BY <1>2 DEF Init, Stacked, OnStackAsTheyShould, CallsFollowStack
<1>4. NotStarted
  BY <1>2 DEF Init, NotStarted
<1>5. Elements(<<>>) = {}
  BY DEF Elements
<1>6. Reached
  BY <1>5 DEF Init, Reached, Begun, Done
<1> QED BY <1>1, <1>3, <1>4, <1>6 DEF Inv

LEMMA ImportKeeps == ASSUME Inv, NEW m \in Modules, Import(m) PROVE Inv'
<1>1. Types /\ Stacked
  BY DEF Inv
<1>2. frames = <<>> /\ ready = {}
  BY DEF Import, Inv, Stacked, CallsFollowStack, NotStarted
<1>3. /\ stack = <<>> /\ Called = {}
      /\ \A n \in Modules : status[n] \notin {"linking", "evaluating"}
  BY <1>1, <1>2, Resting
<1>4. /\ turn' = "linking" /\ entry' = m /\ body' = body /\ pending' = pending /\ parents' = parents
      /\ gather' = gather /\ ready' = ready /\ root' = root /\ req' = req /\ tla' = tla
  BY DEF Import, graph, waits, lists
<1>5. /\ Stacked' /\ frames' \in Seq(CallOf) /\ stack' \in Seq(PlaceFor)
      /\ status' \in Statuses
      /\ \A n \in Modules : status'[n] = status[n] \/ (status[n] = "unlinked" /\ status'[n] = "linking")
  <2>1. CASE status[m] = "unlinked"
    <3>1. Push(m) /\ status' = [status EXCEPT ![m] = "linking"]
      BY <2>1 DEF Import
    <3>2. Stacked' /\ frames' \in Seq(CallOf) /\ stack' \in Seq(PlaceFor)
      BY <1>1, <1>3, <1>4, <2>1, <3>1, Pushed
    <3> QED BY <1>1, <2>1, <3>1, <3>2 DEF Types, Statuses
  <2>2. CASE status[m] # "unlinked"
    <3>1. frames' = <<>> /\ stack' = <<>> /\ status' = status
      BY <1>2, <1>3, <2>2 DEF Import
    <3>2. Stacked' /\ frames' \in Seq(CallOf) /\ stack' \in Seq(PlaceFor)
      BY <1>3, <1>4, <3>1, NothingStacked
    <3> QED BY <1>1, <3>1, <3>2 DEF Types, Statuses
  <2> QED BY <2>1, <2>2
<1>6. Types'
  BY <1>1, <1>4, <1>5 DEF Types, Statuses
<1>7. NotStarted'
  BY <1>1, <1>2, <1>4, <1>5 DEF Inv, NotStarted, Types
<1>8. Reached'
  BY <1>1, <1>4, <1>5 DEF Inv, Reached, Begun, Done, Types
<1> QED BY <1>5, <1>6, <1>7, <1>8 DEF Inv

LEMMA LinkRequestKeeps == ASSUME Inv, LinkRequest PROVE Inv'
<1>1. Types /\ Stacked
  BY DEF Inv
<1>2. turn = "linking" /\ frames # <<>> /\ ~AllRequested
  BY DEF LinkRequest
<1>3. Request \in Modules /\ Frame.at \in OnStack /\ entry \in Modules
  BY <1>1, <1>2, InCall
<1>4. /\ turn' = turn /\ entry' = entry /\ body' = body /\ pending' = pending /\ parents' = parents
      /\ gather' = gather /\ ready' = ready /\ root' = root /\ req' = req /\ tla' = tla
  BY DEF LinkRequest, graph, waits, lists
<1>5. /\ Stacked' /\ frames' \in Seq(CallOf) /\ stack' \in Seq(PlaceFor)
      /\ status' \in Statuses
      /\ \A n \in Modules : status'[n] = status[n] \/ (status[n] = "unlinked" /\ status'[n] = "linking")
  <2>1. CASE status[Request] = "unlinked"
    <3>1. Push(Request) /\ status' = [status EXCEPT ![Request] = "linking"]
      BY <2>1 DEF LinkRequest
    <3> DEFINE m == Request
    <3>2. m \in Modules /\ Push(m) /\ status[m] = "unlinked" /\ status' = [status EXCEPT ![m] = "linking"]
      BY <1>3, <2>1, <3>1
    <3> HIDE DEF m
    <3>3. Stacked' /\ frames' \in Seq(CallOf) /\ stack' \in Seq(PlaceFor)
      BY <1>1, <1>2, <1>3, <1>4, <3>2, Pushed
    <3> QED BY <1>1, <3>2, <3>3 DEF Types, Statuses
  <2>2. CASE status[Request] # "unlinked"
    <3>1. /\ frames' = Advanced /\ status' = status
          /\ status[Request] = "linking" => Meet(Request)
          /\ status[Request] # "linking" => stack' = stack
      BY <2>2 DEF LinkRequest
    <3>2. status[Request] = "linking" => Request \in OnStack
      BY <1>1, <1>3 DEF Stacked, OnStackAsTheyShould
    <3>3. Stacked' /\ frames' \in Seq(CallOf) /\ stack' \in Seq(PlaceFor)
      BY <1>1, <1>2, <1>4, <3>1, <3>2, WentOn
    <3> QED BY <1>1, <3>1, <3>3 DEF Types, Statuses
  <2> QED BY <2>1, <2>2
<1>6. Types'
  BY <1>1, <1>4, <1>5 DEF Types, Statuses
<1>7. NotStarted'
  BY <1>1, <1>2, <1>4, <1>5 DEF Inv, NotStarted, Types
<1>8. Reached'
  BY <1>1, <1>4, <1>5 DEF Inv, Reached, Begun, Done, Types
<1> QED BY <1>5, <1>6, <1>7, <1>8 DEF Inv

LEMMA LinkModuleKeeps == ASSUME Inv, LinkModule PROVE Inv'
<1>1. Types /\ Stacked
  BY DEF Inv
<1>2. turn = "linking" /\ frames # <<>> /\ frames' = Returned
  BY DEF LinkModule
<1>3. Cycle \subseteq OnStack
  BY <1>1, <1>2, Below
<1>4. /\ turn' = turn /\ entry' = entry /\ body' = body /\ pending' = pending /\ parents' = parents
      /\ gather' = gather /\ ready' = ready /\ root' = root /\ req' = req /\ tla' = tla
  BY DEF LinkModule, graph, waits, lists
<1>5. /\ IF Closes THEN stack' = Popped ELSE stack' = stack
      /\ \A m \in Modules : status'[m] = IF Closes /\ m \in Cycle THEN "linked" ELSE status[m]
      /\ status' \in Statuses
  BY <1>1 DEF LinkModule, Types, Statuses
<1>6. Stacked' /\ frames' \in Seq(CallOf) /\ stack' \in Seq(PlaceFor)
  BY <1>1, <1>2, <1>4, <1>5, CallReturned DEF Statuses
<1>7. \A m \in Cycle : m \in Modules => status[m] = "linking"
  BY <1>1, <1>2, <1>3 DEF Stacked, OnStackAsTheyShould
<1>8. Types'
  BY <1>1, <1>4, <1>5, <1>6 DEF Types, Statuses
<1>9. NotStarted'
  BY <1>1, <1>2, <1>4, <1>5, <1>7 DEF Inv, NotStarted, Types
<1>10. Reached'
  BY <1>1, <1>4, <1>5, <1>7 DEF Inv, Reached, Begun, Done, Types
<1> QED BY <1>6, <1>8, <1>9, <1>10 DEF Inv

LEMMA LinkFailsKeeps == ASSUME Inv, LinkFails PROVE Inv'
<1>1. Types /\ Stacked
  BY DEF Inv
<1>2. /\ turn = "linking" /\ turn' = "idle" /\ entry' = None /\ frames' = <<>> /\ stack' = <<>>
      /\ status' = [m \in Modules |-> IF m \in OnStack THEN "unlinked" ELSE status[m]]
      /\ body' = body /\ pending' = pending /\ parents' = parents
      /\ gather' = gather /\ ready' = ready /\ root' = root /\ req' = req /\ tla' = tla
  BY DEF LinkFails, Unlink, graph, waits, lists
<1>3. \A m \in Modules : m \in OnStack <=> status[m] = "linking"
  BY <1>1, <1>2 DEF Stacked, OnStackAsTheyShould
<1>4. \A m \in Modules : status'[m] \notin {"linking", "evaluating"}
  BY <1>1, <1>2, <1>3 DEF Stacked, OnStackAsTheyShould
<1>5. Stacked' /\ frames' \in Seq(CallOf) /\ stack' \in Seq(PlaceFor)
  BY <1>2, <1>4, NothingStacked
<1>6. Types'
  BY <1>1, <1>2, <1>5 DEF Types
<1>7. NotStarted'
  BY <1>1, <1>2, <1>3 DEF Inv, NotStarted, Types
<1>8. Reached'
  BY <1>1, <1>2, <1>3 DEF Inv, Reached, Begun, Done, Types
<1> QED BY <1>5, <1>6, <1>7, <1>8 DEF Inv

LEMMA EvaluateKeeps == ASSUME Inv, Evaluate PROVE Inv'
<1>1. Types /\ Stacked
  BY DEF Inv
<1>2. turn = "linking" /\ frames = <<>> /\ entry \in Modules /\ ready = {}
  BY DEF Evaluate, Inv, Stacked, CallsFollowStack, NotStarted
<1>3. /\ stack = <<>> /\ Called = {}
      /\ \A n \in Modules : status[n] \notin {"linking", "evaluating"}
  BY <1>1, <1>2, Resting
<1>4. Evaluated \in Modules
  BY <1>2 DEF Evaluated, Inv, Reached
<1>5. /\ body' = body /\ parents' = parents
      /\ gather' = gather /\ ready' = ready /\ root' = root /\ req' = req /\ tla' = tla
  BY DEF Evaluate, graph, lists
<1>6. CASE Unevaluated
  <2> DEFINE m == Evaluated
  <2>1. /\ turn' = "evaluating" /\ entry' = m /\ Push(m) /\ status' = [status EXCEPT ![m] = "evaluating"]
        /\ pending' = [pending EXCEPT ![m] = 0]
    BY <1>6 DEF Evaluate
  <2>2. m \in Modules /\ status[m] \in {"unlinked", "linked"}
    BY <1>1, <1>3, <1>4, <1>6 DEF Unevaluated, Done, Types
  <2> HIDE DEF m
  <2>3. /\ Stacked' /\ frames' \in Seq(CallOf) /\ stack' \in Seq(PlaceFor)
        /\ Called' = Called \cup {m}
    BY <1>1, <1>3, <2>1, <2>2, Pushed
  <2>4. body[m] = "new"
    BY <2>2 DEF Inv, NotStarted
  <2>5. Types'
    BY <1>1, <1>5, <2>1, <2>2, <2>3 DEF Types
  <2>6. NotStarted'
    BY <1>1, <1>2, <1>3, <1>5, <2>1, <2>2, <2>3, <2>4 DEF Inv, NotStarted, Types
  <2>7. Reached'
    BY <1>1, <1>5, <2>1, <2>2 DEF Inv, Reached, Begun, Done, Types
  <2> QED BY <2>3, <2>5, <2>6, <2>7 DEF Inv
<1>7. CASE ~Unevaluated
  <2>1. turn' = "idle" /\ entry' = None /\ frames' = <<>> /\ stack' = <<>> /\ status' = status /\ pending' = pending
    BY <1>2, <1>3, <1>7 DEF Evaluate
  <2>2. Stacked' /\ frames' \in Seq(CallOf) /\ stack' \in Seq(PlaceFor)
    BY <1>3, <2>1, NothingStacked
  <2>3. Types'
    BY <1>1, <1>5, <2>1, <2>2 DEF Types
  <2>4. NotStarted'
    BY <1>1, <1>2, <1>5, <2>1 DEF Inv, NotStarted, Types
  <2>5. Reached'
    BY <1>1, <1>5, <2>1 DEF Inv, Reached, Begun, Done, Types
  <2> QED BY <2>2, <2>3, <2>4, <2>5 DEF Inv
<1> QED BY <1>6, <1>7

LEMMA EvaluateRequestKeeps == ASSUME Inv, EvaluateRequest PROVE Inv'
<1>1. Types /\ Stacked
  BY DEF Inv
<1>2. turn = "evaluating" /\ frames # <<>> /\ ~AllRequested /\ ready = {}
  BY DEF EvaluateRequest, Inv, Stacked, CallsFollowStack, NotStarted
<1>3. Request \in Modules /\ entry \in Modules
  BY <1>1, <1>2, InCall
<1> DEFINE m == Request
<1>4. /\ m \in Modules /\ status[m] = "linked" /\ Push(m) /\ status' = [status EXCEPT ![m] = "evaluating"]
      /\ pending' = [pending EXCEPT ![m] = 0]
  BY <1>3 DEF EvaluateRequest
<1> HIDE DEF m
<1>5. /\ turn' = turn /\ entry' = entry /\ body' = body /\ parents' = parents
      /\ gather' = gather /\ ready' = ready /\ root' = root /\ req' = req /\ tla' = tla
  BY DEF EvaluateRequest, graph, lists
<1>6. /\ Stacked' /\ frames' \in Seq(CallOf) /\ stack' \in Seq(PlaceFor)
      /\ Called' = Called \cup {m}
  BY <1>1, <1>2, <1>3, <1>4, <1>5, Pushed
<1>7. body[m] = "new"
  BY <1>4 DEF Inv, NotStarted
<1>8. Types'
  BY <1>1, <1>4, <1>5, <1>6 DEF Types
<1>9. NotStarted'
  BY <1>1, <1>2, <1>4, <1>5, <1>6, <1>7 DEF Inv, NotStarted, Types
<1>10. Reached'
  BY <1>1, <1>4, <1>5 DEF Inv, Reached, Begun, Done, Types
<1> QED BY <1>6, <1>8, <1>9, <1>10 DEF Inv

LEMMA RequestEvaluatedKeeps == ASSUME Inv, RequestEvaluated PROVE Inv'
<1>1. Types /\ Stacked
  BY DEF Inv
<1>2. turn = "evaluating" /\ frames # <<>> /\ ~AllRequested /\ ready = {}
  BY DEF RequestEvaluated, Inv, Stacked, CallsFollowStack, NotStarted
<1>3. Request \in Modules /\ Frame.at \in OnStack /\ Frame.at \in Called /\ Frame.at \in Modules
  BY <1>1, <1>2, InCall
<1>4. /\ turn' = turn /\ entry' = entry /\ body' = body /\ status' = status
      /\ gather' = gather /\ ready' = ready /\ root' = root /\ req' = req /\ tla' = tla
  BY DEF RequestEvaluated, graph, lists, results
<1>5. /\ Stacked' /\ frames' \in Seq(CallOf) /\ stack' \in Seq(PlaceFor) /\ Called' = Called
  <2>1. /\ frames' = Advanced
        /\ status[Request] = "evaluating" => Meet(Request)
        /\ status[Request] # "evaluating" => stack' = stack
    BY DEF RequestEvaluated
  <2>2. status[Request] = "evaluating" => Request \in OnStack
    BY <1>1, <1>3 DEF Stacked, OnStackAsTheyShould
  <2> QED BY <1>1, <1>2, <1>4, <2>1, <2>2, WentOn
<1>6. Frame.at \in Begun /\ body[Frame.at] = "new"
  BY <1>1, <1>2, <1>3 DEF Stacked, OnStackAsTheyShould, Begun, Inv, NotStarted
<1> DEFINE f == Frame.at
<1> DEFINE w == Awaited
<1>7. /\ f \in Modules /\ f \in Begun /\ body[f] = "new"
      /\ \/ parents' = parents /\ pending' = pending
         \/ /\ parents' = [parents EXCEPT ![w] = Append(@, f)]
            /\ pending' = [pending EXCEPT ![f] = @ + 1]
  BY <1>3, <1>6 DEF RequestEvaluated, Await
<1> HIDE DEF f, w
<1>8. /\ parents' \in [Modules -> Seq(Modules)] /\ pending' \in [Modules -> Int]
      /\ \A m \in Modules : Elements(parents'[m]) \subseteq Elements(parents[m]) \cup {f}
      /\ \A m \in Modules : m # f => pending'[m] = pending[m]
  <2>1. \A m \in Modules : /\ Append(parents[m], f) \in Seq(Modules)
                           /\ Elements(Append(parents[m], f)) = Elements(parents[m]) \cup {f}
    BY <1>1, <1>7, ElementsOf DEF Types
  <2>2. \A m \in Modules : parents[m] \in Seq(Modules)
    BY <1>1 DEF Types
  <2>3. parents' \in [Modules -> Seq(Modules)]
        /\ \A m \in Modules : parents'[m] = parents[m] \/ parents'[m] = Append(parents[m], f)
    <3>1. CASE parents' = parents
      BY <1>1, <3>1 DEF Types
    <3>2. CASE parents' = [parents EXCEPT ![w] = Append(@, f)]
      <4>1. parents \in [Modules -> Seq(Modules)]
        BY <1>1 DEF Types
      <4>2. CASE w \in Modules
        BY <2>1, <3>2, <4>1, <4>2
      <4>3. CASE w \notin Modules
        <5>1. parents' = parents
          BY <3>2, <4>1, <4>3
        <5> QED BY <4>1, <5>1
      <4> QED BY <4>2, <4>3
    <3> QED BY <1>7, <3>1, <3>2
  <2>4. \A m \in Modules : Elements(parents'[m]) \subseteq Elements(parents[m]) \cup {f}
    BY <2>1, <2>3
  <2>5. pending' \in [Modules -> Int] /\ \A m \in Modules : m # f => pending'[m] = pending[m]
    <3>1. pending \in [Modules -> Int]
      BY <1>1 DEF Types
    <3> QED BY <1>7, <3>1
  <2> QED BY <2>3, <2>4, <2>5
<1>9. Types'
  BY <1>1, <1>4, <1>5, <1>8 DEF Types
<1>10. NotStarted'
  BY <1>1, <1>2, <1>4, <1>5, <1>7, <1>8 DEF Inv, NotStarted, Types
<1>11. Reached'
  <2>1. Begun' = Begun
    BY <1>4 DEF Begun
  <2>2. \A m \in Modules : Elements(parents'[m]) \subseteq Begun
    BY <1>7, <1>8 DEF Inv, Reached
  <2> QED BY <1>4, <2>1, <2>2 DEF Inv, Reached, Done
<1> QED BY <1>5, <1>9, <1>10, <1>11 DEF Inv

\* An evaluation that fails.
LEMMA AbandonKeeps ==
    ASSUME Inv, turn = "evaluating", Abandon, pending' = pending, parents' = parents,
           gather' = gather, ready' = ready, req' = req, tla' = tla,
           body' \in [Modules -> {"new", "running", "done", "threw"}],
           \A m \in Modules : body'[m] = body[m] \/ m \in OnStack
    PROVE  Inv'
<1>1. Types /\ Stacked
  BY DEF Inv
<1>2. entry \in Modules /\ ready = {}
  BY DEF Inv, Stacked, CallsFollowStack, NotStarted
<1>3. /\ turn' = "idle" /\ entry' = None /\ frames' = <<>> /\ stack' = <<>>
      /\ status' = [m \in Modules |-> IF m \in OnStack THEN "evaluated" ELSE status[m]]
      /\ root' = [m \in Modules |-> IF m \in OnStack THEN entry ELSE root[m]]
  BY DEF Abandon
<1>4. \A m \in Modules : m \in OnStack <=> status[m] = "evaluating"
  BY <1>1 DEF Stacked, OnStackAsTheyShould
<1>5. \A m \in Modules : status'[m] \notin {"linking", "evaluating"}
  BY <1>1, <1>3, <1>4 DEF Stacked, OnStackAsTheyShould
<1>6. Stacked' /\ frames' \in Seq(CallOf) /\ stack' \in Seq(PlaceFor)
  BY <1>3, <1>5, NothingStacked
<1>7. Types'
  BY <1>1, <1>2, <1>3, <1>6 DEF Types
<1>8. NotStarted'
  BY <1>1, <1>2, <1>3, <1>4 DEF Inv, NotStarted, Types
<1>9. Reached'
  BY <1>1, <1>2, <1>3, <1>4 DEF Inv, Reached, Begun, Done, Types
<1> QED BY <1>6, <1>7, <1>8, <1>9 DEF Inv

LEMMA RequestFailsKeeps == ASSUME Inv, RequestFails PROVE Inv'
BY AbandonKeeps DEF RequestFails, graph, waits, lists, Inv, Types

LEMMA ThrowsKeeps == ASSUME Inv, Throws PROVE Inv'
<1>1. turn = "evaluating" /\ frames # <<>>
  BY DEF Throws, Inv, Stacked, CallsFollowStack
<1>2. Frame.at \in OnStack /\ Frame.at \in Modules
  BY <1>1, InCall DEF Inv
<1>3. /\ body' \in [Modules -> {"new", "running", "done", "threw"}]
      /\ \A m \in Modules : body'[m] = body[m] \/ m \in OnStack
  BY <1>2 DEF Throws, Inv, Types
<1> QED BY <1>1, <1>3, AbandonKeeps DEF Throws, graph, waits, lists

\* An evaluation that returns.
LEMMA ReturnKeeps ==
    ASSUME Inv, turn = "evaluating", pending[Frame.at] <= 0 \/ body' = body, Return,
           pending' = pending, parents' = parents, gather' = gather, ready' = ready, req' = req, tla' = tla,
           body' \in [Modules -> {"new", "running", "done", "threw"}],
           \A m \in Modules : body'[m] = body[m] \/ m = Frame.at
    PROVE  Inv'
<1>1. Types /\ Stacked
  BY DEF Inv
<1>2. frames # <<>> /\ ready = {}
  BY DEF Inv, Stacked, CallsFollowStack, NotStarted
<1>3. Frame.at \in Modules /\ Frame.at \in OnStack /\ Cycle \subseteq OnStack
  BY <1>1, <1>2, Below
<1>4. /\ IF Closes THEN stack' = Popped ELSE stack' = stack
      /\ frames' = Returned
      /\ \A m \in Modules : IF Closes /\ m \in Cycle THEN status'[m] \in {"async", "evaluated"}
                            ELSE status'[m] = status[m]
      /\ \A m \in Modules : root'[m] = IF Closes /\ m \in Cycle THEN Frame.at ELSE root[m]
      /\ status' \in Statuses /\ root' \in [Modules -> Modules \cup {None}]
  <2>1. /\ status \in Statuses /\ root \in [Modules -> Modules \cup {None}] /\ frames' = Returned
    BY <1>1 DEF Types, Statuses, Return
  <2>2. CASE Closes
    <3>1. /\ status' = [m \in Modules |-> IF m \notin Cycle THEN status[m]
                            ELSE IF flagged'[m] THEN "async" ELSE "evaluated"]
          /\ root' = [m \in Modules |-> IF m \in Cycle THEN Frame.at ELSE root[m]]
          /\ stack' = Popped
      BY <2>2 DEF Return
    <3>2. \A m \in Modules : /\ m \in Cycle => status'[m] \in {"async", "evaluated"}
                             /\ m \notin Cycle => status'[m] = status[m]
      BY <3>1
    <3>3. status' \in Statuses
      BY <2>1, <3>1, <3>2 DEF Statuses
    <3>4. root' \in [Modules -> Modules \cup {None}]
      BY <1>3, <2>1, <3>1
    <3> QED BY <2>1, <2>2, <3>1, <3>2, <3>3, <3>4
  <2>3. CASE ~Closes
    <3>1. status' = status /\ root' = root /\ stack' = stack
      BY <2>3 DEF Return
    <3> QED BY <2>1, <2>3, <3>1
  <2> QED BY <2>2, <2>3
<1>5. \/ turn' = turn /\ entry' = entry /\ Len(frames) # 1
      \/ turn' = "idle" /\ entry' = None /\ Len(frames) = 1
  BY DEF Return
<1>6. /\ Stacked' /\ frames' \in Seq(CallOf) /\ stack' \in Seq(PlaceFor)
      /\ Called' \subseteq Called \ {Frame.at}
  BY <1>1, <1>2, <1>4, <1>5, CallReturned DEF Statuses
<1>7. \A m \in Modules : m \in OnStack => status[m] = "evaluating"
  BY <1>1 DEF Stacked, OnStackAsTheyShould
<1>8. Types'
  BY <1>1, <1>4, <1>5, <1>6 DEF Types, Statuses
<1>9. \A m \in Called' : m \in Called /\ m \in Modules /\ body'[m] = body[m]
  <2>1. \A m \in Called : m \in Modules
    BY <1>1, Listed DEF Called, CallOf
  <2> QED BY <1>6, <2>1
<1>10. NotStarted'
  <2>1. ASSUME NEW m \in Modules, status'[m] \in {"unlinked", "linking", "linked"} PROVE body'[m] = "new"
    <3>1. status[m] = status'[m]
      BY <1>4, <2>1
    <3>2. m # Frame.at
      BY <1>3, <1>7, <2>1, <3>1
    <3> QED BY <2>1, <3>1, <3>2 DEF Inv, NotStarted
  <2>2. ASSUME turn' = "evaluating", NEW m \in Called' PROVE body'[m] = "new"
    BY <1>9, <2>2 DEF Inv, NotStarted
  <2>3. ASSUME NEW m \in Modules, status'[m] # "evaluated", pending'[m] > 0 PROVE body'[m] = "new"
    <3>1. pending[m] \in Int /\ pending[m] > 0
      BY <1>1, <2>3 DEF Types
    <3>2. status[m] # "evaluated"
      BY <1>4, <1>7, <1>3, <2>3
    <3>3. body'[m] = body[m]
      BY <3>1
    <3> QED BY <3>1, <3>2, <3>3 DEF Inv, NotStarted
  <2> QED BY <1>2, <2>1, <2>2, <2>3 DEF NotStarted
<1>11. Begun' = Begun
  BY <1>1, <1>3, <1>4, <1>7 DEF Begun
<1>12. Reached'
  <2>1. \A m \in Modules : body'[m] # "new" => m \in Begun
    BY <1>3, <1>7 DEF Inv, Reached, Begun
  <2>2. \A m \in Modules : Done(m)' => root'[m] \in Modules
    BY <1>3, <1>4 DEF Inv, Reached, Done
  <2> QED BY <1>11, <2>1, <2>2 DEF Inv, Reached
<1> QED BY <1>6, <1>8, <1>10, <1>12 DEF Inv

LEMMA PostponeKeeps == ASSUME Inv, Postpone PROVE Inv'
<1>1. turn = "evaluating" /\ frames # <<>>
  BY DEF Postpone, Inv, Stacked, CallsFollowStack
<1>2. Frame.at \in Modules
  BY <1>1, InCall DEF Inv
<1>3. /\ body' \in [Modules -> {"new", "running", "done", "threw"}]
      /\ \A m \in Modules : body'[m] = body[m] \/ m = Frame.at
      /\ pending[Frame.at] <= 0 \/ body' = body
  BY <1>2 DEF Postpone, Inv, Types
<1> QED BY <1>1, <1>3, ReturnKeeps DEF Postpone, graph, lists

LEMMA ExecuteKeeps == ASSUME Inv, Execute PROVE Inv'
<1>1. turn = "evaluating" /\ frames # <<>>
  BY DEF Execute, Inv, Stacked, CallsFollowStack
<1>2. Frame.at \in Modules
  BY <1>1, InCall DEF Inv
<1>3. /\ body' \in [Modules -> {"new", "running", "done", "threw"}]
      /\ \A m \in Modules : body'[m] = body[m] \/ m = Frame.at
      /\ pending[Frame.at] <= 0 \/ body' = body
  BY <1>2 DEF Execute, Inv, Types
<1> QED BY <1>1, <1>3, ReturnKeeps DEF Execute, graph, waits, lists

\* Those a failure condemns wait for the module that failed.
LEMMA CondemnedWait ==
    ASSUME Inv, frames = <<>>, NEW m \in Modules, m \in Begun
    PROVE  \A x \in Condemned(m) : x \in Modules /\ Done(x)
<1>1. Types /\ Stacked /\ Reached
  BY DEF Inv
<1>2. \A x \in Modules : status[x] \notin {"linking", "evaluating"}
  BY <1>1, Resting
<1>3. Begun \in SUBSET Modules /\ \A x \in Begun : Done(x)
  BY <1>2 DEF Begun, Done
<1>4. \A y \in Begun : \A p \in Elements(parents[y]) : status[p] # "evaluated" => p \in Begun
  BY <1>1 DEF Reached, Begun
<1>5. ASSUME NEW x \in Condemned(m) PROVE x \in Begun
  BY <1>3, <1>4, <1>5 DEF Condemned
<1> QED BY <1>3, <1>5

\* A step that ends a module, or several, while no call is made.
LEMMA EndsKeep ==
    ASSUME Inv, frames = <<>>, calls' = calls, req' = req, tla' = tla, root' = root,
           pending' = pending, parents' = parents,
           turn' \in {"idle", "gathering", "running"},
           gather' \in Seq(Modules), Elements(gather') \subseteq Begun,
           ready' \subseteq ready, ready' # {} => turn' \in {"gathering", "running"},
           status' \in Statuses,
           \A n \in Modules : status'[n] = status[n] \/ (Done(n) /\ status'[n] = "evaluated"),
           body' \in [Modules -> {"new", "running", "done", "threw"}],
           \A n \in Modules : body'[n] = body[n] \/
               (Done(n) /\ n \notin ready' /\ (status'[n] = "evaluated" \/ pending[n] <= 0))
    PROVE  Inv'
<1>1. Types /\ Stacked
  BY DEF Inv
<1>2. /\ stack = <<>> /\ Called = {}
      /\ \A n \in Modules : status[n] \notin {"linking", "evaluating"}
  BY <1>1, Resting
<1>3. frames' = <<>> /\ stack' = <<>> /\ entry' = entry
  BY <1>2 DEF calls
<1>4. \A n \in Modules : status'[n] \notin {"linking", "evaluating"}
  BY <1>2
<1>5. Stacked' /\ frames' \in Seq(CallOf) /\ stack' \in Seq(PlaceFor) /\ Called' = {}
  BY <1>3, <1>4, NothingStacked
<1>6. Types'
  BY <1>1, <1>3, <1>5 DEF Types, Statuses
<1>7. NotStarted'
  <2>1. ASSUME NEW n \in Modules, status'[n] \in {"unlinked", "linking", "linked"} PROVE body'[n] = "new"
    <3>1. status[n] = status'[n] /\ ~Done(n)
      BY <2>1 DEF Done
    <3> QED BY <2>1, <3>1 DEF Inv, NotStarted
  <2>2. ASSUME NEW n \in Modules, status'[n] # "evaluated", pending[n] > 0 PROVE body'[n] = "new"
    <3>1. pending[n] \in Int
      BY <1>1 DEF Types
    <3>2. body'[n] = body[n] /\ status[n] # "evaluated"
      BY <2>2, <3>1
    <3> QED BY <2>2, <3>2 DEF Inv, NotStarted
  <2>3. ASSUME NEW n \in ready' PROVE pending[n] <= 0 /\ (status'[n] # "evaluated" => body'[n] = "new")
    <3>1. n \in ready /\ n \in Modules
      BY <1>1 DEF Types
    <3>2. body'[n] = body[n] /\ (status'[n] # "evaluated" => status[n] # "evaluated")
      BY <3>1
    <3> QED BY <3>1, <3>2 DEF Inv, NotStarted
  <2> QED BY <1>5, <2>1, <2>2, <2>3 DEF NotStarted
<1>8. Begun' = Begun
  BY DEF Begun, Done
<1>9. Reached'
  <2>1. \A n \in Modules : body'[n] # "new" => n \in Begun
    BY DEF Inv, Reached, Begun, Done
  <2>2. \A n \in Modules : Done(n)' => root'[n] \in Modules
    BY DEF Inv, Reached, Done
  <2>3. \A n \in Modules : Elements(parents'[n]) \subseteq Begun
    BY DEF Inv, Reached
  <2>4. ready' \subseteq Begun
    BY DEF Inv, Reached
  <2> QED BY <1>8, <2>1, <2>2, <2>3, <2>4 DEF Reached
<1> QED BY <1>5, <1>6, <1>7, <1>9 DEF Inv

\* Between two evaluations nothing is called.
LEMMA NoCall ==
    ASSUME Inv, turn \in {"idle", "gathering", "running"}
    PROVE  /\ frames = <<>> /\ \A n \in Modules : status[n] \notin {"linking", "evaluating"}
           /\ \A n \in Modules : n \in Begun <=> Done(n)
           /\ \A n \in Modules : body[n] # "new" => Done(n)
<1>1. frames = <<>>
  BY DEF Inv, Stacked, CallsFollowStack
<1>2. \A n \in Modules : status[n] \notin {"linking", "evaluating"}
  BY <1>1, Resting DEF Inv
<1>3. \A n \in Modules : n \in Begun <=> Done(n)
  BY <1>2 DEF Begun, Done
<1> QED BY <1>1, <1>2, <1>3 DEF Inv, Reached

\* A module that fails takes others with it.
LEMMA RejectsStatus ==
    ASSUME Inv, frames = <<>>, NEW m \in Modules, Done(m), Reject(m)
    PROVE  /\ status' \in Statuses
           /\ \A n \in Modules : status'[n] = status[n] \/ (Done(n) /\ status'[n] = "evaluated")
           /\ status'[m] = "evaluated"
<1>1. status \in Statuses
  BY DEF Inv, Types, Statuses
<1>2. status' = [x \in Modules |-> IF x \in Condemned(m) THEN "evaluated" ELSE status[x]]
  BY DEF Reject
<1>3. \A x \in Condemned(m) : Done(x)
  BY CondemnedWait DEF Begun, Done
<1>4. m \in Condemned(m)
  BY DEF Condemned
<1> QED BY <1>1, <1>2, <1>3, <1>4 DEF Statuses

LEMMA BodyThrowsKeeps == ASSUME Inv, NEW m \in Modules, BodyThrows(m) PROVE Inv'
<1>1. turn = "idle" /\ body[m] = "running" /\ ready = {} /\ ready' = {}
  BY DEF BodyThrows, lists, Inv, NotStarted
<1>2. frames = <<>> /\ Done(m)
  BY <1>1, NoCall
<1>3. /\ calls' = calls /\ req' = req /\ tla' = tla /\ root' = root /\ pending' = pending
      /\ parents' = parents /\ turn' = "idle" /\ gather' = gather
      /\ body' = [body EXCEPT ![m] = "threw"]
  BY <1>1 DEF BodyThrows, graph, waits, lists
<1>4. /\ status' \in Statuses
      /\ \A n \in Modules : status'[n] = status[n] \/ (Done(n) /\ status'[n] = "evaluated")
      /\ status'[m] = "evaluated"
  <2>1. CASE status[m] = "evaluated"
    BY <2>1 DEF BodyThrows, Inv, Types, Statuses
  <2>2. CASE status[m] # "evaluated"
    BY <1>2, <2>2, RejectsStatus DEF BodyThrows
  <2> QED BY <2>1, <2>2
<1>5. /\ body' \in [Modules -> {"new", "running", "done", "threw"}]
      /\ \A n \in Modules : body'[n] = body[n] \/ n = m
  BY <1>3 DEF Inv, Types
<1>6. gather' \in Seq(Modules) /\ Elements(gather') \subseteq Begun
  BY <1>3 DEF Inv, Types, Reached
<1> QED BY <1>1, <1>2, <1>3, <1>4, <1>5, <1>6, EndsKeep

LEMMA BodyEndsKeeps == ASSUME Inv, NEW m \in Modules, BodyEnds(m) PROVE Inv'
<1>1. turn = "idle" /\ body[m] = "running" /\ ready = {} /\ ready' = {}
  BY DEF BodyEnds, Inv, NotStarted
<1>2. frames = <<>> /\ Done(m)
  BY <1>1, NoCall
<1>3. /\ calls' = calls /\ req' = req /\ tla' = tla /\ root' = root /\ pending' = pending
      /\ parents' = parents /\ body' = [body EXCEPT ![m] = "done"]
  BY DEF BodyEnds, graph
<1>4. /\ status' \in Statuses
      /\ \A n \in Modules : status'[n] = status[n] \/ (Done(n) /\ status'[n] = "evaluated")
      /\ status'[m] = "evaluated"
      /\ turn' \in {"idle", "gathering"}
      /\ gather' = gather \/ gather' = parents[m]
  BY <1>1, <1>2 DEF BodyEnds, SetEvaluated, Inv, Types, Statuses
<1>5. /\ body' \in [Modules -> {"new", "running", "done", "threw"}]
      /\ \A n \in Modules : body'[n] = body[n] \/ n = m
  BY <1>3 DEF Inv, Types
<1>6. gather' \in Seq(Modules) /\ Elements(gather') \subseteq Begun
  BY <1>4 DEF Inv, Types, Reached
<1> QED BY <1>1, <1>2, <1>3, <1>4, <1>5, <1>6, EndsKeep

LEMMA GatherKeeps == ASSUME Inv, Gather PROVE Inv'
<1>1. Types /\ Stacked /\ turn = "gathering" /\ gather # <<>> /\ gather \in Seq(Modules)
  BY DEF Inv, Gather, Types
<1>2. /\ frames = <<>>
      /\ \A n \in Modules : status[n] \notin {"linking", "evaluating"}
  BY <1>1, NoCall
<1>3. stack = <<>>
  BY <1>1, <1>2, Resting
<1>4. /\ req' = req /\ tla' = tla /\ status' = status /\ root' = root /\ body' = body
      /\ parents' = parents /\ turn' = turn /\ entry' = entry /\ frames' = <<>> /\ stack' = <<>>
  BY <1>2, <1>3 DEF Gather, graph, results, calls
<1> DEFINE p == Head(gather)
<1>5. /\ Head(gather) \in Modules /\ Head(gather) \in Begun /\ Tail(gather) \in Seq(Modules)
      /\ Elements(Tail(gather)) \subseteq Begun
  BY <1>1, ElementsOf DEF Inv, Reached
<1>6. p \in Modules /\ p \in Begun /\ parents[p] \in Seq(Modules) /\ Elements(parents[p]) \subseteq Begun
  BY <1>1, <1>5 DEF Types, Inv, Reached
<1>7. \/ /\ pending' = pending /\ ready' = ready /\ gather' = Tail(gather)
      \/ /\ pending' = [pending EXCEPT ![p] = @ - 1]
         /\ \/ pending[p] = 1 /\ ready' = ready \cup {p}
            \/ pending[p] # 1 /\ ready' = ready
         /\ gather' = Tail(gather) \/ gather' = parents[p] \o Tail(gather)
  BY DEF Gather
<1> HIDE DEF p
<1>8. gather' \in Seq(Modules) /\ Elements(gather') \subseteq Begun
  <2>1. parents[p] \o Tail(gather) \in Seq(Modules)
        /\ Elements(parents[p] \o Tail(gather)) = Elements(parents[p]) \cup Elements(Tail(gather))
    BY <1>5, <1>6, ElementsOf
  <2> QED BY <1>5, <1>6, <1>7, <2>1
<1>9. Stacked' /\ frames' \in Seq(CallOf) /\ stack' \in Seq(PlaceFor) /\ Called' = {}
  BY <1>1, <1>2, <1>4, NothingStacked
<1>10. /\ pending' \in [Modules -> Int] /\ ready' \subseteq Modules /\ ready' \subseteq Begun
       /\ \A n \in Modules : pending[n] \in Int /\ pending'[n] <= pending[n]
  <2>1. pending \in [Modules -> Int] /\ ready \subseteq Modules /\ ready \subseteq Begun
    BY <1>1 DEF Types, Inv, Reached
  <2>2. pending' = pending \/ pending' = [pending EXCEPT ![p] = @ - 1]
    BY <1>7
  <2>3. pending' \in [Modules -> Int] /\ \A n \in Modules : pending[n] \in Int /\ pending'[n] <= pending[n]
    BY <1>6, <2>1, <2>2
  <2>4. ready' \subseteq ready \cup {p}
    BY <1>7
  <2> QED BY <1>6, <2>1, <2>3, <2>4
<1>11. Types'
  BY <1>1, <1>4, <1>8, <1>9, <1>10 DEF Types
<1>12. NotStarted'
  <2>1. ASSUME NEW n \in Modules, status[n] # "evaluated", pending'[n] > 0 PROVE body[n] = "new"
    BY <1>10, <2>1 DEF Inv, NotStarted, Types
  <2>2. ASSUME NEW n \in ready' PROVE pending'[n] <= 0 /\ (status[n] # "evaluated" => body[n] = "new")
    <3>1. n \in Modules
      BY <1>10
    <3>2. CASE n \in ready
      <4>1. pending[n] <= 0 /\ (status[n] # "evaluated" => body[n] = "new")
        BY <3>2 DEF Inv, NotStarted
      <4>2. pending'[n] \in Int /\ pending[n] \in Int /\ pending'[n] <= pending[n]
        BY <1>10, <3>1
      <4> QED BY <4>1, <4>2
    <3>3. CASE n \notin ready
      <4>1. n = p /\ pending[n] = 1 /\ pending' = [pending EXCEPT ![n] = @ - 1]
        BY <1>7, <3>3
      <4>2. pending'[n] = 0
        BY <1>1, <3>1, <4>1 DEF Types
      <4> QED BY <3>1, <4>1, <4>2 DEF Inv, NotStarted
    <3> QED BY <3>2, <3>3
  <2> QED BY <1>1, <1>4, <1>9, <2>1, <2>2 DEF Inv, NotStarted
<1>13. Reached'
  BY <1>4, <1>8, <1>10 DEF Inv, Reached, Begun, Done
<1> QED BY <1>9, <1>11, <1>12, <1>13 DEF Inv

LEMMA GatheredKeeps == ASSUME Inv, Gathered PROVE Inv'
<1>1. turn = "gathering" /\ turn' = "running"
  BY DEF Gathered
<1>2. frames = <<>>
  BY <1>1, NoCall
<1> QED BY <1>1, <1>2, EndsKeep DEF Gathered, graph, results, waits, lists, Inv, Types, Reached, Statuses

LEMMA RunKeeps == ASSUME Inv, NEW m \in Modules, Run(m) PROVE Inv'
<1>1. turn = "running" /\ turn' = "running" /\ m \in ready /\ ready' = ready \ {m}
  BY DEF Run, First
<1>2. frames = <<>>
  BY <1>1, NoCall
<1>3. Done(m) /\ pending[m] <= 0
  BY <1>1, NoCall DEF Inv, Reached, NotStarted
<1>4. /\ calls' = calls /\ req' = req /\ tla' = tla /\ root' = root /\ pending' = pending
      /\ parents' = parents /\ gather' = gather
  BY DEF Run, graph, waits
<1>5. /\ status' \in Statuses
      /\ \A n \in Modules : status'[n] = status[n] \/ (Done(n) /\ status'[n] = "evaluated")
  <2>1. CASE status' = status
    BY <2>1 DEF Inv, Types, Statuses
  <2>2. CASE SetEvaluated(m)
    BY <1>3, <2>2 DEF SetEvaluated, Inv, Types, Statuses
  <2>3. CASE Reject(m)
    BY <1>2, <1>3, <2>3, RejectsStatus
  <2> QED BY <2>1, <2>2, <2>3 DEF Run
<1>6. /\ body' \in [Modules -> {"new", "running", "done", "threw"}]
      /\ \A n \in Modules : body'[n] = body[n] \/ n = m
  BY DEF Run, Inv, Types
<1>7. gather' \in Seq(Modules) /\ Elements(gather') \subseteq Begun
  BY <1>4 DEF Inv, Types, Reached
<1> QED BY <1>1, <1>2, <1>3, <1>4, <1>5, <1>6, <1>7, EndsKeep

LEMMA RanKeeps == ASSUME Inv, Ran PROVE Inv'
<1>1. turn = "running" /\ turn' = "idle" /\ ready = {}
  BY DEF Ran
<1>2. frames = <<>>
  BY <1>1, NoCall
<1> QED BY <1>1, <1>2, EndsKeep DEF Ran, graph, results, waits, lists, Inv, Types, Reached, Statuses

LEMMA StutteringKeeps == ASSUME Inv, UNCHANGED vars PROVE Inv'
<1>1. /\ req' = req /\ tla' = tla /\ status' = status /\ root' = root /\ body' = body
      /\ pending' = pending /\ parents' = parents /\ turn' = turn /\ entry' = entry
      /\ frames' = frames /\ stack' = stack /\ gather' = gather /\ ready' = ready
  BY DEF vars, graph, results, waits, calls, lists
<1>2. OnStack' = OnStack /\ Called' = Called /\ Begun' = Begun
  BY <1>1 DEF OnStack, Called, Begun
<1>3. Types' /\ Stacked'
  BY <1>1, <1>2 DEF Inv, Types, Stacked, OnStackAsTheyShould, CallsFollowStack
<1>4. NotStarted' /\ Reached'
  BY <1>1, <1>2 DEF Inv, NotStarted, Reached, Done
<1> QED BY <1>3, <1>4 DEF Inv

LEMMA NextKeeps == Inv /\ [Next]_vars => Inv'
<1> SUFFICES ASSUME Inv, [Next]_vars PROVE Inv'
  OBVIOUS
<1>1. ASSUME NEW m \in Modules, Import(m) PROVE Inv'
  BY <1>1, ImportKeeps
<1>2. CASE LinkRequest
  BY <1>2, LinkRequestKeeps
<1>3. CASE LinkModule
  BY <1>3, LinkModuleKeeps
<1>4. CASE LinkFails
  BY <1>4, LinkFailsKeeps
<1>5. CASE Evaluate
  BY <1>5, EvaluateKeeps
<1>6. CASE EvaluateRequest
  BY <1>6, EvaluateRequestKeeps
<1>7. CASE RequestEvaluated
  BY <1>7, RequestEvaluatedKeeps
<1>8. CASE RequestFails
  BY <1>8, RequestFailsKeeps
<1>9. CASE Postpone
  BY <1>9, PostponeKeeps
<1>10. CASE Execute
  BY <1>10, ExecuteKeeps
<1>11. CASE Throws
  BY <1>11, ThrowsKeeps
<1>12. CASE Gather
  BY <1>12, GatherKeeps
<1>13. CASE Gathered
  BY <1>13, GatheredKeeps
<1>14. ASSUME NEW m \in Modules, Run(m) PROVE Inv'
  BY <1>14, RunKeeps
<1>15. CASE Ran
  BY <1>15, RanKeeps
<1>16. ASSUME NEW m \in Modules, BodyThrows(m) PROVE Inv'
  BY <1>16, BodyThrowsKeeps
<1>17. ASSUME NEW m \in Modules, BodyEnds(m) PROVE Inv'
  BY <1>17, BodyEndsKeeps
<1>18. CASE UNCHANGED vars
  BY <1>18, StutteringKeeps
<1> QED BY <1>1, <1>2, <1>3, <1>4, <1>5, <1>6, <1>7, <1>8, <1>9, <1>10, <1>11, <1>12, <1>13,
           <1>14, <1>15, <1>16, <1>17, <1>18 DEF Next, Engine, Settle

\* A body that has been called is only called to its end.
Onward(m) ==
    body'[m] # body[m] => body[m] = "new" \/ (body[m] = "running" /\ body'[m] # "new")

LEMMA CalledOnce == ASSUME Inv, [Next]_vars, NEW m \in Modules PROVE Onward(m)
<1>1. CASE body' = body
  BY <1>1 DEF Onward
<1>2. CASE Postpone \/ Execute \/ Throws
  <2>1. turn = "evaluating" /\ frames # <<>>
    BY <1>2 DEF Postpone, Execute, Throws, Inv, Stacked, CallsFollowStack
  <2>2. Frame.at \in Called
    BY <2>1, InCall DEF Inv
  <2>3. body[Frame.at] = "new"
    BY <2>1, <2>2 DEF Inv, NotStarted
  <2>4. body'[m] # body[m] => m = Frame.at
    BY <1>2 DEF Postpone, Execute, Throws, Inv, Types
  <2> QED BY <2>3, <2>4 DEF Onward
<1>3. ASSUME NEW n \in Modules, Settle(n) PROVE Onward(m)
  BY <1>3 DEF Settle, BodyThrows, BodyEnds, Onward, Inv, Types
<1>4. ASSUME NEW n \in Modules, Run(n) PROVE Onward(m)
  <2>1. n \in ready
    BY <1>4 DEF Run, First
  <2>2. status[n] # "evaluated" => body[n] = "new"
    BY <2>1 DEF Inv, NotStarted
  <2>3. body'[m] # body[m] => m = n /\ status[n] # "evaluated"
    BY <1>4 DEF Run, Inv, Types
  <2> QED BY <2>2, <2>3 DEF Onward
<1>5. CASE UNCHANGED vars
  BY <1>1, <1>5 DEF vars, results
<1> QED BY <1>1, <1>2, <1>3, <1>4, <1>5
        DEF Next, Engine, Import, LinkRequest, LinkModule, LinkFails, Evaluate, EvaluateRequest,
            RequestEvaluated, RequestFails, Gather, Gathered, Ran, results

-----------------------------------------------------------------------------
(* The walk and its cycles: the second part of the invariant.              *)

\* The place of the module of call i is below place b, and no call is in between.
At(i) == Place(frames[i].at)
Owns(i, b) == At(i) < b /\ (i < Len(frames) => b < At(i + 1))

\* The module at place b belongs to a cycle that reaches down as far as d does.
Lower(b, d) == d \in OnStack /\ stack[Place(d)].low <= stack[b].low

\* The requests of x that a walk has dealt with, and the modules it leaves alone.
Dealt(x) == {req[x][k] : k \in {k \in DOMAIN req[x] :
                                  \A i \in DOMAIN frames : frames[i].at = x => k < frames[i].next}}
Past == {m \in Modules : Done(m) \/ (turn = "linking" /\ status[m] = "linked")}

\* d, which x requests, is on the stack with it, and what is called after x later.
Stays(x, d) ==
    /\ x \in OnStack /\ d \in OnStack /\ x \in Graph(d) /\ stack[Place(x)].low <= Place(d)
    /\ \A c \in Called : Place(c) > Place(x) => Place(d) < Place(c)

\* Each call waits for the next one; a module whose call has returned is of the
\* cycle of its caller, or of one that has just been requested there.
Tree ==
    /\ \A i \in DOMAIN frames : i < Len(frames) =>
           /\ frames[i].next \in DOMAIN req[frames[i].at]
           /\ req[frames[i].at][frames[i].next] = frames[i + 1].at
    /\ \A i, j \in DOMAIN frames : i <= j => frames[j].at \in Graph(frames[i].at)
    /\ \A i \in DOMAIN frames : \A b \in DOMAIN stack : Owns(i, b) =>
           /\ \/ Lower(b, frames[i].at)
              \/ i = Len(frames) /\ ~AllRequested /\ Request \notin Called /\ Lower(b, Request)
           /\ frames[i].at \in Graph(stack[b].of) /\ stack[b].low < b
    /\ \A b \in DOMAIN stack : \E i \in DOMAIN frames : At(i) = b \/ Owns(i, b)
    /\ \A b \in DOMAIN stack : stack[stack[b].low].of \in Graph(stack[b].of)
    /\ \A x \in OnStack : \A d \in Dealt(x) : Stays(x, d) \/ d \in Past

\* What is linked requests linked modules, and what is imported is linked then.
Ready == {m \in Modules : status[m] \in {"linked", "evaluating", "async", "evaluated"}}
Linked ==
    /\ \A m \in Ready : Elements(req[m]) \subseteq Ready
    /\ \A m \in Modules : Done(m) => root[m] \in Ready
    /\ frames # <<>> => frames[1].at = entry
    /\ turn = "linking" /\ frames = <<>> => entry \in Ready

-----------------------------------------------------------------------------
(* How the modules wait for each other: the third part of the invariant.   *)

MoreTypes ==
    /\ promise \in [Modules -> {"none", "pending", "fulfilled", "rejected"}]
    /\ failed \in [Modules -> BOOLEAN] /\ flagged \in [Modules -> BOOLEAN]
    /\ stamp \in [Modules -> Nat]

\* What a walk does to a module before it marks it, and after.
Marked ==
    /\ \A m \in Modules : failed[m] => status[m] = "evaluated"
    /\ \A m \in Modules : status[m] = "async" => flagged[m]
    /\ \A m \in Modules : body[m] = "running" => flagged[m] /\ (status[m] = "evaluated" => failed[m])
    /\ \A m \in Modules : status[m] = "evaluated" => failed[m] \/ body[m] = "done"
    /\ turn = "evaluating" => \A m \in OnStack \ Called :
           /\ flagged[m] \/ body[m] = "done"
           /\ pending[m] > 0 => flagged[m]
    /\ \A m \in ready : status[m] = "async" \/ failed[m]
    /\ gather # <<>> => turn = "gathering"
    /\ \A m \in Modules : m \notin Begun => pending[m] = 0

\* The modules are stamped one after the other, each when it begins to wait.
Stamped ==
    /\ \A m \in Modules : flagged[m] => stamp[m] > 0
    /\ \A m \in Modules : stamp[m] > 0 => m \in Begun \ (IF turn = "evaluating" THEN Called ELSE {})
    /\ \A m \in Modules : stamp[m] <= LastStamp
    /\ \A y \in Modules : \A p \in Elements(parents[y]) :
           stamp[y] > 0 /\ (stamp[p] > 0 => stamp[y] < stamp[p])

\* The root of a cycle has its capability.
Rooted ==
    /\ \A m \in Modules : Done(m) => Done(root[m]) /\ root[root[m]] = root[m]
    /\ \A m \in Modules : failed[m] => failed[root[m]]
    /\ \A m \in Modules :
           promise[m] # "none" => (Done(m) /\ root[m] = m) \/ (turn = "evaluating" /\ m = entry)

\* Where p occurs in a list, and how often it is still to be counted down: by
\* the modules that have not completed, and by gather_available_ancestors.
Occurs(s, p) == {i \in DOMAIN s : s[i] = p}
Live == {m \in Modules : status[m] \in {"evaluating", "async"} /\ (m \in ready => tla[m])}
Marks(L, ps, p) == UNION {{<<d, i>> : i \in Occurs(ps[d], p)} : d \in L}
Counted == \A p \in Begun : Cardinality(Marks(Live, parents, p)) + Cardinality(Occurs(gather, p)) <= pending[p]

\* The modules that are not evaluated: Condemned follows these alone.
Unfinished == {m \in Modules : status[m] # "evaluated"}
Told(p) == status[p] = "evaluated" => failed[p] /\ failed[root[p]]
Waiting ==
    /\ \A y \in Unfinished : \A p \in Elements(parents[y]) : Told(p)
    /\ \A p \in Elements(gather) : Told(p)
    /\ \A m \in Modules : status[m] = "async" => failed[root[m]] \/ root[m] \in Condemned(m)

\* A module whose call has returned, at place b, waits for the module of its
\* caller, or for the one that has just been requested there.
Walk == turn = "evaluating" =>
    /\ \A i \in DOMAIN frames : \A b \in DOMAIN stack : Owns(i, b) /\ flagged[stack[b].of] =>
           \/ frames[i].at \in Condemned(stack[b].of)
           \/ /\ i = Len(frames) /\ ~AllRequested /\ Request \in OnStack \ Called
              /\ flagged[Request] /\ Request \in Condemned(stack[b].of)
    /\ \A y \in OnStack : \A p \in Elements(parents[y]) : status[p] # "evaluated" =>
           p \in OnStack /\ stack[Place(p)].low <= Place(y)

\* What has become of the requests an evaluation has dealt with: they are of a
\* cycle that is not closed, of the same cycle, complete, or waited for.
InCycle(x, d) == Done(x) /\ Done(d) /\ root[d] = root[x] /\ x \in Graph(d)
Settled(d) == Done(d) /\ ~failed[d] /\ status[root[d]] = "evaluated" /\ ~failed[root[d]]
WaitsFor(x, d) == Done(d) /\ status[root[d]] = "async" /\ x \in Elements(parents[root[d]])
Ordered ==
    \A x \in Begun : ~failed[x] => \A d \in Dealt(x) :
        Stays(x, d) \/ InCycle(x, d) \/ Settled(d) \/ WaitsFor(x, d)

Outcome ==
    /\ \A m \in Modules : failed[m] => \E d \in Graph(m) : body[d] = "threw"
    /\ \A y \in Modules : \A p \in Elements(parents[y]) : y \in Graph(p)
    /\ \A m \in Modules : Done(m) /\ ~failed[m] => root[m] \in Graph(m)

TreeInv == Tree /\ Linked
WaitInv ==
    /\ MoreTypes /\ Marked /\ Stamped /\ Rooted /\ Counted /\ Waiting /\ Walk
    /\ Ordered /\ Outcome

-----------------------------------------------------------------------------
(* Condemned and Graph are least closed sets.                              *)

\* What m condemns: m, and with a module the unfinished ones that wait for it,
\* but no finished one besides m.
LEMMA Condemns ==
    ASSUME NEW m \in Modules
    PROVE  /\ m \in Condemned(m) /\ Condemned(m) \subseteq Modules
           /\ \A y \in Condemned(m) : \A p \in Elements(parents[y]) :
                  p \in Modules /\ status[p] # "evaluated" => p \in Condemned(m)
<1>1. m \in Condemned(m) /\ Condemned(m) \subseteq Modules
  BY DEF Condemned
<1>2. ASSUME NEW y \in Condemned(m), NEW p \in Elements(parents[y]), p \in Modules, status[p] # "evaluated"
      PROVE  p \in Condemned(m)
  <2>1. ASSUME NEW S \in SUBSET Modules, m \in S,
               \A z \in S : \A q \in Elements(parents[z]) : status[q] # "evaluated" => q \in S
        PROVE  p \in S
    <3>1. y \in S
      BY <1>2, <2>1 DEF Condemned
    <3> QED BY <1>2, <2>1, <3>1
  <2> QED BY <1>2, <2>1 DEF Condemned
<1> QED BY <1>1, <1>2

LEMMA CondemnsLeast ==
    ASSUME NEW m, NEW S \in SUBSET Modules, m \in S,
           \A y \in S : \A p \in Elements(parents[y]) : status[p] # "evaluated" => p \in S
    PROVE  Condemned(m) \subseteq S
BY DEF Condemned

LEMMA CondemnsOn ==
    ASSUME NEW m \in Modules, NEW x \in Condemned(m),
           \A y \in Modules : Elements(parents[y]) \subseteq Modules
    PROVE  Condemned(x) \subseteq Condemned(m)
<1>1. /\ Condemned(m) \in SUBSET Modules
      /\ \A y \in Condemned(m) : \A p \in Elements(parents[y]) : status[p] # "evaluated" => p \in Condemned(m)
  BY Condemns
<1> HIDE DEF Condemned
<1> QED BY <1>1, CondemnsLeast

LEMMA CondemnsUnfinished ==
    ASSUME NEW m \in Modules, \A y \in Modules : Elements(parents[y]) \subseteq Modules
    PROVE  Condemned(m) \subseteq Unfinished \cup {m}
<1>1. \A y \in Unfinished \cup {m} : \A p \in Elements(parents[y]) :
          status[p] # "evaluated" => p \in Unfinished \cup {m}
  BY DEF Unfinished
<1>2. Unfinished \cup {m} \in SUBSET Modules
  BY DEF Unfinished
<1> QED BY <1>1, <1>2, CondemnsLeast

\* Some modules finish, and with each the unfinished ones that wait for it: what
\* waits for m otherwise goes on to do so.
LEMMA CondemnsStill ==
    ASSUME NEW E \in SUBSET Modules, NEW m \in Modules,
           \A y \in Modules : Elements(parents[y]) \subseteq Elements(parents'[y]),
           \A y \in Modules : Elements(parents[y]) \subseteq Modules,
           \A x \in Modules : status'[x] = "evaluated" => status[x] = "evaluated" \/ x \in E,
           \A y \in E : \A p \in Elements(parents[y]) : status[p] # "evaluated" => p \in E
    PROVE  \A x \in Condemned(m) : x \in E \/ x \in Condemned(m)'
<1> SUFFICES ASSUME NEW x \in Condemned(m), x \notin E,
                    NEW S \in SUBSET Modules, m \in S,
                    \A y \in S : \A p \in Elements(parents'[y]) : status'[p] # "evaluated" => p \in S
             PROVE  x \in S
  BY DEF Condemned
<1> DEFINE T == S \cup E
<1>1. ASSUME NEW y \in T, NEW p \in Elements(parents[y]), status[p] # "evaluated" PROVE p \in T
  <2>1. CASE y \in E
    BY <1>1, <2>1
  <2>2. CASE y \in S
    <3>1. p \in Elements(parents'[y]) /\ p \in Modules
      BY <1>1, <2>2
    <3>2. CASE p \in E
      BY <3>2
    <3>3. CASE p \notin E
      BY <1>1, <2>2, <3>1, <3>3
    <3> QED BY <3>2, <3>3
  <2> QED BY <1>1, <2>1, <2>2
<1>2. T \in SUBSET Modules /\ m \in T
  OBVIOUS
<1> HIDE DEF T
<1>3. Condemned(m) \subseteq T
  BY <1>1, <1>2, CondemnsLeast
<1> QED BY <1>3 DEF T

\* Some modules finish for which no unfinished module was waited: what waits for m
\* goes on to do so.
LEMMA CondemnsAsBefore ==
    ASSUME NEW E \in SUBSET Modules, NEW m \in Unfinished,
           \A y \in Modules : Elements(parents[y]) \subseteq Elements(parents'[y]),
           \A y \in Modules : Elements(parents[y]) \subseteq Modules,
           \A x \in Modules : status'[x] = "evaluated" => status[x] = "evaluated" \/ x \in E,
           \A y \in Unfinished : E \cap Elements(parents[y]) = {}
    PROVE  \A x \in Condemned(m) : x \in Condemned(m)'
<1> SUFFICES ASSUME NEW x \in Condemned(m),
                    NEW S \in SUBSET Modules, m \in S,
                    \A y \in S : \A p \in Elements(parents'[y]) : status'[p] # "evaluated" => p \in S
             PROVE  x \in S
  BY DEF Condemned
<1> DEFINE T == S \cap Unfinished
<1>1. ASSUME NEW y \in T, NEW p \in Elements(parents[y]), status[p] # "evaluated" PROVE p \in T
  <2>1. p \in Modules /\ y \in Modules /\ p \notin E
    BY DEF Unfinished
  <2>2. p \in Elements(parents'[y]) /\ status'[p] # "evaluated"
    BY <1>1, <2>1
  <2> QED BY <1>1, <2>1, <2>2 DEF Unfinished
<1>2. T \in SUBSET Modules /\ m \in T
  OBVIOUS
<1> HIDE DEF T
<1>3. Condemned(m) \subseteq T
  BY <1>1, <1>2, CondemnsLeast
<1> QED BY <1>3 DEF T

LEMMA GraphIs ==
    ASSUME NEW m \in Modules, \A y \in Modules : Elements(req[y]) \subseteq Modules
    PROVE  /\ m \in Graph(m) /\ Graph(m) \subseteq Modules
           /\ \A y \in Graph(m) : Elements(req[y]) \subseteq Graph(m)
           /\ \A y \in Graph(m) : Graph(y) \subseteq Graph(m)
           /\ \A S \in SUBSET Modules :
                  m \in S /\ (\A y \in S : Elements(req[y]) \subseteq S) => Graph(m) \subseteq S
<1>1. m \in Graph(m) /\ Graph(m) \in SUBSET Modules
  BY DEF Graph
<1>2. ASSUME NEW y \in Graph(m), NEW d \in Elements(req[y]) PROVE d \in Graph(m)
  <2>1. y \in Modules /\ d \in Modules
    BY <1>1
  <2>2. ASSUME NEW S \in SUBSET Modules, m \in S, \A z \in S : Elements(req[z]) \subseteq S
        PROVE  d \in S
    <3>1. y \in S
      BY <1>2, <2>2 DEF Graph
    <3> QED BY <1>2, <2>2, <3>1
  <2> QED BY <2>1, <2>2 DEF Graph
<1>3. \A S \in SUBSET Modules : \A x : x \in S /\ (\A y \in S : Elements(req[y]) \subseteq S) => Graph(x) \subseteq S
  BY DEF Graph
<1> HIDE DEF Graph
<1> QED BY <1>1, <1>2, <1>3

\* The graphs stay what they are.
LEMMA GraphStays == ASSUME req' = req, NEW m PROVE Graph(m)' = Graph(m)
BY DEF Graph, Elements

-----------------------------------------------------------------------------
(* How often a module is counted down.                                     *)

LEMMA ImageSize ==
    ASSUME NEW S, IsFiniteSet(S), NEW f
    PROVE  /\ IsFiniteSet({f[x] : x \in S})
           /\ Cardinality({f[x] : x \in S}) <= Cardinality(S)
<1> DEFINE T == {f[x] : x \in S}
<1> DEFINE g == [x \in S |-> f[x]]
<1>1. g \in Surjection(S, T)
  BY DEF Surjection
<1> HIDE DEF g, T
<1>2. IsFiniteSet(T) /\ Cardinality(T) <= Cardinality(S)
  BY <1>1, FS_Surjection
<1> QED BY <1>2 DEF T

\* In a list, in what is left of it, and in a longer one.
LEMMA OccursIn ==
    ASSUME NEW s \in Seq(Modules), NEW p
    PROVE  /\ IsFiniteSet(Occurs(s, p)) /\ Cardinality(Occurs(s, p)) \in Nat
           /\ Occurs(s, p) \subseteq 1..Len(s)
           /\ p \notin Elements(s) => Cardinality(Occurs(s, p)) = 0
           /\ p \in Elements(s) => Cardinality(Occurs(s, p)) > 0
<1>1. Len(s) \in Nat /\ DOMAIN s = 1..Len(s)
  BY LenProperties
<1>2. Occurs(s, p) \subseteq 1..Len(s)
  BY <1>1 DEF Occurs
<1>3. IsFiniteSet(1..Len(s))
  BY <1>1, FS_Interval
<1>4. IsFiniteSet(Occurs(s, p)) /\ Cardinality(Occurs(s, p)) \in Nat
  BY <1>2, <1>3, FS_Subset, FS_CardinalityType
<1>5. p \in Elements(s) <=> Occurs(s, p) # {}
  BY DEF Occurs, Elements
<1>6. Cardinality(Occurs(s, p)) = 0 <=> Occurs(s, p) = {}
  BY <1>4, FS_EmptySet
<1> QED BY <1>2, <1>4, <1>5, <1>6

LEMMA OccursInConcat ==
    ASSUME NEW s \in Seq(Modules), NEW t \in Seq(Modules), NEW p
    PROVE  Cardinality(Occurs(s \o t, p)) <= Cardinality(Occurs(s, p)) + Cardinality(Occurs(t, p))
<1> DEFINE A == Occurs(s, p)
<1> DEFINE B == Occurs(t, p)
<1> DEFINE f == [i \in Nat |-> i + Len(s)]
<1> DEFINE C == {f[i] : i \in B}
<1>1. /\ Len(s) \in Nat /\ Len(t) \in Nat /\ DOMAIN s = 1..Len(s) /\ DOMAIN t = 1..Len(t)
      /\ s \o t \in Seq(Modules) /\ Len(s \o t) = Len(s) + Len(t)
      /\ DOMAIN (s \o t) = 1..(Len(s) + Len(t))
      /\ \A i \in 1 .. Len(s) + Len(t) : (s \o t)[i] = IF i <= Len(s) THEN s[i] ELSE t[i - Len(s)]
  <2>1. s \o t \in Seq(Modules) /\ Len(s \o t) = Len(s) + Len(t)
        /\ \A i \in 1 .. Len(s) + Len(t) : (s \o t)[i] = IF i <= Len(s) THEN s[i] ELSE t[i - Len(s)]
    BY ConcatProperties
  <2>2. Len(s) \in Nat /\ Len(t) \in Nat /\ DOMAIN s = 1..Len(s) /\ DOMAIN t = 1..Len(t)
    BY LenProperties
  <2>3. DOMAIN (s \o t) = 1..(Len(s) + Len(t))
    BY <2>1, LenProperties
  <2> QED BY <2>1, <2>2, <2>3
<1>2. ASSUME NEW i \in Occurs(s \o t, p) PROVE i \in A \cup C
  <2>1. i \in 1..(Len(s) + Len(t)) /\ (s \o t)[i] = p
    BY <1>1 DEF Occurs
  <2>2. CASE i <= Len(s)
    BY <1>1, <2>1, <2>2 DEF Occurs
  <2>3. CASE i > Len(s)
    <3>1. i - Len(s) \in 1..Len(t) /\ t[i - Len(s)] = p
      BY <1>1, <2>1, <2>3
    <3>2. i - Len(s) \in B /\ i - Len(s) \in Nat
      BY <1>1, <3>1 DEF Occurs
    <3>3. f[i - Len(s)] = i
      BY <1>1, <2>1, <3>2
    <3> QED BY <3>2, <3>3
  <2>4. i <= Len(s) \/ i > Len(s)
    BY <1>1, <2>1
  <2> QED BY <2>2, <2>3, <2>4
<1>3. IsFiniteSet(A) /\ IsFiniteSet(B) /\ Cardinality(A) \in Nat /\ Cardinality(B) \in Nat
  BY OccursIn
<1> HIDE DEF f, A, B
<1>4. IsFiniteSet(C) /\ Cardinality(C) <= Cardinality(B)
  BY <1>3, ImageSize
<1> HIDE DEF C
<1>5. IsFiniteSet(A \cup C) /\ Cardinality(A \cup C) <= Cardinality(A) + Cardinality(C)
      /\ Cardinality(C) \in Nat
  <2>1. IsFiniteSet(A \cup C) /\ IsFiniteSet(A \cap C)
        /\ Cardinality(A \cup C) = Cardinality(A) + Cardinality(C) - Cardinality(A \cap C)
    BY <1>3, <1>4, FS_Union, FS_Intersection
  <2>2. Cardinality(A \cap C) \in Nat /\ Cardinality(C) \in Nat
    BY <1>4, <2>1, FS_CardinalityType
  <2> QED BY <1>3, <2>1, <2>2
<1>6. Cardinality(Occurs(s \o t, p)) <= Cardinality(A \cup C)
      /\ Cardinality(A \cup C) \in Nat /\ Cardinality(Occurs(s \o t, p)) \in Nat
  BY <1>1, <1>2, <1>5, FS_Subset, FS_CardinalityType, OccursIn
<1> QED BY <1>3, <1>4, <1>5, <1>6 DEF A, B

LEMMA OccursInTail ==
    ASSUME NEW s \in Seq(Modules), s # <<>>, NEW p
    PROVE  /\ Cardinality(Occurs(Tail(s), p)) <= Cardinality(Occurs(s, p))
           /\ p = Head(s) => Cardinality(Occurs(Tail(s), p)) <= Cardinality(Occurs(s, p)) - 1
<1> DEFINE A == Occurs(s, p) \ {1}
<1> DEFINE f == [i \in Nat |-> i - 1]
<1> DEFINE C == {f[i] : i \in A}
<1>1. /\ Len(s) \in Nat \ {0} /\ DOMAIN s = 1..Len(s) /\ Tail(s) \in Seq(Modules)
      /\ DOMAIN Tail(s) = 1..(Len(s) - 1) /\ \A i \in 1 .. Len(s) - 1 : Tail(s)[i] = s[i + 1]
  <2>1. Tail(s) \in Seq(Modules) /\ Len(Tail(s)) = Len(s) - 1
        /\ \A i \in 1 .. Len(Tail(s)) : Tail(s)[i] = s[i + 1]
    BY HeadTailProperties
  <2>2. Len(s) \in Nat \ {0} /\ DOMAIN s = 1..Len(s)
    BY LenProperties, EmptySeq
  <2>3. DOMAIN Tail(s) = 1..(Len(s) - 1)
    BY <2>1, LenProperties
  <2> QED BY <2>1, <2>2, <2>3
<1>2. Occurs(Tail(s), p) \subseteq C
  <2>1. ASSUME NEW i \in Occurs(Tail(s), p) PROVE i \in C
    <3>1. i \in 1..(Len(s) - 1) /\ s[i + 1] = p
      BY <1>1 DEF Occurs
    <3>2. i + 1 \in A /\ i + 1 \in Nat
      BY <1>1, <3>1 DEF Occurs
    <3>3. f[i + 1] = i
      BY <3>1, <3>2
    <3> QED BY <3>2, <3>3
  <2> QED BY <2>1
<1>3. IsFiniteSet(Occurs(s, p)) /\ Cardinality(Occurs(s, p)) \in Nat
  BY OccursIn
<1>4. IsFiniteSet(A) /\ Cardinality(A) = IF 1 \in Occurs(s, p) THEN Cardinality(Occurs(s, p)) - 1
                                         ELSE Cardinality(Occurs(s, p))
  BY <1>3, FS_RemoveElement
<1>5. p = Head(s) => 1 \in Occurs(s, p)
  BY <1>1 DEF Occurs
<1> HIDE DEF A, f
<1>6. IsFiniteSet(C) /\ Cardinality(C) <= Cardinality(A)
  BY <1>4, ImageSize
<1> HIDE DEF C
<1>7. Cardinality(Occurs(Tail(s), p)) <= Cardinality(C)
      /\ Cardinality(Occurs(Tail(s), p)) \in Nat /\ Cardinality(C) \in Nat
  BY <1>1, <1>2, <1>6, FS_Subset, FS_CardinalityType, OccursIn
<1>8. Cardinality(A) \in Nat
  BY <1>4, FS_CardinalityType
<1> QED BY <1>3, <1>4, <1>5, <1>6, <1>7, <1>8

LEMMA MarksFinite ==
    ASSUME NEW L \in SUBSET Modules, NEW ps \in [Modules -> Seq(Modules)], NEW p
    PROVE  /\ IsFiniteSet(Marks(L, ps, p)) /\ Cardinality(Marks(L, ps, p)) \in Nat
           /\ \A d \in L : p \in Elements(ps[d]) => Cardinality(Marks(L, ps, p)) > 0
<1> DEFINE part == [d \in L |-> {<<d, i>> : i \in Occurs(ps[d], p)}]
<1> DEFINE parts == {part[d] : d \in L}
<1>1. Marks(L, ps, p) = UNION parts
  BY DEF Marks
<1>2. ASSUME NEW d \in L PROVE IsFiniteSet(part[d])
  <2> DEFINE f == [i \in Nat |-> <<d, i>>]
  <2>1. ps[d] \in Seq(Modules)
    OBVIOUS
  <2>2. IsFiniteSet(Occurs(ps[d], p)) /\ Occurs(ps[d], p) \subseteq Nat
    <3>1. IsFiniteSet(Occurs(ps[d], p)) /\ Occurs(ps[d], p) \subseteq 1..Len(ps[d])
      BY <2>1, OccursIn
    <3> QED BY <3>1, <2>1, LenProperties
  <2>3. part[d] = {f[i] : i \in Occurs(ps[d], p)}
    BY <2>2
  <2> DEFINE O == Occurs(ps[d], p)
  <2> HIDE DEF f, part, O
  <2>4. IsFiniteSet({f[i] : i \in O})
    BY <2>2, ImageSize DEF O
  <2> QED BY <2>3, <2>4 DEF O
<1>3. IsFiniteSet(L)
  BY ModulesAssumption, FS_Subset
<1> HIDE DEF part
<1>4. IsFiniteSet(parts)
  BY <1>3, ImageSize
<1>5. \A T \in parts : IsFiniteSet(T)
  BY <1>2
<1> HIDE DEF parts
<1>6. IsFiniteSet(Marks(L, ps, p))
  BY <1>1, <1>4, <1>5, FS_UNION
<1>7. Cardinality(Marks(L, ps, p)) \in Nat
  BY <1>6, FS_CardinalityType
<1>8. ASSUME NEW d \in L, p \in Elements(ps[d]) PROVE Cardinality(Marks(L, ps, p)) > 0
  <2>0. PICK i \in Occurs(ps[d], p) : TRUE
    BY <1>8 DEF Occurs, Elements
  <2>1. <<d, i>> \in Marks(L, ps, p)
    BY DEF Marks
  <2> QED BY <1>6, <1>7, <2>1, FS_EmptySet
<1> QED BY <1>6, <1>7, <1>8

\* What the marks are made of.
LEMMA MarkIs ==
    ASSUME NEW L, NEW ps, NEW p
    PROVE  \A w : w \in Marks(L, ps, p) <=> \E d \in L : \E i \in Occurs(ps[d], p) : w = <<d, i>>
BY DEF Marks

LEMMA MarksFewer ==
    ASSUME NEW L \in SUBSET Modules, NEW ps \in [Modules -> Seq(Modules)], NEW p,
           NEW K \in SUBSET Modules, \A d \in K : d \in L \/ Elements(ps[d]) = {}
    PROVE  Cardinality(Marks(K, ps, p)) <= Cardinality(Marks(L, ps, p))
<1>1. \A d \in K : d \in L \/ Occurs(ps[d], p) = {}
  BY DEF Occurs, Elements
<1>2. ASSUME NEW w \in Marks(K, ps, p) PROVE w \in Marks(L, ps, p)
  <2>1. PICK d \in K : \E i \in Occurs(ps[d], p) : w = <<d, i>>
    BY MarkIs
  <2>2. d \in L
    BY <1>1, <2>1
  <2> QED BY <2>1, <2>2 DEF Marks
<1> QED BY <1>2, MarksFinite, FS_Subset

\* What waits for d is counted down by gather_available_ancestors instead.
LEMMA MarksReleased ==
    ASSUME NEW L \in SUBSET Modules, NEW ps \in [Modules -> Seq(Modules)], NEW p, NEW d \in L
    PROVE  Cardinality(Marks(L \ {d}, ps, p)) + Cardinality(Occurs(ps[d], p))
               <= Cardinality(Marks(L, ps, p))
<1> DEFINE A == Marks(L, ps, p)
<1> DEFINE B == Marks({d}, ps, p)
<1> DEFINE f == [w \in Modules \X Nat |-> w[2]]
<1>1. ps[d] \in Seq(Modules)
  OBVIOUS
<1>2. IsFiniteSet(A) /\ IsFiniteSet(B) /\ Cardinality(A) \in Nat /\ Cardinality(B) \in Nat
  BY MarksFinite
<1>3. Marks(L \ {d}, ps, p) = A \ B /\ B \subseteq A
  BY MarkIs
<1>4. Occurs(ps[d], p) \subseteq Nat
  BY <1>1, OccursIn, LenProperties
<1>5. Occurs(ps[d], p) = {f[w] : w \in B}
  <2>1. ASSUME NEW i \in Occurs(ps[d], p) PROVE i \in {f[w] : w \in B}
    <3>1. <<d, i>> \in B
      BY <2>1, MarkIs
    <3>2. f[<<d, i>>] = i
      BY <1>4, <2>1
    <3> QED BY <3>1, <3>2
  <2>2. ASSUME NEW w \in B PROVE f[w] \in Occurs(ps[d], p)
    <3>1. PICK i \in Occurs(ps[d], p) : w = <<d, i>>
      BY MarkIs
    <3>2. f[w] = i
      BY <1>4, <3>1
    <3> QED BY <3>2
  <2> QED BY <2>1, <2>2
<1> HIDE DEF A, B, f
<1>6. Cardinality(Occurs(ps[d], p)) <= Cardinality(B) /\ Cardinality(Occurs(ps[d], p)) \in Nat
  BY <1>1, <1>2, <1>5, ImageSize, OccursIn
<1>7. Cardinality(A \ B) = Cardinality(A) - Cardinality(B) /\ Cardinality(A \ B) \in Nat
  <2>1. A \cap B = B
    BY <1>3
  <2>2. Cardinality(A \ B) = Cardinality(A) - Cardinality(A \cap B) /\ IsFiniteSet(A \ B)
    BY <1>2, FS_Difference
  <2> QED BY <2>1, <2>2, FS_CardinalityType
<1>8. Cardinality(A \ B) + Cardinality(Occurs(ps[d], p)) <= Cardinality(A)
  BY <1>2, <1>6, <1>7
<1> QED BY <1>3, <1>8 DEF A

\* q waits for y.
LEMMA MarksMore ==
    ASSUME NEW L \in SUBSET Modules, NEW ps \in [Modules -> Seq(Modules)], NEW p,
           NEW y \in Modules, NEW q \in Modules
    PROVE  Cardinality(Marks(L, [ps EXCEPT ![y] = Append(ps[y], q)], p))
               <= Cardinality(Marks(L, ps, p)) + (IF p = q THEN 1 ELSE 0)
<1> DEFINE qs == [ps EXCEPT ![y] = Append(ps[y], q)]
<1> DEFINE A == Marks(L, ps, p)
<1> DEFINE w == <<y, Len(ps[y]) + 1>>
<1>1. /\ Append(ps[y], q) \in Seq(Modules)
      /\ \A i \in DOMAIN Append(ps[y], q) :
           IF i = Len(ps[y]) + 1 THEN Append(ps[y], q)[i] = q
           ELSE i \in DOMAIN ps[y] /\ Append(ps[y], q)[i] = ps[y][i]
  BY AppendProperties, LenProperties
<1>2. qs \in [Modules -> Seq(Modules)]
  BY <1>1
<1>3. ASSUME NEW d \in L, NEW i \in Occurs(qs[d], p)
      PROVE  i \in Occurs(ps[d], p) \/ (<<d, i>> = w /\ p = q)
  <2>1. CASE d = y
    BY <1>1, <1>3, <2>1 DEF Occurs
  <2>2. CASE d # y
    BY <1>3, <2>2
  <2> QED BY <2>1, <2>2
<1>4. Marks(L, qs, p) \subseteq IF p = q THEN A \cup {w} ELSE A
  <2> SUFFICES ASSUME NEW v \in Marks(L, qs, p) PROVE v \in A \/ (v = w /\ p = q)
    OBVIOUS
  <2> HIDE DEF qs, w
  <2>1. PICK d \in L : \E i \in Occurs(qs[d], p) : v = <<d, i>>
    BY MarkIs
  <2>3. PICK i \in Occurs(qs[d], p) : v = <<d, i>>
    BY <2>1
  <2>2. CASE i \in Occurs(ps[d], p)
    BY <2>3, <2>2 DEF Marks
  <2> QED BY <1>3, <2>3, <2>2
<1>5. IsFiniteSet(A) /\ Cardinality(A) \in Nat
  BY MarksFinite
<1> HIDE DEF A, w, qs
<1>6. IsFiniteSet(A \cup {w}) /\ Cardinality(A \cup {w}) <= Cardinality(A) + 1
      /\ Cardinality(A \cup {w}) \in Nat
  <2>1. IsFiniteSet(A \cup {w})
        /\ Cardinality(A \cup {w}) = IF w \in A THEN Cardinality(A) ELSE Cardinality(A) + 1
    BY <1>5, FS_AddElement
  <2> QED BY <1>5, <2>1
<1>7. IsFiniteSet(Marks(L, qs, p)) /\ Cardinality(Marks(L, qs, p)) \in Nat
  BY <1>2, MarksFinite
<1>8. CASE p = q
  <2>1. Cardinality(Marks(L, qs, p)) <= Cardinality(A \cup {w})
    BY <1>4, <1>6, <1>8, FS_Subset
  <2> QED BY <1>5, <1>6, <1>7, <1>8, <2>1 DEF A, qs
<1>9. CASE p # q
  <2>1. Cardinality(Marks(L, qs, p)) <= Cardinality(A)
    BY <1>4, <1>5, <1>9, FS_Subset
  <2> QED BY <1>5, <1>7, <1>9, <2>1 DEF A, qs
<1> QED BY <1>8, <1>9

-----------------------------------------------------------------------------
(* What follows from the invariant.                                        *)

LEMMA Facts ==
    ASSUME Inv
    PROVE  /\ \A y \in Modules : /\ req[y] \in Seq(Modules) /\ parents[y] \in Seq(Modules)
                                 /\ Elements(req[y]) \subseteq Modules
                                 /\ Elements(parents[y]) \subseteq Begun
           /\ parents \in [Modules -> Seq(Modules)]
           /\ gather \in Seq(Modules) /\ Elements(gather) \subseteq Begun
           /\ ready \subseteq Begun /\ Begun \subseteq Modules /\ Live \subseteq Begun
           /\ Called \subseteq OnStack /\ OnStack \subseteq Modules
           /\ \A m \in Modules : m \in OnStack <=> status[m] \in {"linking", "evaluating"}
           /\ \A m \in Modules : status[m] \in {"linking", "evaluating"} => status[m] = turn
           /\ turn # "evaluating" => \A m \in Begun : Done(m) /\ m \notin Called /\ m \notin OnStack
           /\ turn = "evaluating" => ready = {} /\ OnStack \subseteq Begun
           /\ \A m \in Modules : Done(m) => m \in Begun /\ m \notin OnStack /\ m \notin Called
<1>1. \A y \in Modules : /\ req[y] \in Seq(Modules) /\ parents[y] \in Seq(Modules)
                         /\ Elements(req[y]) \subseteq Modules
  BY ElementsOf DEF Inv, Types
<1>2. \A y \in Modules : Elements(parents[y]) \subseteq Begun
  BY DEF Inv, Reached
<1>3. parents \in [Modules -> Seq(Modules)] /\ gather \in Seq(Modules)
  BY DEF Inv, Types
<1>4. Elements(gather) \subseteq Begun /\ ready \subseteq Begun
  BY DEF Inv, Reached
<1>5. Begun \subseteq Modules /\ Live \subseteq Begun
  BY DEF Begun, Live
<1>6. OnStack \subseteq Modules
  <2>1. \A i \in DOMAIN stack : stack[i] \in PlaceFor
    BY Listed DEF Inv
  <2> QED BY <2>1 DEF OnStack, PlaceFor
<1>7. Called \subseteq OnStack
  BY DEF Called, Inv, Stacked, CallsFollowStack
<1>8. /\ \A m \in Modules : m \in OnStack <=> status[m] \in {"linking", "evaluating"}
      /\ \A m \in Modules : status[m] \in {"linking", "evaluating"} => status[m] = turn
  BY DEF Inv, Stacked, OnStackAsTheyShould
<1>9. turn # "evaluating" => \A m \in Begun : Done(m) /\ m \notin Called /\ m \notin OnStack
  BY <1>7, <1>8 DEF Begun, Done
<1>10. turn = "evaluating" => ready = {} /\ OnStack \subseteq Begun
  BY <1>6, <1>8 DEF Begun, Inv, NotStarted
<1>11. \A m \in Modules : Done(m) => m \in Begun /\ m \notin OnStack /\ m \notin Called
  BY <1>7, <1>8 DEF Begun, Done
<1> QED BY <1>1, <1>2, <1>3, <1>4, <1>5, <1>6, <1>7, <1>8, <1>9, <1>10, <1>11

\* The places of the modules, and of the calls.
WellPlaced ==
    /\ Len(stack) \in Nat /\ DOMAIN stack = 1..Len(stack)
    /\ Len(frames) \in Nat /\ DOMAIN frames = 1..Len(frames)
    /\ \A i \in DOMAIN stack :
         /\ stack[i].of \in OnStack /\ stack[i].of \in Modules /\ Place(stack[i].of) = i
         /\ stack[i].low \in DOMAIN stack /\ stack[i].low <= i /\ stack[i].low \in Nat
    /\ \A m \in OnStack : Place(m) \in DOMAIN stack /\ stack[Place(m)].of = m
    /\ \A i \in DOMAIN frames :
         /\ frames[i].at \in Called /\ frames[i].at \in OnStack /\ frames[i].at \in Modules
         /\ frames[i].next \in Nat \ {0}
         /\ At(i) \in DOMAIN stack /\ stack[At(i)].of = frames[i].at
    /\ \A i, j \in DOMAIN frames : i < j => At(i) < At(j)

LEMMA Places == ASSUME Inv PROVE WellPlaced
<1>1. /\ Len(stack) \in Nat /\ DOMAIN stack = 1..Len(stack)
      /\ Len(frames) \in Nat /\ DOMAIN frames = 1..Len(frames)
      /\ \A i \in DOMAIN stack : stack[i] \in PlaceFor
      /\ \A i \in DOMAIN frames : frames[i] \in CallOf
      /\ stack \in Seq(PlaceFor)
  BY Listed DEF Inv
<1>2. ASSUME NEW i \in DOMAIN stack
      PROVE  /\ stack[i].of \in OnStack /\ stack[i].of \in Modules /\ Place(stack[i].of) = i
             /\ stack[i].low \in DOMAIN stack /\ stack[i].low <= i /\ stack[i].low \in Nat
  <2>1. stack[i].low \in Nat \ {0} /\ stack[i].low <= i /\ stack[i].of \in Modules
    BY <1>1 DEF PlaceFor, Inv, Stacked, OnStackAsTheyShould
  <2>2. Place(stack[i].of) = i
    BY <1>1, PlaceOf DEF Inv, Stacked
  <2>3. stack[i].of \in OnStack
    BY DEF OnStack
  <2> QED BY <1>1, <2>1, <2>2, <2>3
<1>3. ASSUME NEW m \in OnStack PROVE Place(m) \in DOMAIN stack /\ stack[Place(m)].of = m
  BY <1>1, PlaceExists DEF Inv, Stacked
<1>4. ASSUME NEW i \in DOMAIN frames
      PROVE  /\ frames[i].at \in Called /\ frames[i].at \in OnStack /\ frames[i].at \in Modules
             /\ frames[i].next \in Nat \ {0}
             /\ At(i) \in DOMAIN stack /\ stack[At(i)].of = frames[i].at
  <2>1. frames[i].at \in OnStack /\ frames[i].at \in Called
    BY DEF Inv, Stacked, CallsFollowStack, Called
  <2>2. frames[i].at \in Modules /\ frames[i].next \in Nat \ {0}
    BY <1>1 DEF CallOf
  <2> QED BY <1>3, <2>1, <2>2 DEF At
<1>5. ASSUME NEW i \in DOMAIN frames, NEW j \in DOMAIN frames, i < j PROVE At(i) < At(j)
  BY <1>4, <1>5 DEF Inv, Stacked, CallsFollowStack
<1> QED BY <1>1, <1>2, <1>3, <1>4, <1>5 DEF WellPlaced

LEMMA PlacesThen == ASSUME Inv' PROVE WellPlaced'
BY Places, PTL

\* A module that stays on the stack keeps its place.
LEMMA PlacesKept ==
    ASSUME Inv, Inv'
    PROVE  \A i, n : i \in DOMAIN stack /\ i \in DOMAIN stack' /\ stack[i].of = n /\ stack'[i].of = n
               => Place(n) = i /\ Place(n)' = i /\ n \in OnStack /\ n \in OnStack'
BY Places, PlacesThen DEF WellPlaced

\* A module is on the stack, or an evaluation has dealt with it.
FactsHold ==
    /\ \A y \in Modules : /\ req[y] \in Seq(Modules) /\ parents[y] \in Seq(Modules)
                          /\ Elements(req[y]) \subseteq Modules
                          /\ Elements(parents[y]) \subseteq Begun
    /\ Begun \subseteq Modules /\ Called \subseteq OnStack /\ OnStack \subseteq Modules
    /\ \A m \in Modules : m \in OnStack <=> status[m] \in {"linking", "evaluating"}
    /\ \A m \in Modules : status[m] \in {"linking", "evaluating"} => status[m] = turn
    /\ \A m \in Modules : Done(m) => m \in Begun /\ m \notin OnStack /\ m \notin Called

LEMMA FactsNow == ASSUME Inv PROVE FactsHold
BY Facts DEF FactsHold

LEMMA FactsThen == ASSUME Inv' PROVE FactsHold'
BY FactsNow, PTL

\* Whose parents are recorded has been flagged.
LEMMA WaitedFor ==
    ASSUME Inv, WaitInv, NEW y \in Modules, NEW p \in Elements(parents[y])
    PROVE  y \in Begun /\ p \in Begun /\ p \in Modules /\ y # p /\ stamp[y] > 0
<1>1. stamp[y] > 0 /\ (stamp[p] > 0 => stamp[y] < stamp[p])
  BY DEF WaitInv, Stamped
<1>2. y \in Begun
  BY <1>1 DEF WaitInv, Stamped
<1>3. p \in Begun /\ p \in Modules
  BY Facts
<1>4. stamp[y] \in Nat
  BY DEF WaitInv, MoreTypes
<1> QED BY <1>1, <1>2, <1>3, <1>4

\* A module that is counted down to nothing is not waiting.
LEMMA NothingAwaited ==
    ASSUME Inv, WaitInv, NEW q \in Begun, pending[q] <= 0
    PROVE  /\ \A y \in Live : q \notin Elements(parents[y])
           /\ q \notin Elements(gather)
<1>1. Live \in SUBSET Modules /\ parents \in [Modules -> Seq(Modules)] /\ gather \in Seq(Modules)
      /\ pending[q] \in Int
  BY Facts DEF Inv, Types, Begun
<1>2. /\ Cardinality(Marks(Live, parents, q)) \in Nat
      /\ \A y \in Live : q \in Elements(parents[y]) => Cardinality(Marks(Live, parents, q)) > 0
  BY <1>1, MarksFinite
<1>3. Cardinality(Occurs(gather, q)) \in Nat
      /\ (q \in Elements(gather) => Cardinality(Occurs(gather, q)) > 0)
  BY <1>1, OccursIn
<1>4. Cardinality(Marks(Live, parents, q)) + Cardinality(Occurs(gather, q)) <= pending[q]
  BY DEF WaitInv, Counted
<1> QED BY <1>1, <1>2, <1>3, <1>4

\* Nor does it wait for those that are to be executed, if it is the first of them.
LEMMA NobodyAwaited ==
    ASSUME Inv, WaitInv, NEW q \in Begun, pending[q] <= 0,
           ready = {} \/ (First(q) /\ status[q] = "async")
    PROVE  \A y \in Unfinished : q \notin Elements(parents[y])
<1> SUFFICES ASSUME NEW y \in Unfinished, q \in Elements(parents[y]) PROVE FALSE
  OBVIOUS
<1>1. y \in Modules /\ y \in Begun /\ q \in Modules
  BY WaitedFor DEF Unfinished, Begun
<1>2. status[y] \in {"evaluating", "async"}
  BY <1>1 DEF Begun, Unfinished
<1>3. y \notin Live
  BY NothingAwaited
<1>4. y \in ready
  BY <1>1, <1>2, <1>3 DEF Live
<1>5. stamp[q] <= stamp[y] /\ flagged[q]
  BY <1>1, <1>4 DEF First, WaitInv, Marked
<1>6. stamp[q] > 0 /\ (stamp[q] > 0 => stamp[y] < stamp[q])
  BY <1>1, <1>5 DEF WaitInv, Stamped
<1>7. stamp[q] \in Nat /\ stamp[y] \in Nat
  BY <1>1 DEF WaitInv, MoreTypes
<1> QED BY <1>5, <1>6, <1>7

\* Who may be condemned by whom: what m condemns is unfinished, if m is.
LEMMA RootStands ==
    ASSUME Inv, WaitInv, NEW d \in Modules, Done(d), ~failed[root[d]]
    PROVE  /\ root[d] \in Modules /\ Done(root[d])
           /\ status[root[d]] = "evaluated" => status[d] = "evaluated" /\ ~failed[d] /\ body[d] = "done"
           /\ status[root[d]] # "evaluated" => status[root[d]] = "async" /\ flagged[root[d]]
<1>1. root[d] \in Modules /\ Done(root[d])
  BY DEF Inv, Reached, WaitInv, Rooted
<1>2. ~failed[d]
  BY DEF WaitInv, Rooted
<1>3. ASSUME status[root[d]] = "evaluated" PROVE status[d] = "evaluated"
  <2>1. CASE status[d] = "async"
    <3>1. root[d] \in Condemned(d)
      BY <2>1 DEF WaitInv, Waiting
    <3>2. \A y \in Modules : Elements(parents[y]) \subseteq Modules
      BY Facts DEF Begun
    <3>3. root[d] \in Unfinished \cup {d}
      BY <3>1, <3>2, CondemnsUnfinished
    <3> QED BY <1>3, <2>1, <3>3 DEF Unfinished
  <2> QED BY <2>1 DEF Done
<1>4. status[d] = "evaluated" => body[d] = "done"
  BY <1>2 DEF WaitInv, Marked
<1>5. status[root[d]] # "evaluated" => status[root[d]] = "async" /\ flagged[root[d]]
  BY <1>1 DEF Done, WaitInv, Marked
<1> QED BY <1>1, <1>2, <1>3, <1>4, <1>5

\* A module without a call has dealt with all it requests.
LEMMA DealtWith ==
    ASSUME Inv, NEW x \in Modules
    PROVE  /\ Dealt(x) \subseteq Elements(req[x]) /\ Dealt(x) \subseteq Modules
           /\ x \notin Called => Dealt(x) = Elements(req[x])
<1>1. Elements(req[x]) \subseteq Modules
  BY Facts
<1>2. Dealt(x) \subseteq Elements(req[x])
  BY DEF Dealt, Elements
<1>3. ASSUME x \notin Called PROVE Elements(req[x]) \subseteq Dealt(x)
  BY <1>3 DEF Called, Dealt, Elements
<1> QED BY <1>1, <1>2, <1>3

-----------------------------------------------------------------------------
(* The walk over the graph.                                                *)

\* The places after a module has been entered.
LEMMA Entered ==
    ASSUME Inv, Inv', NEW m \in Modules, m \notin OnStack, Push(m),
           NEW n, n = Len(stack), NEW k, k = Len(frames)
    PROVE  /\ n \in Nat /\ k \in Nat /\ DOMAIN stack = 1..n /\ DOMAIN frames = 1..k
           /\ DOMAIN stack' = 1..(n + 1) /\ DOMAIN frames' = 1..(k + 1) /\ Len(frames') = k + 1
           /\ \A i \in 1..n : stack'[i] = stack[i]
           /\ stack'[n + 1] = [of |-> m, low |-> n + 1]
           /\ \A i \in 1..k : frames'[i] = frames[i]
           /\ frames'[k + 1] = [at |-> m, next |-> 1]
           /\ \A x \in OnStack : x \in OnStack' /\ Place(x)' = Place(x) /\ x # m /\ Place(x) \in 1..n
           /\ Place(m)' = n + 1 /\ m \in OnStack'
           /\ OnStack' = OnStack \cup {m} /\ Called' = Called \cup {m}
           /\ \A i \in 1..k : At(i)' = At(i) /\ At(i) \in 1..n
           /\ At(k + 1)' = n + 1
<1>1. WellPlaced /\ WellPlaced'
  BY Places, PlacesThen
<1>2. /\ n \in Nat /\ k \in Nat /\ DOMAIN stack = 1..n /\ DOMAIN frames = 1..k
      /\ DOMAIN stack' = 1..(n + 1) /\ DOMAIN frames' = 1..(k + 1) /\ Len(frames') = k + 1
      /\ \A i \in 1..n : stack'[i] = stack[i]
      /\ stack'[n + 1] = [of |-> m, low |-> n + 1]
      /\ \A i \in 1..k : frames'[i] = frames[i]
      /\ frames'[k + 1] = [at |-> m, next |-> 1]
  <2>1. stack \in Seq(PlaceFor) /\ frames \in Seq(CallOf) /\ n \in Nat /\ k \in Nat
        /\ DOMAIN stack = 1..n /\ DOMAIN frames = 1..k
    BY <1>1 DEF Inv, Types, WellPlaced
  <2>2. stack' = Append(stack, [of |-> m, low |-> n + 1]) /\ frames' = Append(frames, [at |-> m, next |-> 1])
    BY DEF Push
  <2>3. [of |-> m, low |-> n + 1] \in PlaceFor /\ [at |-> m, next |-> 1] \in CallOf
    BY <2>1 DEF PlaceFor, CallOf
  <2>4. /\ stack' \in Seq(PlaceFor) /\ Len(stack') = n + 1 /\ \A i \in 1..n : stack'[i] = stack[i]
        /\ stack'[n + 1] = [of |-> m, low |-> n + 1]
    BY <2>1, <2>2, <2>3, AppendProperties
  <2>5. /\ frames' \in Seq(CallOf) /\ Len(frames') = k + 1 /\ \A i \in 1..k : frames'[i] = frames[i]
        /\ frames'[k + 1] = [at |-> m, next |-> 1]
    BY <2>1, <2>2, <2>3, AppendProperties
  <2>6. DOMAIN stack' = 1..(n + 1) /\ DOMAIN frames' = 1..(k + 1)
    BY <2>4, <2>5, LenProperties
  <2> QED BY <2>1, <2>4, <2>5, <2>6
<1>3. /\ OnStack' = OnStack \cup {m} /\ Called' = Called \cup {m}
  <2>1. \A i \in 1..(n + 1) : i \in 1..n \/ i = n + 1
    BY <1>2
  <2>2. \A i \in 1..(k + 1) : i \in 1..k \/ i = k + 1
    BY <1>2
  <2>3. n + 1 \in 1..(n + 1) /\ 1..n \subseteq 1..(n + 1) /\ k + 1 \in 1..(k + 1) /\ 1..k \subseteq 1..(k + 1)
    BY <1>2
  <2>4. OnStack' = {stack'[i].of : i \in 1..(n + 1)} /\ OnStack = {stack[i].of : i \in 1..n}
    BY <1>2 DEF OnStack
  <2>5. Called' = {frames'[i].at : i \in 1..(k + 1)} /\ Called = {frames[i].at : i \in 1..k}
    BY <1>2 DEF Called
  <2>6. OnStack' = OnStack \cup {m}
    BY <1>2, <2>1, <2>3, <2>4
  <2>7. Called' = Called \cup {m}
    BY <1>2, <2>2, <2>3, <2>5
  <2> QED BY <2>6, <2>7
<1>4. ASSUME NEW x \in OnStack PROVE x \in OnStack' /\ Place(x)' = Place(x) /\ x # m /\ Place(x) \in 1..n
  <2>1. Place(x) \in 1..n /\ stack[Place(x)].of = x
    BY <1>1, <1>2 DEF WellPlaced
  <2>2. Place(x) \in 1..(n + 1) /\ stack'[Place(x)].of = x
    BY <1>2, <2>1
  <2> QED BY <1>2, <1>3, <2>1, <2>2, PlacesKept
<1>5. Place(m)' = n + 1 /\ m \in OnStack'
  <2>1. \A i, j \in DOMAIN stack' : stack'[i].of = stack'[j].of => i = j
    BY DEF Inv, Stacked, OnStackAsTheyShould
  <2>2. n + 1 \in DOMAIN stack' /\ stack'[n + 1].of = m
    BY <1>2
  <2>3. (CHOOSE j \in DOMAIN stack' : stack'[j].of = m) = n + 1
    BY <2>1, <2>2
  <2> QED BY <1>3, <2>3 DEF Place
<1>6. ASSUME NEW i \in 1..k PROVE At(i)' = At(i) /\ At(i) \in 1..n
  <2>1. frames'[i].at = frames[i].at /\ frames[i].at \in OnStack
    BY <1>1, <1>2 DEF WellPlaced
  <2>2. PICK x \in OnStack : x = frames[i].at
    BY <2>1
  <2>3. At(i) = Place(x) /\ At(i)' = Place(x)'
    BY <2>1, <2>2 DEF At
  <2> QED BY <1>4, <2>3
<1>7. At(k + 1)' = n + 1
  <2>1. frames'[k + 1].at = m
    BY <1>2
  <2>2. At(k + 1)' = Place(m)'
    BY <2>1 DEF At
  <2> QED BY <1>5, <2>2
<1> QED BY <1>2, <1>3, <1>4, <1>5, <1>6, <1>7

LEMMA EnteredOwns ==
    ASSUME Inv, Inv', NEW m \in Modules, m \notin OnStack, Push(m),
           NEW n, n = Len(stack), NEW k, k = Len(frames),
           NEW i \in 1..(k + 1), NEW b \in 1..(n + 1), Owns(i, b)'
    PROVE  i \in 1..k /\ b \in 1..n /\ Owns(i, b)
<1>1. /\ n \in Nat /\ k \in Nat /\ Len(frames') = k + 1
      /\ \A j \in 1..k : At(j)' = At(j) /\ At(j) \in 1..n
      /\ At(k + 1)' = n + 1
  BY Entered
<1>2. At(i)' < b /\ (i < k + 1 => b < At(i + 1)')
  BY <1>1 DEF Owns
<1>3. i \in 1..k
  <2>1. CASE i = k + 1
    BY <1>1, <1>2, <2>1
  <2> QED BY <1>1, <2>1
<1>4. i + 1 \in 1..(k + 1) /\ At(i)' = At(i) /\ At(i) \in 1..n
  BY <1>1, <1>3
<1>5. CASE i = k
  <2>1. At(i + 1)' = n + 1
    BY <1>1, <1>5
  <2> QED BY <1>1, <1>2, <1>3, <1>4, <1>5, <2>1 DEF Owns
<1>6. CASE i # k
  <2>1. i + 1 \in 1..k
    BY <1>1, <1>3, <1>6
  <2>2. At(i + 1)' = At(i + 1) /\ At(i + 1) \in 1..n
    BY <1>1, <2>1
  <2> QED BY <1>1, <1>2, <1>3, <1>4, <1>6, <2>2 DEF Owns
<1> QED BY <1>5, <1>6

\* What the module of the innermost call requests.
LEMMA Requested ==
    ASSUME Inv, frames # <<>>
    PROVE  /\ Len(frames) \in DOMAIN frames /\ Frame = frames[Len(frames)]
           /\ Frame.at \in OnStack /\ Frame.at \in Modules /\ Frame.next \in Nat \ {0}
           /\ DOMAIN req[Frame.at] = 1..Len(req[Frame.at]) /\ Len(req[Frame.at]) \in Nat
           /\ AllRequested => \A j \in DOMAIN req[Frame.at] : j < Frame.next
           /\ ~AllRequested => /\ Frame.next \in DOMAIN req[Frame.at] /\ Request \in Modules
                               /\ Request \in Elements(req[Frame.at])
                               /\ Request \in Graph(Frame.at)
<1>1. WellPlaced /\ FactsHold
  BY Places, FactsNow
<1>2. Len(frames) \in DOMAIN frames /\ Frame = frames[Len(frames)]
  <2>1. Len(frames) >= 1
    BY Listed DEF Inv
  <2> QED BY <1>1, <2>1 DEF WellPlaced, Frame
<1>3. Frame.at \in OnStack /\ Frame.at \in Modules /\ Frame.next \in Nat \ {0}
  BY <1>1, <1>2 DEF WellPlaced
<1>4. DOMAIN req[Frame.at] = 1..Len(req[Frame.at]) /\ Len(req[Frame.at]) \in Nat
  BY <1>1, <1>3, LenProperties DEF FactsHold
<1>5. AllRequested => \A j \in DOMAIN req[Frame.at] : j < Frame.next
  BY <1>3, <1>4 DEF AllRequested
<1>6. ~AllRequested => Frame.next \in DOMAIN req[Frame.at]
  BY <1>3, <1>4 DEF AllRequested
<1>7. ~AllRequested => Request \in Elements(req[Frame.at])
  BY <1>6 DEF Request, Elements
<1>8. Elements(req[Frame.at]) \subseteq Modules
  BY <1>1, <1>3 DEF FactsHold
<1>9. Elements(req[Frame.at]) \subseteq Graph(Frame.at)
  BY <1>1, <1>3, GraphIs DEF FactsHold
<1> QED BY <1>2, <1>3, <1>4, <1>5, <1>6, <1>7, <1>8, <1>9

\* A graph holds the graphs of its modules.
LEMMA GraphOn ==
    ASSUME Inv, NEW m \in Modules
    PROVE  /\ m \in Graph(m) /\ Graph(m) \subseteq Modules
           /\ \A y \in Graph(m) : Elements(req[y]) \subseteq Graph(m) /\ Graph(y) \subseteq Graph(m)
           /\ \A S \in SUBSET Modules :
                  m \in S /\ (\A y \in S : Elements(req[y]) \subseteq S) => Graph(m) \subseteq S
BY FactsNow, GraphIs DEF FactsHold

LEMMA TreeEnter ==
    ASSUME Inv, Inv', Tree, NEW m \in Modules, m \notin OnStack, Push(m), req' = req,
           frames = <<>> \/ (~AllRequested /\ Request = m /\ Past \subseteq Past')
    PROVE  Tree'
<1> SUFFICES ASSUME NEW n, n = Len(stack), NEW k, k = Len(frames) PROVE Tree'
  OBVIOUS
<1>1. WellPlaced /\ WellPlaced' /\ FactsHold /\ FactsHold'
  BY Places, PlacesThen, FactsNow, FactsThen
<1>2. /\ n \in Nat /\ k \in Nat /\ DOMAIN stack = 1..n /\ DOMAIN frames = 1..k
      /\ DOMAIN stack' = 1..(n + 1) /\ DOMAIN frames' = 1..(k + 1) /\ Len(frames') = k + 1
      /\ \A i \in 1..n : stack'[i] = stack[i]
      /\ stack'[n + 1] = [of |-> m, low |-> n + 1]
      /\ \A i \in 1..k : frames'[i] = frames[i]
      /\ frames'[k + 1] = [at |-> m, next |-> 1]
  BY Entered
<1>3. /\ \A x \in OnStack : x \in OnStack' /\ Place(x)' = Place(x) /\ x # m /\ Place(x) \in 1..n
      /\ Place(m)' = n + 1 /\ m \in OnStack'
      /\ OnStack' = OnStack \cup {m} /\ Called' = Called \cup {m}
      /\ \A i \in 1..k : At(i)' = At(i) /\ At(i) \in 1..n
      /\ At(k + 1)' = n + 1
  BY Entered
<1>4. \A x \in Modules : Graph(x)' = Graph(x)
  BY GraphStays
<1>5. k # 0 => frames # <<>> /\ ~AllRequested /\ Request = m /\ Past \subseteq Past'
  BY <1>2
<1>6. n # 0 => k # 0
  <2>1. frames = <<>> => stack = <<>>
    BY DEF Inv, Stacked, CallsFollowStack
  <2>2. k = 0 => frames = <<>>
    BY EmptySeq DEF Inv, Types
  <2> QED BY <2>1, <2>2
<1>7. ASSUME NEW i \in 1..(k + 1), i < k + 1
      PROVE  /\ frames'[i].next \in DOMAIN req'[frames'[i].at]
             /\ req'[frames'[i].at][frames'[i].next] = frames'[i + 1].at
  <2>1. i \in 1..k /\ frames # <<>> /\ ~AllRequested /\ Request = m
    BY <1>2, <1>5, <1>7
  <2>2. CASE i < k
    <3>1. i \in DOMAIN frames /\ i < Len(frames) /\ i + 1 \in 1..k
      BY <1>2, <2>1, <2>2
    <3>2. frames[i].next \in DOMAIN req[frames[i].at]
          /\ req[frames[i].at][frames[i].next] = frames[i + 1].at
      BY <3>1 DEF Tree
    <3> QED BY <1>2, <2>1, <3>1, <3>2
  <2>3. CASE i = k
    <3>1. frames[k] = Frame /\ frames[k].next \in DOMAIN req[frames[k].at]
      BY <2>1, Requested
    <3>2. req[frames[k].at][frames[k].next] = m
      BY <2>1, <3>1 DEF Request
    <3> QED BY <1>2, <2>1, <2>3, <3>1, <3>2
  <2> QED BY <1>2, <2>1, <2>2, <2>3
<1>8. ASSUME NEW i \in 1..(k + 1), NEW j \in 1..(k + 1), i <= j
      PROVE  frames'[j].at \in Graph(frames[i].at)'
  <2>1. CASE i = k + 1
    <3>1. j = k + 1 /\ frames'[i].at = m
      BY <1>2, <1>8, <2>1
    <3>2. Graph(frames[i].at)' = Graph(m)'
      BY <3>1
    <3> QED BY <1>2, <1>4, <3>1, <3>2, GraphOn
  <2>2. CASE i # k + 1
    <3>1. i \in 1..k /\ frames'[i] = frames[i] /\ frames[i].at \in Modules
      BY <1>1, <1>2, <2>2 DEF WellPlaced
    <3>2. PICK x \in Modules : x = frames[i].at
      BY <3>1
    <3>3. Graph(frames[i].at)' = Graph(x)
      BY <1>4, <3>1, <3>2
    <3>4. CASE j # k + 1
      <4>1. j \in 1..k /\ frames'[j] = frames[j]
        BY <1>2, <3>4
      <4>2. frames[j].at \in Graph(frames[i].at)
        BY <1>2, <1>8, <3>1, <4>1 DEF Tree
      <4> QED BY <3>2, <3>3, <4>1, <4>2
    <3>5. CASE j = k + 1
      <4>1. Frame = frames[k] /\ k \in 1..k /\ m \in Graph(Frame.at)
        BY <1>2, <1>5, <3>1, Requested
      <4>2. Frame.at \in Graph(x)
        BY <1>2, <3>1, <3>2, <4>1 DEF Tree
      <4>3. m \in Graph(x)
        BY <4>1, <4>2, GraphOn
      <4> QED BY <1>2, <3>3, <3>5, <4>3
    <3> QED BY <3>4, <3>5
  <2> QED BY <2>1, <2>2
<1>9. ASSUME NEW i \in 1..(k + 1), NEW b \in 1..(n + 1), Owns(i, b)'
      PROVE  Lower(b, frames[i].at)' /\ frames'[i].at \in Graph(stack[b].of)' /\ stack'[b].low < b
  <2>1. i \in 1..k /\ b \in 1..n /\ Owns(i, b) /\ Request \notin OnStack
    BY <1>2, <1>5, <1>9, EnteredOwns
  <2>2. Lower(b, frames[i].at) /\ frames[i].at \in Graph(stack[b].of) /\ stack[b].low < b
    BY <1>2, <2>1 DEF Tree, Lower
  <2>3. PICK d \in OnStack : d = frames[i].at
    BY <2>2 DEF Lower
  <2>4. PICK x \in Modules : x = stack[b].of
    BY <1>1, <1>2, <2>1 DEF WellPlaced
  <2>5. d = frames'[i].at /\ x = stack'[b].of /\ stack'[b] = stack[b]
    BY <1>2, <2>1, <2>3, <2>4
  <2>6. stack'[Place(d)'] = stack[Place(d)] /\ d \in OnStack'
    BY <1>2, <1>3
  <2>7. Lower(b, frames[i].at)'
    BY <2>2, <2>3, <2>5, <2>6 DEF Lower
  <2>8. d \in Graph(x)'
    BY <1>4, <2>2, <2>3, <2>4
  <2> QED BY <2>2, <2>5, <2>7, <2>8
<1>10. ASSUME NEW b \in 1..(n + 1) PROVE \E i \in 1..(k + 1) : At(i)' = b \/ Owns(i, b)'
  <2>1. CASE b = n + 1
    BY <1>2, <1>3, <2>1
  <2>2. CASE b # n + 1
    <3>1. b \in 1..n
      BY <1>2, <2>2
    <3>2. PICK i \in 1..k : At(i) = b \/ Owns(i, b)
      BY <1>2, <3>1 DEF Tree
    <3>3. i \in 1..(k + 1) /\ At(i)' = At(i) /\ At(i) \in 1..n
      BY <1>2, <1>3
    <3>4. CASE At(i) = b
      BY <3>3, <3>4
    <3>5. CASE Owns(i, b)
      <4>1. CASE i = k
        <5>1. At(i + 1)' = n + 1
          BY <1>3, <4>1
        <5> QED BY <1>2, <3>1, <3>3, <3>5, <4>1, <5>1 DEF Owns
      <4>2. CASE i # k
        <5>1. i + 1 \in 1..k
          BY <1>2, <4>2
        <5>2. At(i + 1)' = At(i + 1)
          BY <1>3, <5>1
        <5> QED BY <1>2, <3>1, <3>3, <3>5, <4>2, <5>1, <5>2 DEF Owns
      <4> QED BY <4>1, <4>2
    <3> QED BY <3>2, <3>4, <3>5
  <2> QED BY <2>1, <2>2
<1>11. ASSUME NEW b \in 1..(n + 1) PROVE stack'[stack'[b].low].of \in Graph(stack[b].of)'
  <2>1. CASE b = n + 1
    <3>1. m \in Graph(m)'
      BY <1>4, GraphOn
    <3>2. stack'[b].of = m /\ stack'[b].low = b
      BY <1>2, <2>1
    <3> QED BY <3>1, <3>2
  <2>2. CASE b # n + 1
    <3>1. b \in 1..n
      BY <1>2, <2>2
    <3>2. stack[stack[b].low].of \in Graph(stack[b].of) /\ stack[b].low \in 1..n
      BY <1>1, <1>2, <3>1 DEF Tree, WellPlaced
    <3>3. stack'[b] = stack[b] /\ stack'[stack[b].low] = stack[stack[b].low]
      BY <1>2, <3>1, <3>2
    <3>4. PICK x \in Modules : x = stack[b].of
      BY <1>1, <1>2, <3>1 DEF WellPlaced
    <3>5. stack[stack[b].low].of \in Graph(x)'
      BY <1>4, <3>2, <3>4
    <3> QED BY <3>3, <3>4, <3>5
  <2> QED BY <2>1, <2>2
<1>12. ASSUME NEW x \in OnStack', NEW d \in Dealt(x)' PROVE Stays(x, d)' \/ d \in Past'
  <2>1. x \in Modules /\ x \in OnStack \cup {m}
    BY <1>1, <1>3 DEF FactsHold
  <2>2. PICK j \in DOMAIN req[x] : d = req[x][j] /\ \A i \in DOMAIN frames' : frames'[i].at = x => j < frames'[i].next
    BY DEF Dealt
  <2>3. x # m
    <3>1. ASSUME x = m PROVE FALSE
      <4>1. k + 1 \in DOMAIN frames' /\ frames'[k + 1].at = x /\ frames'[k + 1].next = 1
        BY <1>2, <3>1
      <4>2. j < 1
        BY <2>2, <4>1
      <4>3. DOMAIN req[x] = 1..Len(req[x]) /\ Len(req[x]) \in Nat
        BY <1>1, <2>1, LenProperties DEF FactsHold
      <4> QED BY <4>2, <4>3
    <3> QED BY <3>1
  <2>4. d \in Dealt(x) /\ x \in OnStack
    <3>1. \A i \in DOMAIN frames : i \in DOMAIN frames' /\ frames'[i] = frames[i]
      BY <1>2
    <3> QED BY <2>1, <2>2, <2>3, <3>1 DEF Dealt
  <2>5. Past \subseteq Past'
    <3>1. n # 0
      BY <1>1, <1>2, <2>4 DEF WellPlaced
    <3> QED BY <1>5, <1>6, <3>1
  <2>6. Stays(x, d) \/ d \in Past
    BY <2>4 DEF Tree
  <2>7. ASSUME Stays(x, d) PROVE Stays(x, d)'
    <3>1. x \in OnStack /\ d \in OnStack /\ x \in Graph(d) /\ stack[Place(x)].low <= Place(d)
          /\ \A c \in Called : Place(c) > Place(x) => Place(d) < Place(c)
      BY <2>7 DEF Stays
    <3>2. x \in OnStack' /\ d \in OnStack' /\ Place(x)' = Place(x) /\ Place(d)' = Place(d)
          /\ Place(x) \in 1..n /\ Place(d) \in 1..n
      BY <1>3, <3>1
    <3>3. stack'[Place(x)] = stack[Place(x)]
      BY <1>2, <3>2
    <3>4. ASSUME NEW c \in Called', Place(c)' > Place(x)' PROVE Place(d)' < Place(c)'
      <4>1. CASE c = m
        BY <1>2, <1>3, <3>2, <4>1
      <4>2. CASE c # m
        <5>1. c \in Called /\ c \in OnStack
          BY <1>1, <1>3, <4>2 DEF FactsHold
        <5> QED BY <1>3, <3>1, <3>2, <3>4, <5>1
      <4> QED BY <4>1, <4>2
    <3>5. x \in Graph(d)'
      BY <1>1, <1>4, <3>1 DEF FactsHold
    <3> QED BY <3>1, <3>2, <3>3, <3>4, <3>5 DEF Stays
  <2> QED BY <2>5, <2>6, <2>7
<1> HIDE <1>1
<1>13. /\ \A i \in DOMAIN frames' : i < Len(frames') =>
              /\ frames'[i].next \in DOMAIN req'[frames'[i].at]
              /\ req'[frames'[i].at][frames'[i].next] = frames'[i + 1].at
       /\ \A i, j \in DOMAIN frames' : i <= j => frames'[j].at \in Graph(frames[i].at)'
       /\ \A i \in DOMAIN frames' : \A b \in DOMAIN stack' : Owns(i, b)' =>
              Lower(b, frames[i].at)' /\ frames'[i].at \in Graph(stack[b].of)' /\ stack'[b].low < b
       /\ \A b \in DOMAIN stack' : \E i \in DOMAIN frames' : At(i)' = b \/ Owns(i, b)'
       /\ \A b \in DOMAIN stack' : stack'[stack'[b].low].of \in Graph(stack[b].of)'
       /\ \A x \in OnStack' : \A d \in Dealt(x)' : Stays(x, d)' \/ d \in Past'
  BY <1>2, <1>7, <1>8, <1>9, <1>10, <1>11, <1>12
<1> QED BY <1>13 DEF Tree

\* The places after a call has gone on to its next request.
LEMMA Advances ==
    ASSUME Inv, Inv', frames # <<>>, ~AllRequested, frames' = Advanced,
           stack' = stack \/ (Request \in OnStack /\ Meet(Request)),
           NEW n, n = Len(stack), NEW k, k = Len(frames)
    PROVE  /\ n \in Nat /\ k \in Nat \ {0} /\ DOMAIN stack = 1..n /\ DOMAIN frames = 1..k
           /\ DOMAIN stack' = 1..n /\ DOMAIN frames' = 1..k /\ Len(frames') = k
           /\ \A i \in 1..k : frames'[i].at = frames[i].at
           /\ \A i \in 1..k : frames'[i].next = IF i = k THEN frames[i].next + 1 ELSE frames[i].next
           /\ At(k) \in 1..n /\ At(k) = Place(Frame.at) /\ frames[k] = Frame
           /\ \A b \in 1..n : stack'[b].of = stack[b].of /\ (b # At(k) => stack'[b] = stack[b])
           /\ stack'[At(k)].low =
                IF stack' = stack THEN stack[At(k)].low
                ELSE Earlier(stack[At(k)].low, stack[Place(Request)].low)
           /\ OnStack' = OnStack /\ Called' = Called
           /\ \A x \in OnStack : Place(x)' = Place(x) /\ Place(x) \in 1..n
           /\ \A i \in 1..k : At(i)' = At(i) /\ At(i) \in 1..n
           /\ \A i \in 1..k : \A b \in 1..n : Owns(i, b)' <=> Owns(i, b)
<1>1. WellPlaced /\ WellPlaced'
  BY Places, PlacesThen
<1>2. /\ n \in Nat /\ k \in Nat \ {0} /\ DOMAIN stack = 1..n /\ DOMAIN frames = 1..k
      /\ k \in DOMAIN frames /\ Frame = frames[k] /\ Frame.at \in OnStack
  <2>1. /\ n \in Nat /\ k \in Nat /\ DOMAIN stack = 1..n /\ DOMAIN frames = 1..k
    BY <1>1 DEF WellPlaced
  <2>2. k \in DOMAIN frames /\ Frame = frames[k] /\ Frame.at \in OnStack
    BY Requested
  <2> QED BY <2>1, <2>2
<1>3. /\ DOMAIN frames' = 1..k /\ Len(frames') = k
      /\ \A i \in 1..k : frames'[i].at = frames[i].at
      /\ \A i \in 1..k : frames'[i].next = IF i = k THEN frames[i].next + 1 ELSE frames[i].next
  <2> DEFINE new == [frames[k] EXCEPT !.next = frames[k].next + 1]
  <2>1. frames' = [frames EXCEPT ![k] = new]
    BY DEF Advanced
  <2>2. frames[k] \in CallOf /\ frames \in Seq(CallOf)
    BY <1>2, Listed DEF Inv
  <2>3. new \in CallOf /\ new.at = frames[k].at /\ new.next = frames[k].next + 1
    <3>1. frames[k].next + 1 \in Nat \ {0}
      BY <2>2 DEF CallOf
    <3> QED BY <2>2, <3>1 DEF CallOf
  <2> HIDE DEF new
  <2>4. DOMAIN frames' = 1..k /\ \A i \in 1..k : frames'[i] = IF i = k THEN new ELSE frames[i]
    BY <1>2, <2>1
  <2>5. frames' \in Seq(CallOf)
    BY DEF Inv, Types
  <2>6. Len(frames') = k
    BY <1>2, <2>4, <2>5, LenProperties
  <2> QED BY <2>3, <2>4, <2>6
<1>4. At(k) \in 1..n /\ At(k) = Place(Frame.at)
  BY <1>1, <1>2 DEF WellPlaced, At
<1>5. /\ DOMAIN stack' = 1..n
      /\ \A b \in 1..n : stack'[b].of = stack[b].of /\ (b # At(k) => stack'[b] = stack[b])
      /\ stack'[At(k)].low =
            IF stack' = stack THEN stack[At(k)].low
            ELSE Earlier(stack[At(k)].low, stack[Place(Request)].low)
  <2>1. CASE stack' = stack
    BY <1>2, <2>1
  <2>2. CASE stack' # stack
    <3> DEFINE p == At(k)
    <3> DEFINE new == [stack[p] EXCEPT !.low = Earlier(stack[p].low, stack[Place(Request)].low)]
    <3>1. stack' = [stack EXCEPT ![p] = new]
      BY <1>4, <2>2 DEF Meet
    <3>2. stack[p] \in PlaceFor
      BY <1>2, <1>4, Listed DEF Inv
    <3>3. new.of = stack[p].of /\ new.low = Earlier(stack[p].low, stack[Place(Request)].low)
      BY <3>2 DEF PlaceFor
    <3>4. p \in 1..n
      BY <1>4
    <3> HIDE DEF new, p
    <3>5. DOMAIN stack' = 1..n /\ \A b \in 1..n : stack'[b] = IF b = p THEN new ELSE stack[b]
      BY <1>2, <3>1, <3>4
    <3> QED BY <2>2, <3>3, <3>4, <3>5 DEF p
  <2> QED BY <2>1, <2>2
<1>6. OnStack' = OnStack
  BY <1>2, <1>5 DEF OnStack
<1>7. Called' = Called
  BY <1>2, <1>3 DEF Called
<1>8. ASSUME NEW x \in OnStack PROVE Place(x)' = Place(x) /\ Place(x) \in 1..n
  <2>1. Place(x) \in 1..n /\ stack[Place(x)].of = x
    BY <1>1, <1>2 DEF WellPlaced
  <2>2. Place(x) \in DOMAIN stack' /\ stack'[Place(x)].of = x
    BY <1>5, <2>1
  <2> QED BY <1>2, <2>1, <2>2, PlacesKept
<1>9. ASSUME NEW i \in 1..k PROVE At(i)' = At(i) /\ At(i) \in 1..n
  <2>1. frames'[i].at = frames[i].at /\ frames[i].at \in OnStack
    BY <1>1, <1>2, <1>3 DEF WellPlaced
  <2>2. PICK x \in OnStack : x = frames[i].at
    BY <2>1
  <2>3. At(i) = Place(x) /\ At(i)' = Place(x)'
    BY <2>1, <2>2 DEF At
  <2> QED BY <1>8, <2>3
<1>10. ASSUME NEW i \in 1..k, NEW b \in 1..n PROVE Owns(i, b)' <=> Owns(i, b)
  <2>1. CASE i = k
    BY <1>2, <1>3, <1>9, <2>1 DEF Owns
  <2>2. CASE i # k
    <3>1. i + 1 \in 1..k
      BY <1>2, <2>2
    <3>2. At(i + 1)' = At(i + 1)
      BY <1>9, <3>1
    <3> QED BY <1>3, <1>9, <3>2 DEF Owns
  <2> QED BY <2>1, <2>2
<1> QED BY <1>2, <1>3, <1>4, <1>5, <1>6, <1>7, <1>8, <1>9, <1>10

LEMMA TreeGoesOn ==
    ASSUME Inv, Inv', Tree, frames # <<>>, ~AllRequested, frames' = Advanced, req' = req,
           \/ Request \in OnStack /\ Meet(Request)
           \/ Request \notin OnStack /\ Request \in Past /\ stack' = stack,
           Past \subseteq Past'
    PROVE  Tree'
<1> SUFFICES ASSUME NEW n, n = Len(stack), NEW k, k = Len(frames), NEW p, p = At(k), NEW r, r = Request
             PROVE Tree'
  OBVIOUS
<1>1. WellPlaced /\ WellPlaced' /\ FactsHold /\ FactsHold'
  BY Places, PlacesThen, FactsNow, FactsThen
<1>2. /\ n \in Nat /\ k \in Nat \ {0} /\ DOMAIN stack = 1..n /\ DOMAIN frames = 1..k
      /\ DOMAIN stack' = 1..n /\ DOMAIN frames' = 1..k /\ Len(frames') = k
      /\ \A i \in 1..k : frames'[i].at = frames[i].at
      /\ \A i \in 1..k : frames'[i].next = IF i = k THEN frames[i].next + 1 ELSE frames[i].next
      /\ p \in 1..n /\ p = Place(Frame.at) /\ frames[k] = Frame
      /\ \A b \in 1..n : stack'[b].of = stack[b].of /\ (b # p => stack'[b] = stack[b])
      /\ stack'[p].low = IF stack' = stack THEN stack[p].low
                         ELSE Earlier(stack[p].low, stack[Place(r)].low)
  BY Advances
<1>3. /\ OnStack' = OnStack /\ Called' = Called
      /\ \A x \in OnStack : Place(x)' = Place(x) /\ Place(x) \in 1..n
      /\ \A i \in 1..k : At(i)' = At(i) /\ At(i) \in 1..n
      /\ \A i \in 1..k : \A b \in 1..n : Owns(i, b)' <=> Owns(i, b)
  BY Advances
<1>4. \A x \in Modules : Graph(x)' = Graph(x)
  BY GraphStays
<1>5. /\ \A b \in 1..n : /\ stack[b].low \in 1..n /\ stack'[b].low \in 1..n
                         /\ stack[b].low <= b /\ stack'[b].low <= stack[b].low
      /\ r \in OnStack => stack'[p].low <= stack[Place(r)].low
  <2>1. \A b \in 1..n : stack[b].low \in 1..n /\ stack'[b].low \in 1..n /\ stack[b].low <= b
    BY <1>1, <1>2 DEF WellPlaced
  <2>2. CASE stack' = stack /\ r \notin OnStack
    BY <2>1, <2>2
  <2>3. CASE stack' = stack /\ r \in OnStack
    <3>1. stack' = [stack EXCEPT ![p].low = Earlier(@, stack[Place(r)].low)]
      BY <1>2, <2>3 DEF Meet
    <3>2. stack[p] \in PlaceFor /\ stack \in Seq(PlaceFor)
      BY <1>2, Listed DEF Inv
    <3>3. stack[p].low = Earlier(stack[p].low, stack[Place(r)].low)
      BY <1>2, <2>3, <3>1, <3>2 DEF PlaceFor
    <3>4. Place(r) \in 1..n
      BY <1>3, <2>3
    <3> QED BY <1>2, <2>1, <2>3, <3>3, <3>4 DEF Earlier
  <2>4. CASE stack' # stack
    <3>1. r \in OnStack
      BY <2>4
    <3>2. Place(r) \in 1..n
      BY <1>3, <3>1
    <3>3. stack'[p].low <= stack[p].low /\ stack'[p].low <= stack[Place(r)].low
      BY <1>2, <2>1, <2>4, <3>2 DEF Earlier
    <3>4. \A b \in 1..n : b # p => stack'[b].low = stack[b].low
      BY <1>2
    <3>5. \A b \in 1..n : stack'[b].low <= stack[b].low
      BY <2>1, <3>3, <3>4
    <3> QED BY <2>1, <3>3, <3>5
  <2> QED BY <2>2, <2>3, <2>4
<1>6. ASSUME NEW i \in 1..k, i < k
      PROVE  /\ frames'[i].next \in DOMAIN req'[frames'[i].at]
             /\ req'[frames'[i].at][frames'[i].next] = frames'[i + 1].at
  <2>1. i + 1 \in 1..k
    BY <1>2, <1>6
  <2>2. frames[i].next \in DOMAIN req[frames[i].at]
        /\ req[frames[i].at][frames[i].next] = frames[i + 1].at
    BY <1>2, <1>6 DEF Tree
  <2> QED BY <1>2, <1>6, <2>1, <2>2
<1>7. ASSUME NEW i \in 1..k, NEW j \in 1..k, i <= j PROVE frames'[j].at \in Graph(frames[i].at)'
  <2>1. PICK x \in Modules : x = frames[i].at
    BY <1>1, <1>2 DEF WellPlaced
  <2>2. frames[j].at \in Graph(x)
    BY <1>2, <1>7, <2>1 DEF Tree
  <2>3. x = frames'[i].at
    BY <1>2, <2>1
  <2> QED BY <1>2, <1>4, <2>2, <2>3
<1>8. ASSUME NEW i \in 1..k, NEW b \in 1..n, Owns(i, b)'
      PROVE  Lower(b, frames[i].at)' /\ frames'[i].at \in Graph(stack[b].of)' /\ stack'[b].low < b
  <2>1. Owns(i, b)
    BY <1>3, <1>8
  <2>2. b # p
    <3>1. CASE i = k
      BY <1>3, <2>1, <3>1 DEF Owns
    <3>2. CASE i # k
      <4>1. i + 1 \in 1..k /\ b < At(i + 1) /\ At(i + 1) \in 1..n /\ At(k) \in 1..n
        BY <1>2, <1>3, <2>1, <3>2 DEF Owns
      <4>2. At(i + 1) <= At(k)
        <5>1. CASE i + 1 = k
          <6>1. At(i + 1) = At(k)
            BY <5>1
          <6> QED BY <4>1, <6>1
        <5>2. CASE i + 1 < k
          <6>1. i + 1 \in DOMAIN frames /\ k \in DOMAIN frames
            BY <1>2, <4>1
          <6>2. At(i + 1) < At(k)
            BY <1>1, <5>2, <6>1 DEF WellPlaced
          <6> QED BY <4>1, <6>2
        <5>3. i + 1 = k \/ i + 1 < k
          <6>1. k \in Nat /\ i + 1 \in 1..k
            BY <1>2, <4>1
          <6> QED BY <6>1
        <5> QED BY <5>1, <5>2, <5>3
      <4> QED BY <1>2, <4>1, <4>2
    <3> QED BY <3>1, <3>2
  <2>3. stack'[b] = stack[b]
    BY <1>2, <2>2
  <2>4. /\ Lower(b, frames[i].at) \/ (i = k /\ r \in OnStack /\ Lower(b, r))
        /\ frames[i].at \in Graph(stack[b].of) /\ stack[b].low < b
    BY <1>2, <2>1 DEF Tree, Lower
  <2>5. PICK d \in OnStack : d = frames[i].at
    BY <1>1, <1>2 DEF WellPlaced
  <2>6. PICK x \in Modules : x = stack[b].of
    BY <1>1, <1>2 DEF WellPlaced
  <2>7. d = frames'[i].at /\ x = stack'[b].of /\ Place(d)' = Place(d) /\ Place(d) \in 1..n /\ d \in OnStack'
    BY <1>2, <1>3, <2>3, <2>5, <2>6
  <2>8. stack'[Place(d)].low <= stack[b].low
    <3>1. CASE Lower(b, frames[i].at)
      <4>1. stack[Place(d)].low <= stack[b].low
        BY <2>5, <3>1 DEF Lower
      <4>2. stack'[Place(d)].low <= stack[Place(d)].low /\ stack'[Place(d)].low \in 1..n /\ stack[Place(d)].low \in 1..n
        BY <1>5, <2>7
      <4>3. stack[b].low \in 1..n /\ n \in Nat
        BY <1>2, <1>5
      <4> QED BY <4>1, <4>2, <4>3
    <3>2. CASE i = k /\ r \in OnStack /\ Lower(b, r)
      <4>1. Place(d) = p
        BY <1>2, <2>5, <3>2 DEF At
      <4>2. stack[Place(r)].low <= stack[b].low /\ stack'[p].low <= stack[Place(r)].low /\ Place(r) \in 1..n
        BY <1>3, <1>5, <3>2 DEF Lower
      <4>3. stack[Place(r)].low \in 1..n /\ stack'[p].low \in 1..n /\ stack[b].low \in 1..n /\ n \in Nat
        BY <1>2, <1>5, <4>2
      <4>4. stack'[p].low <= stack[b].low
        BY <4>2, <4>3
      <4> QED BY <4>1, <4>4
    <3> QED BY <2>4, <3>1, <3>2
  <2>9. Lower(b, frames[i].at)'
    BY <2>3, <2>7, <2>8 DEF Lower
  <2>10. d \in Graph(x)'
    BY <1>4, <2>4, <2>5, <2>6
  <2> QED BY <2>3, <2>4, <2>7, <2>9, <2>10
<1>9. \A b \in 1..n : \E i \in 1..k : At(i)' = b \/ Owns(i, b)'
  <2>1. \A b \in 1..n : \E i \in 1..k : At(i) = b \/ Owns(i, b)
    BY <1>2 DEF Tree
  <2> QED BY <1>3, <2>1
<1>10. ASSUME NEW b \in 1..n PROVE stack'[stack'[b].low].of \in Graph(stack[b].of)'
  <2>1. PICK x \in Modules : x = stack[b].of
    BY <1>1, <1>2 DEF WellPlaced
  <2>2. x = stack'[b].of
    BY <1>2, <2>1
  <2>3. stack[stack'[b].low].of \in Graph(x)
    <3>1. stack[stack[b].low].of \in Graph(x)
      BY <1>2, <2>1 DEF Tree
    <3>2. CASE stack'[b].low = stack[b].low
      BY <3>1, <3>2
    <3>3. CASE stack'[b].low # stack[b].low
      <4>1. b = p /\ stack' # stack
        BY <1>2, <3>3
      <4>2. r \in OnStack /\ Place(r) \in 1..n /\ stack[Place(r)].of = r
        BY <1>1, <1>3, <4>1 DEF WellPlaced
      <4>3. stack'[b].low = stack[Place(r)].low
        BY <1>2, <3>3, <4>1 DEF Earlier
      <4>4. stack[stack[Place(r)].low].of \in Graph(r)
        BY <1>2, <4>2 DEF Tree
      <4>5. x = Frame.at /\ r \in Graph(x)
        BY <1>1, <1>2, <2>1, <4>1, Requested DEF WellPlaced
      <4> QED BY <4>3, <4>4, <4>5, GraphOn
    <3> QED BY <3>2, <3>3
  <2>4. stack'[stack'[b].low].of = stack[stack'[b].low].of
    BY <1>2, <1>5
  <2> QED BY <1>4, <2>2, <2>3, <2>4
<1>11. ASSUME NEW x \in OnStack, NEW d, Stays(x, d) PROVE Stays(x, d)'
  <2>1. x \in OnStack /\ d \in OnStack /\ x \in Graph(d) /\ stack[Place(x)].low <= Place(d)
        /\ \A c \in Called : Place(c) > Place(x) => Place(d) < Place(c)
    BY <1>11 DEF Stays
  <2>2. stack'[Place(x)].low <= Place(d)
    <3>1. Place(x) \in 1..n /\ Place(d) \in 1..n
      BY <1>3, <2>1
    <3>2. stack'[Place(x)].low <= stack[Place(x)].low /\ stack'[Place(x)].low \in 1..n /\ stack[Place(x)].low \in 1..n
      BY <1>5, <3>1
    <3> QED BY <1>2, <2>1, <3>1, <3>2
  <2>3. d \in Modules /\ Called \subseteq OnStack
    BY <1>1, <2>1 DEF FactsHold
  <2>4. x \in Graph(d)'
    BY <1>4, <2>1, <2>3
  <2> QED BY <1>3, <2>1, <2>2, <2>3, <2>4 DEF Stays
<1>12. r \in OnStack => Stays(Frame.at, r)'
  <2> SUFFICES ASSUME r \in OnStack PROVE Stays(Frame.at, r)'
    OBVIOUS
  <2>1. PICK f \in OnStack : f = Frame.at
    BY Requested
  <2>2. Frame'.at = f
    BY <1>2, <2>1 DEF Frame
  <2>3. Place(f) = p /\ Place(r) \in 1..n /\ stack'[p].low <= Place(r)
    <3>1. Place(f) = p /\ Place(r) \in 1..n
      BY <1>2, <1>3, <2>1
    <3>2. stack'[p].low <= stack[Place(r)].low /\ stack[Place(r)].low <= Place(r)
      BY <1>5, <3>1
    <3> QED BY <1>2, <1>5, <3>1, <3>2
  <2>4. f \in Graph(r)
    <3>1. PICK i \in 1..k : At(i) = Place(r) \/ Owns(i, Place(r))
      BY <1>2, <2>3 DEF Tree
    <3>2. PICK x \in Modules : x = frames[i].at
      BY <1>1, <1>2 DEF WellPlaced
    <3>3. f \in Graph(x)
      <4>1. i \in DOMAIN frames /\ k \in DOMAIN frames /\ i <= k
        BY <1>2
      <4>2. frames[k].at \in Graph(frames[i].at)
        BY <4>1 DEF Tree
      <4> QED BY <1>2, <2>1, <3>2, <4>2
    <3>4. stack[Place(r)].of = r /\ r \in Modules
      BY <1>1 DEF WellPlaced, FactsHold
    <3>5. x \in Graph(r)
      <4>1. CASE At(i) = Place(r)
        <5>1. x = r
          <6>1. i \in DOMAIN frames
            BY <1>2
          <6>2. stack[At(i)].of = frames[i].at
            BY <1>1, <6>1 DEF WellPlaced
          <6>3. stack[At(i)] = stack[Place(r)]
            BY <4>1
          <6> QED BY <3>2, <3>4, <6>2, <6>3
        <5> QED BY <3>4, <5>1, GraphOn
      <4>2. CASE Owns(i, Place(r))
        BY <1>2, <2>3, <3>2, <3>4, <4>2 DEF Tree
      <4> QED BY <3>1, <4>1, <4>2
    <3> QED BY <3>3, <3>4, <3>5, GraphOn
  <2>5. ASSUME NEW c \in Called PROVE ~(Place(c) > Place(f))
    <3>1. PICK i \in 1..k : c = frames[i].at
      BY <1>2 DEF Called
    <3>2. Place(c) = At(i) /\ At(i) \in 1..n
      BY <1>3, <3>1 DEF At
    <3>3. At(i) <= At(k)
      <4>1. CASE i = k
        <5>1. At(i) = At(k)
          BY <4>1
        <5>2. At(i) \in Nat
          BY <1>2, <3>2
        <5> QED BY <5>1, <5>2
      <4>2. CASE i # k
        <5>1. i \in DOMAIN frames /\ k \in DOMAIN frames /\ i < k
          BY <1>2, <4>2
        <5>2. At(i) < At(k)
          BY <1>1, <5>1 DEF WellPlaced
        <5> QED BY <1>2, <3>2, <5>2
      <4> QED BY <4>1, <4>2
    <3> QED BY <1>2, <2>3, <3>2, <3>3
  <2>6. f \in Graph(r)'
    BY <1>1, <1>4, <2>4 DEF FactsHold
  <2>7. Stays(f, r)'
    <3>1. f \in OnStack' /\ r \in OnStack' /\ Place(f)' = Place(f) /\ Place(r)' = Place(r)
          /\ Called' = Called /\ \A c \in Called : Place(c)' = Place(c)
      BY <1>1, <1>3 DEF FactsHold
    <3> QED BY <2>3, <2>5, <2>6, <3>1 DEF Stays
  <2> QED BY <2>2, <2>7
<1>13. ASSUME NEW x \in OnStack', NEW d \in Dealt(x)' PROVE Stays(x, d)' \/ d \in Past'
  <2>1. x \in OnStack
    BY <1>3
  <2>2. PICK j \in DOMAIN req[x] : d = req[x][j] /\ \A i \in DOMAIN frames' : frames'[i].at = x => j < frames'[i].next
    BY DEF Dealt
  <2>3. CASE d \in Dealt(x)
    <3>1. Stays(x, d) \/ d \in Past
      BY <2>1, <2>3 DEF Tree
    <3> QED BY <1>11, <2>1, <3>1
  <2>4. CASE d \notin Dealt(x)
    <3>1. PICK i \in DOMAIN frames : frames[i].at = x /\ ~(j < frames[i].next)
      BY <2>2, <2>4 DEF Dealt
    <3>2. i = k /\ j < frames[i].next + 1
      BY <1>2, <2>2, <3>1
    <3>3. x \in Modules /\ frames[i].next \in Nat
      BY <1>1, <2>1, <3>1 DEF FactsHold, WellPlaced
    <3>4. DOMAIN req[x] = 1..Len(req[x]) /\ Len(req[x]) \in Nat
      BY <1>1, <3>3, LenProperties DEF FactsHold
    <3>5. j = Frame.next /\ x = Frame.at
      BY <1>2, <2>2, <3>1, <3>2, <3>3, <3>4
    <3>6. d = r
      BY <2>2, <3>5 DEF Request
    <3>7. CASE r \in OnStack
      <4>1. Frame'.at = x
        BY <1>2, <3>5 DEF Frame
      <4> QED BY <1>12, <3>6, <3>7, <4>1
    <3>8. CASE r \notin OnStack
      BY <3>6, <3>8
    <3> QED BY <3>7, <3>8
  <2> QED BY <2>3, <2>4
<1> HIDE <1>1
<1>14. /\ \A i \in DOMAIN frames' : i < Len(frames') =>
              /\ frames'[i].next \in DOMAIN req'[frames'[i].at]
              /\ req'[frames'[i].at][frames'[i].next] = frames'[i + 1].at
       /\ \A i, j \in DOMAIN frames' : i <= j => frames'[j].at \in Graph(frames[i].at)'
       /\ \A i \in DOMAIN frames' : \A b \in DOMAIN stack' : Owns(i, b)' =>
              Lower(b, frames[i].at)' /\ frames'[i].at \in Graph(stack[b].of)' /\ stack'[b].low < b
       /\ \A b \in DOMAIN stack' : \E i \in DOMAIN frames' : At(i)' = b \/ Owns(i, b)'
       /\ \A b \in DOMAIN stack' : stack'[stack'[b].low].of \in Graph(stack[b].of)'
       /\ \A x \in OnStack' : \A d \in Dealt(x)' : Stays(x, d)' \/ d \in Past'
  BY <1>2, <1>6, <1>7, <1>8, <1>9, <1>10, <1>13
<1> QED BY <1>14 DEF Tree

\* The places after a call has returned.
LEMMA Returns ==
    ASSUME Inv, Inv', frames # <<>>, frames' = Returned,
           (Closes /\ stack' = Popped) \/ (~Closes /\ stack' = stack),
           NEW n, n = Len(stack), NEW k, k = Len(frames)
    PROVE  /\ n \in Nat /\ k \in Nat \ {0} /\ DOMAIN stack = 1..n /\ DOMAIN frames = 1..k
           /\ DOMAIN frames' = 1..(k - 1) /\ Len(frames') = k - 1
           /\ At(k) \in 1..n /\ At(k) = Place(Frame.at) /\ frames[k] = Frame
           /\ DOMAIN stack' = 1..(IF Closes THEN At(k) - 1 ELSE n)
           /\ \A i \in 1..(k - 1) : frames'[i] = frames[i] /\ At(i)' = At(i) /\ At(i) \in 1..n
           /\ \A b \in DOMAIN stack' : b \in 1..n /\ stack'[b] = stack[b]
           /\ \A x \in OnStack' : x \in OnStack /\ Place(x)' = Place(x) /\ Place(x) \in DOMAIN stack'
           /\ \A x \in OnStack : Place(x) \in DOMAIN stack' => x \in OnStack'
           /\ \A x \in Called : x # Frame.at => x \in Called'
           /\ Called' \subseteq Called /\ Frame.at \notin Called'
           /\ \A i \in 1..k : At(i) <= At(k)
           /\ k = 1 => Closes
<1>1. WellPlaced /\ WellPlaced'
  BY Places, PlacesThen
<1>2. /\ n \in Nat /\ k \in Nat \ {0} /\ DOMAIN stack = 1..n /\ DOMAIN frames = 1..k
      /\ k \in DOMAIN frames /\ Frame = frames[k] /\ Frame.at \in OnStack
  <2>1. /\ n \in Nat /\ k \in Nat /\ DOMAIN stack = 1..n /\ DOMAIN frames = 1..k
    BY <1>1 DEF WellPlaced
  <2>2. k \in DOMAIN frames /\ Frame = frames[k] /\ Frame.at \in OnStack
    BY Requested
  <2> QED BY <2>1, <2>2
<1>3. At(k) \in 1..n /\ At(k) = Place(Frame.at)
  BY <1>1, <1>2 DEF WellPlaced, At
<1>4. /\ DOMAIN Returned = 1..(k - 1)
      /\ \A i \in DOMAIN Returned : i \in DOMAIN frames /\ Returned[i] = frames[i]
      /\ DOMAIN Popped = 1..(At(k) - 1)
      /\ \A i \in DOMAIN Popped : i \in DOMAIN stack /\ Popped[i] = stack[i]
      /\ k = 1 => Closes
  BY <1>3, Below DEF Inv
<1>5. /\ DOMAIN frames' = 1..(k - 1) /\ Len(frames') = k - 1
      /\ \A i \in 1..(k - 1) : i \in 1..k /\ frames'[i] = frames[i]
  <2>1. DOMAIN frames' = 1..(k - 1) /\ \A i \in 1..(k - 1) : i \in 1..k /\ frames'[i] = frames[i]
    BY <1>2, <1>4
  <2>2. frames' \in Seq(CallOf)
    BY DEF Inv, Types
  <2> QED BY <1>2, <2>1, <2>2, LenProperties
<1>6. /\ DOMAIN stack' = 1..(IF Closes THEN At(k) - 1 ELSE n)
      /\ \A b \in DOMAIN stack' : b \in 1..n /\ stack'[b] = stack[b]
  BY <1>2, <1>4
<1>7. ASSUME NEW x \in OnStack' PROVE x \in OnStack /\ Place(x)' = Place(x) /\ Place(x) \in DOMAIN stack'
  <2>1. PICK b \in DOMAIN stack' : stack'[b].of = x
    BY DEF OnStack
  <2>2. b \in DOMAIN stack /\ stack[b].of = x
    BY <1>2, <1>6, <2>1
  <2> QED BY <2>1, <2>2, PlacesKept
<1>8. ASSUME NEW x \in OnStack, Place(x) \in DOMAIN stack' PROVE x \in OnStack'
  <2>1. stack[Place(x)].of = x
    BY <1>1 DEF WellPlaced
  <2>2. stack'[Place(x)].of = x
    BY <1>6, <1>8, <2>1
  <2> QED BY <1>8, <2>2 DEF OnStack
<1>9. ASSUME NEW i \in 1..(k - 1) PROVE At(i)' = At(i) /\ At(i) \in 1..n
  <2>1. frames'[i].at = frames[i].at /\ frames'[i].at \in OnStack' /\ i \in DOMAIN frames
    BY <1>1, <1>2, <1>5 DEF WellPlaced
  <2>2. PICK x \in OnStack' : x = frames'[i].at
    BY <2>1
  <2>3. At(i) = Place(x) /\ At(i)' = Place(x)'
    BY <2>1, <2>2 DEF At
  <2>4. At(i) \in 1..n
    BY <1>1, <1>2, <2>1 DEF WellPlaced
  <2> QED BY <1>7, <2>3, <2>4
<1>10. \A i \in 1..k : At(i) <= At(k) /\ (i # k => frames[i].at # Frame.at)
  <2>1. ASSUME NEW i \in 1..k, i # k PROVE At(i) < At(k) /\ frames[i].at # Frame.at
    <3>1. i \in DOMAIN frames /\ k \in DOMAIN frames /\ i < k
      BY <1>2, <2>1
    <3>2. At(i) < At(k) /\ At(i) \in 1..n
      BY <1>1, <1>2, <3>1 DEF WellPlaced
    <3>3. At(i) # At(k)
      BY <1>2, <1>3, <3>2
    <3> QED BY <1>2, <3>2, <3>3 DEF At
  <2>2. At(k) <= At(k)
    BY <1>2, <1>3
  <2>3. \A i \in 1..k : At(i) \in 1..n
    BY <1>1, <1>2 DEF WellPlaced
  <2> QED BY <1>2, <1>3, <2>1, <2>2, <2>3
<1>11. \A x \in Called : x # Frame.at => x \in Called'
  <2> SUFFICES ASSUME NEW x \in Called, x # Frame.at PROVE x \in Called'
    OBVIOUS
  <2>1. PICK i \in 1..k : frames[i].at = x
    BY <1>2 DEF Called
  <2>2. i \in 1..(k - 1)
    BY <1>2, <2>1
  <2> QED BY <1>5, <2>1, <2>2 DEF Called
<1>12. Called' \subseteq Called /\ Frame.at \notin Called'
  <2> SUFFICES ASSUME NEW x \in Called' PROVE x \in Called /\ x # Frame.at
    OBVIOUS
  <2>1. PICK i \in 1..(k - 1) : frames'[i].at = x
    BY <1>5 DEF Called
  <2>2. i \in 1..k /\ i # k /\ frames[i].at = x
    BY <1>2, <1>5, <2>1
  <2> QED BY <1>2, <1>10, <2>2 DEF Called
<1> QED BY <1>2, <1>3, <1>4, <1>5, <1>6, <1>7, <1>8, <1>9, <1>10, <1>11, <1>12

\* Whose place a call has.
LEMMA OwnsNone ==
    ASSUME Inv, NEW i \in DOMAIN frames, NEW b \in DOMAIN stack, Owns(i, b), NEW j \in DOMAIN frames
    PROVE  b # At(j) /\ (At(j) < b => j <= i)
<1>1. WellPlaced
  BY Places
<1>2. /\ i \in Nat /\ j \in Nat /\ b \in Nat /\ At(i) \in Nat /\ At(j) \in Nat
      /\ DOMAIN frames = 1..Len(frames) /\ Len(frames) \in Nat
  BY <1>1 DEF WellPlaced
<1>3. CASE j <= i
  <2>1. At(j) <= At(i)
    <3>1. CASE j = i
      <4>1. At(j) = At(i)
        BY <3>1
      <4> QED BY <1>2, <4>1
    <3>2. CASE j < i
      BY <1>1, <1>2, <3>2 DEF WellPlaced
    <3> QED BY <1>2, <1>3, <3>1, <3>2
  <2> QED BY <1>2, <1>3, <2>1 DEF Owns
<1>4. CASE i < j
  <2>1. i + 1 \in DOMAIN frames /\ b < At(i + 1) /\ At(i + 1) \in Nat
    <3>1. i + 1 \in DOMAIN frames
      BY <1>2, <1>4
    <3> QED BY <1>1, <1>2, <1>4, <3>1 DEF Owns, WellPlaced
  <2>2. At(i + 1) <= At(j)
    <3>1. CASE j = i + 1
      <4>1. At(j) = At(i + 1)
        BY <3>1
      <4> QED BY <1>2, <4>1
    <3>2. CASE i + 1 < j
      BY <1>1, <1>2, <2>1, <3>2 DEF WellPlaced
    <3> QED BY <1>2, <1>4, <3>1, <3>2
  <2> QED BY <1>2, <2>1, <2>2
<1> QED BY <1>2, <1>3, <1>4

\* Every module of the stack has the module of the innermost call in its graph.
LEMMA ReachesCall ==
    ASSUME Inv, Tree, frames # <<>>, NEW x \in OnStack
    PROVE  /\ Frame.at \in Graph(x)
           /\ \A j \in DOMAIN frames : Place(x) < At(j) =>
                  j - 1 \in DOMAIN frames /\ frames[j - 1].at \in Graph(x)
<1> SUFFICES ASSUME NEW b, b = Place(x), NEW k, k = Len(frames)
             PROVE  /\ Frame.at \in Graph(x)
                    /\ \A j \in DOMAIN frames : b < At(j) =>
                          j - 1 \in DOMAIN frames /\ frames[j - 1].at \in Graph(x)
  OBVIOUS
<1>1. WellPlaced /\ x \in Modules
  BY Places, FactsNow DEF FactsHold
<1>2. b \in DOMAIN stack /\ stack[b].of = x /\ b \in Nat
  BY <1>1 DEF WellPlaced
<1>3. k \in DOMAIN frames /\ Frame = frames[k] /\ DOMAIN frames = 1..k /\ k \in Nat
  BY <1>1, Requested DEF WellPlaced
<1>4. PICK i \in DOMAIN frames : At(i) = b \/ Owns(i, b)
  BY <1>2 DEF Tree
<1>5. frames[i].at \in Graph(x)
  <2>1. CASE At(i) = b
    <3>1. frames[i].at = x
      BY <1>1, <1>2, <2>1 DEF WellPlaced
    <3> QED BY <1>1, <3>1, GraphOn
  <2>2. CASE Owns(i, b)
    BY <1>2, <2>2 DEF Tree
  <2> QED BY <1>4, <2>1, <2>2
<1>6. \A j \in DOMAIN frames : i <= j => frames[j].at \in Graph(x)
  <2> SUFFICES ASSUME NEW j \in DOMAIN frames, i <= j PROVE frames[j].at \in Graph(x)
    OBVIOUS
  <2>1. PICK y \in Modules : y = frames[i].at
    BY <1>1 DEF WellPlaced
  <2>2. frames[j].at \in Graph(y)
    BY <2>1 DEF Tree
  <2> QED BY <1>1, <1>5, <2>1, <2>2, GraphOn
<1>7. ASSUME NEW j \in DOMAIN frames, b < At(j) PROVE j - 1 \in DOMAIN frames /\ frames[j - 1].at \in Graph(x)
  <2>1. i < j
    <3>1. ASSUME ~(i < j) PROVE FALSE
      <4>1. At(j) <= At(i)
        <5>1. CASE i = j
          <6>1. At(j) = At(i) /\ At(j) \in Nat
            BY <1>1, <5>1 DEF WellPlaced
          <6> QED BY <6>1
        <5>2. CASE i # j
          <6>1. j < i
            BY <1>3, <3>1, <5>2
          <6>2. At(j) < At(i) /\ At(j) \in Nat /\ At(i) \in Nat
            BY <1>1, <6>1 DEF WellPlaced
          <6> QED BY <6>2
        <5> QED BY <5>1, <5>2
      <4>2. At(i) <= b /\ At(i) \in Nat /\ At(j) \in Nat
        BY <1>1, <1>2, <1>4 DEF WellPlaced, Owns
      <4> QED BY <1>2, <1>7, <4>1, <4>2
    <3> QED BY <3>1
  <2>2. j - 1 \in DOMAIN frames /\ i <= j - 1
    BY <1>3, <2>1
  <2> QED BY <1>6, <2>2
<1>8. Frame.at \in Graph(x)
  BY <1>3, <1>6
<1> QED BY <1>7, <1>8

LEMMA TreeReturns ==
    ASSUME Inv, Inv', Tree, frames # <<>>, AllRequested, frames' = Returned, req' = req,
           (Closes /\ stack' = Popped) \/ (~Closes /\ stack' = stack),
           Past \subseteq Past' \/ stack' = <<>>
    PROVE  Tree'
<1> SUFFICES ASSUME NEW n, n = Len(stack), NEW k, k = Len(frames), NEW p, p = At(k),
                    NEW f, f = Frame.at, NEW N, N = DOMAIN stack'
             PROVE Tree'
  OBVIOUS
<1>1. WellPlaced /\ WellPlaced' /\ FactsHold /\ FactsHold'
  BY Places, PlacesThen, FactsNow, FactsThen
<1>2. /\ n \in Nat /\ k \in Nat \ {0} /\ DOMAIN stack = 1..n /\ DOMAIN frames = 1..k
      /\ DOMAIN frames' = 1..(k - 1) /\ Len(frames') = k - 1
      /\ p \in 1..n /\ p = Place(f) /\ frames[k] = Frame /\ f \in OnStack /\ f \in Modules
      /\ stack[p].of = f
      /\ N = 1..(IF Closes THEN p - 1 ELSE n)
      /\ \A i \in 1..(k - 1) : frames'[i] = frames[i] /\ At(i)' = At(i) /\ At(i) \in 1..n
      /\ \A b \in N : b \in 1..n /\ stack'[b] = stack[b]
      /\ \A i \in 1..k : At(i) <= p
      /\ k = 1 => Closes
  <2>1. f \in OnStack /\ f \in Modules
    BY Requested
  <2>2. stack[Place(f)].of = f
    BY <1>1, <2>1 DEF WellPlaced
  <2> HIDE <1>1
  <2> QED BY <2>1, <2>2, Returns
<1>3. /\ \A x \in OnStack' : x \in OnStack /\ Place(x)' = Place(x) /\ Place(x) \in N
      /\ \A x \in OnStack : Place(x) \in N => x \in OnStack'
      /\ \A x \in Called : x # f => x \in Called'
      /\ Called' \subseteq Called /\ f \notin Called'
  BY Returns
<1>4. \A x \in Modules : Graph(x)' = Graph(x)
  BY GraphStays
<1>5. /\ \A b \in 1..n : stack[b].low \in 1..n /\ stack[b].low <= b
      /\ \A x \in OnStack : Place(x) \in 1..n /\ stack[Place(x)].of = x
  BY <1>1, <1>2 DEF WellPlaced
<1>6. /\ \A i \in 1..(k - 1) : i < k /\ At(i) < p
      /\ \A i \in 1..(k - 1), b \in N : Owns(i, b)' <=> At(i) < b /\ (i < k - 1 => b < At(i + 1))
  <2>1. ASSUME NEW i \in 1..(k - 1) PROVE i < k /\ At(i) < p
    <3>1. i \in DOMAIN frames /\ k \in DOMAIN frames /\ i < k
      BY <1>2
    <3> QED BY <1>1, <3>1 DEF WellPlaced
  <2>2. ASSUME NEW i \in 1..(k - 1), NEW b \in N
        PROVE  Owns(i, b)' <=> At(i) < b /\ (i < k - 1 => b < At(i + 1))
    <3>1. CASE i = k - 1
      BY <1>2, <3>1 DEF Owns
    <3>2. CASE i # k - 1
      <4>1. i + 1 \in 1..(k - 1)
        BY <1>2, <3>2
      <4>2. At(i + 1)' = At(i + 1)
        BY <1>2, <4>1
      <4> QED BY <1>2, <4>2 DEF Owns
    <3> QED BY <3>1, <3>2
  <2> QED BY <2>1, <2>2
<1>7. ASSUME NEW i \in 1..(k - 1), i < k - 1
      PROVE  /\ frames'[i].next \in DOMAIN req'[frames'[i].at]
             /\ req'[frames'[i].at][frames'[i].next] = frames'[i + 1].at
  <2>1. i + 1 \in 1..(k - 1) /\ i \in DOMAIN frames /\ i < Len(frames)
    BY <1>2, <1>7
  <2>2. frames[i].next \in DOMAIN req[frames[i].at]
        /\ req[frames[i].at][frames[i].next] = frames[i + 1].at
    BY <2>1 DEF Tree
  <2> QED BY <1>2, <1>7, <2>1, <2>2
<1>8. ASSUME NEW i \in 1..(k - 1), NEW j \in 1..(k - 1), i <= j PROVE frames'[j].at \in Graph(frames[i].at)'
  <2>1. i \in DOMAIN frames /\ j \in DOMAIN frames
    BY <1>2
  <2>2. PICK x \in Modules : x = frames[i].at
    BY <1>1, <2>1 DEF WellPlaced
  <2>3. frames[j].at \in Graph(x)
    BY <1>8, <2>1, <2>2 DEF Tree
  <2>4. x = frames'[i].at /\ frames'[j] = frames[j]
    BY <1>2, <2>2
  <2> QED BY <1>4, <2>3, <2>4
<1>9. ASSUME NEW i \in 1..(k - 1), NEW b \in N, Owns(i, b)'
      PROVE  /\ \/ Lower(b, frames[i].at)'
                \/ i = Len(frames') /\ ~AllRequested' /\ Request' \notin Called' /\ Lower(b, Request)'
             /\ frames'[i].at \in Graph(stack[b].of)' /\ stack'[b].low < b
  <2>1. i \in DOMAIN frames /\ b \in 1..n /\ stack'[b] = stack[b] /\ frames'[i] = frames[i]
    BY <1>2
  <2>2. PICK x \in Modules : x = stack[b].of
    BY <1>1, <1>2, <2>1 DEF WellPlaced
  <2>3. PICK y \in OnStack : y = frames[i].at /\ Place(y) = At(i)
    BY <1>1, <1>2, <2>1 DEF WellPlaced, At
  <2>4. y \in OnStack' /\ Place(y)' = Place(y) /\ y = frames'[i].at /\ Place(y) \in N
    <3>1. y = frames'[i].at /\ y \in OnStack'
      BY <1>1, <1>2, <2>1, <2>3 DEF WellPlaced
    <3> QED BY <1>3, <3>1
  <2>5. stack'[Place(y)] = stack[Place(y)]
    BY <1>2, <2>4
  <2>6. CASE b < p
    <3>1. Owns(i, b)
      <4>1. CASE i = k - 1
        <5>0. i + 1 = k
          BY <1>2, <4>1
        <5>1. At(i + 1) = p
          BY <5>0
        <5> QED BY <1>2, <1>6, <1>9, <2>6, <5>1 DEF Owns
      <4>2. CASE i # k - 1
        BY <1>2, <1>6, <1>9, <4>2 DEF Owns
      <4> QED BY <4>1, <4>2
    <3>2. i # Len(frames)
      BY <1>2
    <3>3. Lower(b, frames[i].at) /\ frames[i].at \in Graph(stack[b].of) /\ stack[b].low < b
      BY <1>2, <2>1, <3>1, <3>2 DEF Tree
    <3>4. Lower(b, frames[i].at)'
      BY <2>1, <2>3, <2>4, <2>5, <3>3 DEF Lower
    <3>5. y \in Graph(x)'
      BY <1>4, <2>2, <2>3, <3>3
    <3> QED BY <2>1, <2>2, <2>4, <3>3, <3>4, <3>5
  <2>7. CASE ~(b < p)
    <3>1. b >= p /\ ~Closes /\ N = 1..n /\ stack' = stack /\ k - 1 \in 1..k
      BY <1>2, <2>1, <2>7
    <3>2. i = k - 1
      <4>1. ASSUME i # k - 1 PROVE FALSE
        <5>1. i + 1 \in 1..(k - 1) /\ b < At(i + 1)
          BY <1>2, <1>6, <1>9, <4>1
        <5>2. At(i + 1) < p /\ At(i + 1) \in 1..n
          BY <1>2, <1>6, <5>1
        <5>3. b \in Int /\ p \in Int /\ b >= p
          BY <1>2, <2>1, <3>1
        <5>4. PICK a \in Int : a = At(i + 1)
          BY <5>2
        <5> QED BY <5>1, <5>2, <5>3, <5>4
      <4> QED BY <4>1
    <3>3. Frame' = frames[i] /\ Request' = f /\ ~AllRequested' /\ i = Len(frames')
      <4>1. Frame' = frames[i] /\ i = Len(frames')
        BY <1>2, <3>2 DEF Frame
      <4>2. i < Len(frames) /\ frames[i].next \in DOMAIN req[frames[i].at]
            /\ req[frames[i].at][frames[i].next] = frames[i + 1].at
        <5>1. i \in DOMAIN frames /\ i < Len(frames)
          <6>1. i \in Int /\ k \in Int /\ i = k - 1 /\ Len(frames) = k
            BY <1>2, <3>2
          <6> QED BY <2>1, <6>1
        <5>2. \A a \in DOMAIN frames : a < Len(frames) =>
                /\ frames[a].next \in DOMAIN req[frames[a].at]
                /\ req[frames[a].at][frames[a].next] = frames[a + 1].at
          BY DEF Tree
        <5> QED BY <5>1, <5>2
      <4>3. i + 1 = k
        <5>1. k \in Nat /\ i = k - 1
          BY <1>2, <3>2
        <5> QED BY <5>1
      <4>4. DOMAIN req[y] = 1..Len(req[y]) /\ Len(req[y]) \in Nat
        BY <1>1, <2>3, LenProperties DEF FactsHold
      <4> QED BY <1>2, <2>3, <4>1, <4>2, <4>3, <4>4 DEF Request, AllRequested
    <3>4. f \in OnStack' /\ Place(f)' = p /\ stack'[p] = stack[p]
      BY <1>2, <1>3, <3>1
    <3>5. Lower(b, f) /\ f \in Graph(x) /\ stack[b].low < b
      <4>1. CASE b = p
        <5>1. stack[p].low < p
          BY <1>2, <1>5, <3>1 DEF Closes
        <5>2. x = f /\ f \in Graph(f)
          BY <1>2, <2>2, <4>1, GraphOn
        <5>3. Lower(p, f)
          BY <1>2, <1>5 DEF Lower
        <5> QED BY <4>1, <5>1, <5>2, <5>3
      <4>2. CASE b > p
        <5>1. k \in DOMAIN frames /\ Owns(k, b)
          BY <1>2, <4>2 DEF Owns
        <5>2. /\ Lower(b, frames[k].at) \/ (k = Len(frames) /\ ~AllRequested)
              /\ frames[k].at \in Graph(stack[b].of) /\ stack[b].low < b
          BY <1>2, <2>1, <5>1 DEF Tree
        <5> QED BY <1>2, <2>2, <5>2
      <4> QED BY <1>2, <2>1, <3>1, <4>1, <4>2
    <3>6. Lower(b, Request)'
      BY <2>1, <3>3, <3>4, <3>5, <1>2 DEF Lower
    <3>7. y \in Graph(f)
      <4>1. PICK l \in 1..n : l = stack[p].low
        BY <1>2, <1>5
      <4>2. l < p
        BY <1>2, <1>5, <3>1, <4>1 DEF Closes
      <4>3. PICK z \in OnStack : z = stack[l].of /\ Place(z) = l
        BY <1>1, <1>2 DEF WellPlaced
      <4>4. z \in Graph(f)
        BY <1>2, <4>1, <4>3 DEF Tree
      <4>5. k \in DOMAIN frames /\ l < At(k)
        BY <1>2, <4>2
      <4>6. frames[k - 1].at \in Graph(z)
        BY <4>3, <4>5, ReachesCall
      <4> QED BY <1>2, <2>3, <3>2, <4>4, <4>6, GraphOn
    <3>8. y \in Graph(x)'
      BY <1>2, <1>4, <2>2, <3>5, <3>7, GraphOn
    <3> QED BY <1>3, <2>1, <2>2, <2>4, <3>3, <3>5, <3>6, <3>8
  <2> QED BY <2>6, <2>7
<1>10. ASSUME NEW b \in N PROVE \E i \in 1..(k - 1) : At(i)' = b \/ Owns(i, b)'
  <2>1. b \in 1..n
    BY <1>2
  <2>2. PICK i \in 1..k : At(i) = b \/ Owns(i, b)
    BY <1>2, <2>1 DEF Tree
  <2>3. CASE i # k
    <3>1. i \in 1..(k - 1)
      BY <1>2, <2>3
    <3>2. CASE At(i) = b
      BY <1>2, <3>1, <3>2
    <3>3. CASE Owns(i, b)
      BY <1>2, <1>6, <3>1, <3>3 DEF Owns
    <3> QED BY <2>2, <3>1, <3>2, <3>3
  <2>4. CASE i = k
    <3>1. b >= p
      <4>1. At(k) = b \/ At(k) < b
        BY <2>2, <2>4 DEF Owns
      <4> QED BY <1>2, <2>1, <4>1
    <3>2. ~Closes /\ k - 1 \in 1..(k - 1)
      BY <1>2, <2>1, <3>1
    <3>3. At(k - 1) < b /\ ~(k - 1 < k - 1)
      BY <1>2, <1>6, <2>1, <3>1, <3>2
    <3>4. Owns(k - 1, b)'
      BY <1>6, <3>2, <3>3
    <3> QED BY <3>2, <3>4
  <2> QED BY <2>3, <2>4
<1>11. ASSUME NEW b \in N PROVE stack'[stack'[b].low].of \in Graph(stack[b].of)'
  <2>1. b \in 1..n /\ stack'[b] = stack[b] /\ stack[b].low \in N
    BY <1>2, <1>5
  <2>2. PICK x \in Modules : x = stack[b].of
    BY <1>1, <1>2, <2>1 DEF WellPlaced
  <2>3. stack[stack[b].low].of \in Graph(x)
    BY <1>2, <2>1, <2>2 DEF Tree
  <2> QED BY <1>2, <1>4, <2>1, <2>2, <2>3
<1>12. ASSUME NEW x \in OnStack', NEW d \in Dealt(x)' PROVE Stays(x, d)' \/ d \in Past'
  <2>1. x \in OnStack /\ Place(x)' = Place(x) /\ Place(x) \in N /\ x \in Modules
    BY <1>1, <1>3 DEF FactsHold
  <2>2. PICK j \in DOMAIN req[x] : d = req[x][j] /\ \A i \in DOMAIN frames' : frames'[i].at = x => j < frames'[i].next
    BY DEF Dealt
  <2>3. d \in Dealt(x)
    <3>1. ASSUME NEW i \in DOMAIN frames, frames[i].at = x PROVE j < frames[i].next
      <4>1. CASE i = k
        <5>1. x = f /\ frames[i] = Frame
          BY <1>2, <3>1, <4>1
        <5> QED BY <2>2, <5>1, Requested
      <4>2. CASE i # k
        <5>1. i \in DOMAIN frames' /\ frames'[i] = frames[i]
          BY <1>2, <4>2
        <5> QED BY <2>2, <3>1, <5>1
      <4> QED BY <4>1, <4>2
    <3> QED BY <2>2, <3>1 DEF Dealt
  <2>4. Past \subseteq Past'
    <3>1. stack' # <<>>
      BY DEF OnStack
    <3> QED BY <3>1
  <2>5. ASSUME Stays(x, d) PROVE Stays(x, d)'
    <3>1. d \in OnStack /\ x \in Graph(d) /\ stack[Place(x)].low <= Place(d)
          /\ \A c \in Called : Place(c) > Place(x) => Place(d) < Place(c)
      BY <2>5 DEF Stays
    <3>2. Place(d) \in N
      <4>1. CASE Closes
        <5>1. Place(x) < p /\ f \in Called
          BY <1>1, <1>2, <2>1, <4>1 DEF WellPlaced
        <5>2. Place(d) < p
          BY <1>2, <1>5, <2>1, <3>1, <5>1
        <5> QED BY <1>2, <1>5, <3>1, <4>1, <5>2
      <4>2. CASE ~Closes
        BY <1>2, <1>5, <3>1, <4>2
      <4> QED BY <4>1, <4>2
    <3>3. d \in OnStack' /\ Place(d)' = Place(d)
      BY <1>3, <3>1, <3>2
    <3>4. stack'[Place(x)] = stack[Place(x)]
      BY <1>2, <2>1
    <3>5. x \in Graph(d)' /\ \A c \in Called' : c \in Called /\ c \in OnStack'
      BY <1>1, <1>3, <1>4, <3>1 DEF FactsHold
    <3>6. \A c \in Called' : Place(c)' = Place(c)
      BY <1>3, <3>5
    <3> QED BY <2>1, <3>1, <3>3, <3>4, <3>5, <3>6 DEF Stays
  <2> QED BY <2>3, <2>1, <2>4, <2>5 DEF Tree
<1> HIDE <1>1
<1>13. /\ \A i \in DOMAIN frames' : i < Len(frames') =>
              /\ frames'[i].next \in DOMAIN req'[frames'[i].at]
              /\ req'[frames'[i].at][frames'[i].next] = frames'[i + 1].at
       /\ \A i, j \in DOMAIN frames' : i <= j => frames'[j].at \in Graph(frames[i].at)'
       /\ \A b \in DOMAIN stack' : \E i \in DOMAIN frames' : At(i)' = b \/ Owns(i, b)'
       /\ \A b \in DOMAIN stack' : stack'[stack'[b].low].of \in Graph(stack[b].of)'
       /\ \A x \in OnStack' : \A d \in Dealt(x)' : Stays(x, d)' \/ d \in Past'
  BY <1>2, <1>7, <1>8, <1>10, <1>11, <1>12
<1>14. \A i \in DOMAIN frames' : \A b \in DOMAIN stack' : Owns(i, b)' =>
             /\ \/ Lower(b, frames[i].at)'
                \/ i = Len(frames') /\ ~AllRequested' /\ Request' \notin Called' /\ Lower(b, Request)'
             /\ frames'[i].at \in Graph(stack[b].of)' /\ stack'[b].low < b
  BY <1>2, <1>9
<1> QED BY <1>13, <1>14 DEF Tree

\* No call is left.
LEMMA TreeEnds == ASSUME Inv', frames' = <<>> PROVE Tree'
<1>1. stack' = <<>>
  BY DEF Inv, Stacked, CallsFollowStack
<1>2. DOMAIN frames' = {} /\ DOMAIN stack' = {} /\ OnStack' = {}
  BY <1>1 DEF OnStack
<1> QED BY <1>2 DEF Tree

-----------------------------------------------------------------------------
(* The walk's part of the invariant is kept.                               *)

LEMMA TreeInitially == Init => TreeInv
<1> SUFFICES ASSUME Init PROVE TreeInv
  OBVIOUS
<1>1. frames = <<>> /\ stack = <<>> /\ turn = "idle" /\ Ready = {} /\ \A m \in Modules : ~Done(m)
  BY DEF Init, Ready, Done
<1>2. DOMAIN frames = {} /\ DOMAIN stack = {} /\ OnStack = {}
  BY <1>1 DEF OnStack
<1>3. Tree
  BY <1>2 DEF Tree
<1>4. Linked
  BY <1>1 DEF Linked
<1> QED BY <1>3, <1>4 DEF TreeInv

\* The modules that are linked, and the roots, are those of before.
LEMMA LinkedStays ==
    ASSUME Inv, Linked, req' = req, Ready' = Ready,
           \A m \in Modules : Done(m)' => root'[m] \in Ready,
           frames' # <<>> => frames'[1].at = entry',
           turn' = "linking" /\ frames' = <<>> => entry' \in Ready
    PROVE  Linked'
<1>1. \A m \in Modules : Elements(req[m])' = Elements(req[m])
  BY DEF Elements
<1>2. Ready \subseteq Modules
  BY DEF Ready
<1> QED BY <1>1, <1>2 DEF Linked

LEMMA FirstStays ==
    ASSUME Inv, Linked, frames # <<>>, entry' = entry,
           Len(frames') >= 1, \A i \in DOMAIN frames' : i \in DOMAIN frames => frames'[i].at = frames[i].at,
           frames' \in Seq(CallOf)
    PROVE  frames'[1].at = entry'
<1>1. 1 \in DOMAIN frames /\ 1 \in DOMAIN frames'
  BY Listed, LenProperties DEF Inv
<1> QED BY <1>1 DEF Linked

LEMMA LinkingTurns ==
    ASSUME Inv, TreeInv, NEW m \in Modules, Import(m) \/ LinkRequest PROVE TreeInv'
<1>1. Inv'
  BY ImportKeeps, LinkRequestKeeps
<1>2. Tree /\ Linked /\ req' = req /\ root' = root
  BY DEF TreeInv, Import, LinkRequest, graph
<1>3. \/ status' = status
      \/ \E n \in Modules : status[n] = "unlinked" /\ status' = [status EXCEPT ![n] = "linking"]
  <2>1. CASE Import(m)
    BY <2>1 DEF Import
  <2>2. CASE LinkRequest
    <3>1. Request \in Modules
      BY <2>2, InCall DEF LinkRequest, Inv
    <3> QED BY <2>2, <3>1 DEF LinkRequest
  <2> QED BY <2>1, <2>2
<1>4. Ready' = Ready /\ \A n \in Modules : (Done(n)' <=> Done(n)) /\ (n \in Past => n \in Past' \/ turn' # turn)
  BY <1>3 DEF Ready, Done, Past, Inv, Types
<1>5. \A n \in Modules : Done(n)' => root'[n] \in Ready
  BY <1>2, <1>4 DEF Linked
<1>6. CASE Import(m)
  <2>1. frames = <<>> /\ turn' = "linking" /\ entry' = m
    BY <1>6, NoCall DEF Import
  <2>2. OnStack = {} /\ stack = <<>> /\ (\A n \in Modules : status[n] \notin {"linking", "evaluating"})
    BY <2>1, Resting DEF Inv
  <2>3. CASE status[m] = "unlinked"
    <3>1. Push(m)
      BY <1>6, <2>3 DEF Import
    <3>2. Tree'
      BY <1>1, <1>2, <2>1, <2>2, <3>1, TreeEnter
    <3>3. frames' # <<>> /\ frames'[1].at = m
      BY <2>1, <3>1 DEF Push
    <3> QED BY <1>2, <1>4, <1>5, <2>1, <3>2, <3>3, LinkedStays DEF TreeInv
  <2>4. CASE status[m] # "unlinked"
    <3>1. frames' = <<>>
      BY <1>6, <2>1, <2>4 DEF Import
    <3>2. Tree'
      BY <1>1, <3>1, TreeEnds
    <3>3. m \in Ready
      BY <2>2, <2>4 DEF Ready, Inv, Types
    <3> QED BY <1>2, <1>4, <1>5, <2>1, <3>1, <3>2, <3>3, LinkedStays DEF TreeInv
  <2> QED BY <2>3, <2>4
<1>7. CASE LinkRequest
  <2>1. turn = "linking" /\ turn' = turn /\ entry' = entry /\ frames # <<>> /\ ~AllRequested
    BY <1>7 DEF LinkRequest
  <2>2. Past \subseteq Past'
    BY <1>4, <2>1 DEF Past
  <2>3. Request \in Modules /\ (Request \in OnStack <=> status[Request] = "linking")
    <3>1. Request \in Modules
      BY <2>1, InCall DEF Inv
    <3>2. Request \in OnStack <=> status[Request] \in {"linking", "evaluating"}
      BY <3>1 DEF Inv, Stacked, OnStackAsTheyShould
    <3>3. status[Request] # "evaluating"
      BY <2>1, <3>1 DEF Inv, Stacked, OnStackAsTheyShould
    <3> QED BY <3>1, <3>2, <3>3
  <2>4. CASE status[Request] = "unlinked"
    <3>1. Push(Request)
      BY <1>7, <2>4 DEF LinkRequest
    <3>2. PICK r \in Modules : r = Request
      BY <2>3
    <3>3. Tree'
      <4>1. r \notin OnStack /\ Push(r)
        BY <2>3, <2>4, <3>1, <3>2 DEF Push
      <4> QED BY <1>1, <1>2, <2>1, <2>2, <3>2, <4>1, TreeEnter
    <3>4. frames'[1].at = entry' /\ frames' # <<>>
      <4>1. frames \in Seq(CallOf) /\ frames' = Append(frames, [at |-> r, next |-> 1])
            /\ frames' \in Seq(CallOf)
        BY <1>1, <3>1, <3>2 DEF Push, Inv, Types
      <4>2. Len(frames) \in Nat /\ DOMAIN frames = 1..Len(frames) /\ [at |-> r, next |-> 1] \in CallOf
        BY <4>1, LenProperties DEF CallOf
      <4>3. Len(frames') = Len(frames) + 1 /\ \A i \in 1..Len(frames) : frames'[i] = frames[i]
        BY <4>1, <4>2, AppendProperties
      <4>4. frames'[1].at = entry'
        BY <1>2, <2>1, <4>1, <4>2, <4>3, FirstStays
      <4> QED BY <4>2, <4>3, <4>4
    <3> QED BY <1>2, <1>4, <1>5, <2>1, <3>1, <3>3, <3>4, LinkedStays DEF TreeInv
  <2>5. CASE status[Request] # "unlinked"
    <3>1. /\ frames' = Advanced
          /\ IF status[Request] = "linking" THEN Meet(Request) ELSE stack' = stack
      BY <1>7, <2>5 DEF LinkRequest
    <3>2. status[Request] # "linking" => Request \in Past
      <4>1. status[Request] # "evaluating"
        BY <2>1, <2>3 DEF Inv, Stacked, OnStackAsTheyShould
      <4> QED BY <2>1, <2>3, <2>5, <4>1 DEF Past, Done, Inv, Types
    <3>3. Tree'
      BY <1>1, <1>2, <2>1, <2>2, <2>3, <3>1, <3>2, TreeGoesOn
    <3>4. frames'[1].at = entry' /\ frames' # <<>>
      <4>1. Len(frames) >= 1 /\ frames' \in Seq(CallOf)
        BY <1>1, <2>1, Listed DEF Inv, Types
      <4>2. /\ Len(frames') = Len(frames)
            /\ \A i \in 1..Len(frames) : frames'[i].at = frames[i].at
            /\ DOMAIN frames = 1..Len(frames)
        <5>1. stack' = stack \/ (Request \in OnStack /\ Meet(Request))
          BY <2>3, <3>1
        <5> QED BY <1>1, <2>1, <3>1, <5>1, Advances
      <4>3. frames'[1].at = entry'
        BY <1>2, <2>1, <4>1, <4>2, FirstStays
      <4> QED BY <4>1, <4>2, <4>3
    <3> QED BY <1>2, <1>4, <1>5, <2>1, <3>3, <3>4, LinkedStays DEF TreeInv
  <2> QED BY <2>4, <2>5
<1> QED BY <1>6, <1>7

\* The cycle that is closed is of linked modules, and requests none but such.
LEMMA LinkModuleTurns == ASSUME Inv, TreeInv, LinkModule PROVE TreeInv'
<1>1. Inv' /\ Tree /\ Linked
  BY LinkModuleKeeps DEF TreeInv
<1>2. /\ turn = "linking" /\ turn' = turn /\ entry' = entry /\ frames # <<>> /\ AllRequested
      /\ frames' = Returned /\ req' = req /\ root' = root
      /\ (Closes /\ stack' = Popped) \/ (~Closes /\ stack' = stack)
      /\ status' = IF Closes THEN [m \in Modules |-> IF m \in Cycle THEN "linked" ELSE status[m]] ELSE status
  BY DEF LinkModule, graph
<1>3. WellPlaced /\ FactsHold
  BY Places, FactsNow
<1>4. Cycle \subseteq OnStack /\ Frame.at \in Modules /\ Frame.at \in OnStack
  BY <1>2, Below DEF Inv
<1>5. \A m \in OnStack : status[m] = "linking" /\ m \in Modules /\ ~Done(m)
  BY <1>2, <1>3 DEF FactsHold, Done
<1>6. /\ \A m \in Modules : status'[m] = IF Closes /\ m \in Cycle THEN "linked" ELSE status[m]
      /\ Ready' = IF Closes THEN Ready \cup Cycle ELSE Ready
      /\ Past \subseteq Past'
      /\ \A m \in Modules : Done(m)' <=> Done(m)
  <2>1. \A m \in Modules : status'[m] = IF Closes /\ m \in Cycle THEN "linked" ELSE status[m]
    BY <1>2
  <2>2. Ready' = IF Closes THEN Ready \cup Cycle ELSE Ready
    BY <1>4, <1>5, <2>1 DEF Ready
  <2>3. \A m \in Modules : Done(m)' <=> Done(m)
    BY <1>4, <1>5, <2>1 DEF Done
  <2>4. Past \subseteq Past'
    BY <1>2, <2>1, <2>3 DEF Past
  <2> QED BY <2>1, <2>2, <2>3, <2>4
<1>7. Tree'
  BY <1>1, <1>2, <1>6, TreeReturns
<1> DEFINE p == Place(Frame.at)
<1>8. ASSUME Closes, NEW x \in Cycle, NEW d \in Elements(req[x]) PROVE d \in Ready'
  <2>1. x \in OnStack /\ x \in Modules /\ p \in DOMAIN stack /\ Place(x) \in DOMAIN stack
        /\ stack[p].of = Frame.at /\ stack[Place(x)].of = x
    BY <1>3, <1>4, <1>5 DEF WellPlaced
  <2>2. Place(x) >= p
    <3>1. PICK i \in p..Len(stack) : stack[i].of = x
      BY DEF Cycle
    <3>2. Place(x) = i
      BY <1>3, <2>1, <3>1 DEF WellPlaced
    <3> QED BY <1>3, <2>1, <3>1, <3>2 DEF WellPlaced
  <2>3. stack[Place(x)].low >= p
    <3>1. CASE Place(x) = p
      BY <1>3, <1>8, <2>1, <3>1 DEF Closes, WellPlaced
    <3>2. CASE Place(x) # p
      <4>1. Len(frames) \in DOMAIN frames /\ At(Len(frames)) = p /\ frames[Len(frames)] = Frame
        BY <1>2, Requested DEF At
      <4>2. Owns(Len(frames), Place(x))
        BY <1>3, <2>1, <2>2, <3>2, <4>1 DEF Owns, WellPlaced
      <4>3. Lower(Place(x), Frame.at)
        BY <1>1, <1>2, <2>1, <4>1, <4>2 DEF Tree
      <4>4. stack[p].low <= stack[Place(x)].low /\ stack[p].low = p
        BY <1>8, <4>3 DEF Lower, Closes
      <4> QED BY <4>4
    <3> QED BY <3>1, <3>2
  <2>4. d \in Dealt(x)
    <3>1. CASE x = Frame.at
      <4>1. PICK j \in DOMAIN req[x] : req[x][j] = d
        BY DEF Elements
      <4>2. ASSUME NEW i \in DOMAIN frames, frames[i].at = x PROVE j < frames[i].next
        <5>1. i = Len(frames)
          <6>1. ASSUME i # Len(frames) PROVE FALSE
            <7>1. Len(frames) \in DOMAIN frames /\ i < Len(frames)
              BY <1>2, <1>3, <6>1, Requested DEF WellPlaced
            <7>2. At(i) < At(Len(frames)) /\ At(i) \in Nat
              BY <1>3, <7>1 DEF WellPlaced
            <7>3. frames[i].at = frames[Len(frames)].at
              BY <1>2, <3>1, <4>2, Requested
            <7>4. At(i) = At(Len(frames))
              BY <7>3 DEF At
            <7> QED BY <7>2, <7>4
          <6> QED BY <6>1
        <5> QED BY <1>2, <3>1, <5>1, Requested
      <4> QED BY <4>1, <4>2 DEF Dealt
    <3>2. CASE x # Frame.at
      <4>1. x \notin Called
        <5>1. ASSUME NEW i \in DOMAIN frames, frames[i].at = x PROVE FALSE
          <6>1. At(i) = Place(x) /\ At(i) \in DOMAIN stack /\ i \in 1..Len(frames) /\ Len(frames) \in Nat
            BY <1>3, <5>1 DEF At, WellPlaced
          <6>2. At(i) <= p
            <7>1. CASE i = Len(frames)
              BY <1>2, <3>2, <5>1, <7>1, Requested
            <7>2. CASE i # Len(frames)
              <8>1. Len(frames) \in DOMAIN frames /\ i < Len(frames) /\ At(Len(frames)) = p
                BY <1>2, <6>1, <7>2, Requested DEF At
              <8>2. At(i) < p
                BY <1>3, <8>1 DEF WellPlaced
              <8> QED BY <1>3, <2>1, <6>1, <8>2 DEF WellPlaced
            <7> QED BY <7>1, <7>2
          <6>3. Place(x) = p
            BY <1>3, <2>1, <2>2, <6>1, <6>2 DEF WellPlaced
          <6> QED BY <2>1, <3>2, <6>3
        <5> QED BY <5>1 DEF Called
      <4> QED BY <2>1, <4>1, DealtWith
    <3> QED BY <3>1, <3>2
  <2>5. Stays(x, d) \/ d \in Past
    BY <1>1, <2>1, <2>4 DEF Tree
  <2>6. CASE Stays(x, d)
    <3>1. d \in OnStack /\ stack[Place(x)].low <= Place(d)
      BY <2>6 DEF Stays
    <3>2. Place(d) \in DOMAIN stack /\ stack[Place(d)].of = d
      BY <1>3, <3>1 DEF WellPlaced
    <3>3. Place(d) >= p
      BY <1>3, <2>1, <2>3, <3>1, <3>2 DEF WellPlaced
    <3>4. Place(d) \in p..Len(stack)
      BY <1>3, <2>1, <3>2, <3>3 DEF WellPlaced
    <3>5. d \in Cycle
      BY <3>2, <3>4 DEF Cycle
    <3> QED BY <1>6, <1>8, <3>5
  <2>7. CASE d \in Past
    <3>1. d \in Ready
      BY <2>7 DEF Past, Ready, Done
    <3> QED BY <1>6, <3>1
  <2> QED BY <2>5, <2>6, <2>7
<1>9. \A m \in Ready' : Elements(req[m]) \subseteq Ready'
  <2>1. \A m \in Ready : Elements(req[m]) \subseteq Ready /\ Ready \subseteq Ready'
    BY <1>1, <1>6 DEF Linked
  <2> QED BY <1>6, <1>8, <2>1
<1>10. \A m \in Modules : Elements(req[m])' = Elements(req[m])
  BY <1>2 DEF Elements
<1>11. \A m \in Modules : Done(m)' => root'[m] \in Ready'
  BY <1>1, <1>2, <1>6 DEF Linked
<1>12. /\ frames' # <<>> => frames'[1].at = entry'
       /\ turn' = "linking" /\ frames' = <<>> => entry' \in Ready'
  <2>1. frames[1].at = entry
    BY <1>1, <1>2 DEF Linked
  <2>2. /\ Len(frames) \in Nat \ {0} /\ DOMAIN frames = 1..Len(frames) /\ DOMAIN frames' = 1..(Len(frames) - 1)
        /\ Len(frames') = Len(frames) - 1
        /\ \A i \in 1..(Len(frames) - 1) : frames'[i] = frames[i]
        /\ frames[Len(frames)] = Frame
        /\ Len(frames) = 1 => Closes
    BY <1>1, <1>2, Returns
  <2>3. frames' # <<>> => 1 \in DOMAIN frames'
    <3>1. frames' \in Seq(CallOf)
      BY <1>1 DEF Inv, Types
    <3> QED BY <3>1, EmptySeq, LenProperties
  <2>4. frames' # <<>> => frames'[1].at = entry'
    BY <1>2, <2>1, <2>2, <2>3
  <2>5. ASSUME frames' = <<>> PROVE entry \in Ready'
    <3>1. Len(frames) = 1
      <4>1. Len(frames') = 0
        BY <2>5
      <4>2. Len(frames) \in Nat /\ Len(frames') = Len(frames) - 1
        BY <2>2
      <4> QED BY <4>1, <4>2
    <3>2. Closes /\ entry = Frame.at
      BY <2>1, <2>2, <3>1
    <3>3. Frame.at \in Cycle
      <4>1. p \in 1..Len(stack) /\ stack[p].of = Frame.at
        BY <1>2, Below DEF Inv
      <4>2. p \in p..Len(stack)
        BY <4>1
      <4> QED BY <4>1, <4>2 DEF Cycle
    <3> QED BY <1>6, <3>2, <3>3
  <2> QED BY <1>2, <2>4, <2>5
<1>13. Linked'
  <2>1. Ready' \subseteq Modules
    BY DEF Ready
  <2> QED BY <1>9, <1>10, <1>11, <1>12, <2>1 DEF Linked
<1> QED BY <1>7, <1>13 DEF TreeInv

\* No call is left: the walk is over.
LEMMA TurnEnds ==
    ASSUME Inv, Inv', Linked, req' = req, Ready' = Ready, frames' = <<>>, turn' # "linking",
           \A m \in Modules : Done(m)' => root'[m] \in Ready
    PROVE  TreeInv'
BY TreeEnds, LinkedStays DEF TreeInv

LEMMA LinkFailsTurns == ASSUME Inv, TreeInv, LinkFails PROVE TreeInv'
<1>1. Inv' /\ Linked
  BY LinkFailsKeeps DEF TreeInv
<1>2. /\ turn = "linking" /\ turn' = "idle" /\ frames' = <<>> /\ req' = req /\ root' = root
      /\ status' = Unlink
  BY DEF LinkFails, graph
<1>3. \A m \in Modules : m \in OnStack => status[m] = "linking"
  BY <1>2, FactsNow DEF FactsHold
<1>4. Ready' = Ready /\ \A m \in Modules : Done(m)' <=> Done(m)
  BY <1>2, <1>3 DEF Ready, Done, Unlink
<1>5. \A m \in Modules : Done(m)' => root'[m] \in Ready
  BY <1>1, <1>2, <1>4 DEF Linked
<1> QED BY <1>1, <1>2, <1>4, <1>5, TurnEnds

\* What an import evaluates is linked.
LEMMA EvaluatedLinked ==
    ASSUME Inv, TreeInv, Evaluate
    PROVE  /\ Evaluated \in Modules /\ Evaluated \in Ready
           /\ Unevaluated => status[Evaluated] = "linked" /\ Evaluated \notin OnStack
<1>1. turn = "linking" /\ frames = <<>> /\ Linked
  BY DEF Evaluate, TreeInv
<1>2. entry \in Ready /\ entry \in Modules
  BY <1>1 DEF Linked, Ready
<1>3. Evaluated \in Ready
  BY <1>1, <1>2 DEF Evaluated, Linked
<1>4. OnStack = {} /\ \A m \in Modules : status[m] \notin {"linking", "evaluating"}
  BY <1>1, Resting DEF Inv
<1> QED BY <1>3, <1>4 DEF Ready, Unevaluated, Done

LEMMA EvaluateTurns == ASSUME Inv, TreeInv, Evaluate PROVE TreeInv'
<1>1. Inv' /\ Linked /\ Tree /\ frames = <<>> /\ req' = req /\ root' = root
  BY EvaluateKeeps DEF TreeInv, Evaluate, graph
<1>2. PICK m \in Modules : m = Evaluated
  BY EvaluatedLinked
<1>3. CASE Unevaluated
  <2>1. /\ Push(m) /\ status' = [status EXCEPT ![m] = "evaluating"] /\ turn' = "evaluating" /\ entry' = m
    BY <1>2, <1>3 DEF Evaluate
  <2>2. m \notin OnStack /\ status[m] = "linked" /\ m \in Ready
    BY <1>2, <1>3, EvaluatedLinked
  <2>3. Tree'
    BY <1>1, <2>1, <2>2, TreeEnter
  <2>4. Ready' = Ready /\ \A x \in Modules : Done(x)' <=> Done(x)
    BY <2>1, <2>2 DEF Ready, Done, Inv, Types
  <2>5. frames' # <<>> /\ frames'[1].at = entry'
    BY <1>1, <2>1 DEF Push
  <2>6. \A x \in Modules : Done(x)' => root'[x] \in Ready
    BY <1>1, <2>4 DEF Linked
  <2> QED BY <1>1, <2>3, <2>4, <2>5, <2>6, LinkedStays DEF TreeInv
<1>4. CASE ~Unevaluated
  <2>1. frames' = <<>> /\ status' = status /\ turn' = "idle"
    BY <1>1, <1>4 DEF Evaluate
  <2>2. Ready' = Ready /\ \A x \in Modules : Done(x)' <=> Done(x)
    BY <2>1 DEF Ready, Done
  <2>3. \A x \in Modules : Done(x)' => root'[x] \in Ready
    BY <1>1, <2>2 DEF Linked
  <2> QED BY <1>1, <2>1, <2>2, <2>3, TurnEnds
<1> QED BY <1>3, <1>4

\* The requests of an evaluation are of linked modules.
LEMMA RequestLinked ==
    ASSUME Inv, TreeInv, turn = "evaluating"
    PROVE  /\ frames # <<>> /\ Frame.at \in OnStack /\ Frame.at \in Modules /\ Frame.at \in Called
           /\ status[Frame.at] = "evaluating"
           /\ ~AllRequested => /\ Request \in Modules /\ Request \in Ready
                               /\ Request \in OnStack <=> status[Request] = "evaluating"
                               /\ status[Request] # "linked" => Request \in OnStack \/ Done(Request)
<1>1. frames # <<>> /\ Linked
  BY DEF Inv, Stacked, CallsFollowStack, TreeInv
<1>2. Frame.at \in OnStack /\ Frame.at \in Modules /\ Frame.at \in Called
  BY <1>1, InCall DEF Inv
<1>3. \A m \in Modules : m \in OnStack <=> status[m] = "evaluating"
  BY FactsNow DEF FactsHold
<1>4. Frame.at \in Ready
  BY <1>2, <1>3 DEF Ready
<1>5. ~AllRequested => Request \in Modules /\ Request \in Ready
  BY <1>1, <1>4, Requested DEF Linked
<1> QED BY <1>1, <1>2, <1>3, <1>5 DEF Ready, Done

LEMMA EvaluateRequestTurns == ASSUME Inv, TreeInv, EvaluateRequest PROVE TreeInv'
<1>1. Inv' /\ Tree /\ Linked /\ req' = req /\ root' = root /\ turn = "evaluating" /\ turn' = turn
      /\ entry' = entry /\ ~AllRequested /\ status[Request] = "linked"
  BY EvaluateRequestKeeps DEF TreeInv, EvaluateRequest, graph
<1>2. frames # <<>> /\ Request \in Modules /\ Request \notin OnStack
  BY <1>1, RequestLinked
<1>3. PICK m \in Modules : m = Request
  BY <1>2
<1>4. Push(m) /\ status' = [status EXCEPT ![m] = "evaluating"]
  BY <1>3 DEF EvaluateRequest
<1>5. Ready' = Ready /\ \A x \in Modules : Done(x)' <=> Done(x)
  BY <1>1, <1>3, <1>4 DEF Ready, Done, Inv, Types
<1>6. Past \subseteq Past'
  BY <1>1, <1>5 DEF Past
<1>7. Tree'
  BY <1>1, <1>2, <1>3, <1>4, <1>6, TreeEnter
<1>8. frames'[1].at = entry' /\ frames' # <<>>
  <2>1. frames \in Seq(CallOf) /\ frames' = Append(frames, [at |-> m, next |-> 1])
        /\ frames' \in Seq(CallOf)
    BY <1>1, <1>4 DEF Push, Inv, Types
  <2>2. Len(frames) \in Nat /\ DOMAIN frames = 1..Len(frames) /\ [at |-> m, next |-> 1] \in CallOf
    BY <2>1, LenProperties DEF CallOf
  <2>3. Len(frames') = Len(frames) + 1 /\ \A i \in 1..Len(frames) : frames'[i] = frames[i]
    BY <2>1, <2>2, AppendProperties
  <2>4. frames'[1].at = entry'
    BY <1>1, <1>2, <2>1, <2>2, <2>3, FirstStays
  <2> QED BY <2>2, <2>3, <2>4
<1>9. \A x \in Modules : Done(x)' => root'[x] \in Ready
  BY <1>1, <1>5 DEF Linked
<1> QED BY <1>1, <1>5, <1>7, <1>8, <1>9, LinkedStays DEF TreeInv

LEMMA RequestEvaluatedTurns == ASSUME Inv, TreeInv, RequestEvaluated PROVE TreeInv'
<1>1. Inv' /\ Tree /\ Linked /\ req' = req /\ root' = root /\ turn = "evaluating" /\ turn' = turn
      /\ entry' = entry /\ ~AllRequested /\ status[Request] # "linked" /\ status' = status
      /\ frames' = Advanced /\ (IF status[Request] = "evaluating" THEN Meet(Request) ELSE stack' = stack)
  BY RequestEvaluatedKeeps DEF TreeInv, RequestEvaluated, graph, results
<1>2. /\ frames # <<>>
      /\ Request \in OnStack <=> status[Request] = "evaluating"
      /\ Request \in OnStack \/ Done(Request)
      /\ Request \in Modules
  BY <1>1, RequestLinked
<1>3. Ready' = Ready /\ Past' = Past /\ \A x \in Modules : Done(x)' <=> Done(x)
  BY <1>1 DEF Ready, Done, Past
<1>4. Done(Request) => Request \in Past
  BY <1>2 DEF Past
<1>5. Tree'
  BY <1>1, <1>2, <1>3, <1>4, TreeGoesOn
<1>6. frames'[1].at = entry' /\ frames' # <<>>
  <2>1. Len(frames) >= 1 /\ frames' \in Seq(CallOf)
    BY <1>1, <1>2, Listed DEF Inv, Types
  <2>2. /\ Len(frames') = Len(frames)
        /\ \A i \in 1..Len(frames) : frames'[i].at = frames[i].at
        /\ DOMAIN frames = 1..Len(frames)
    <3>1. stack' = stack \/ (Request \in OnStack /\ Meet(Request))
      BY <1>1, <1>2
    <3> QED BY <1>1, <1>2, <3>1, Advances
  <2>3. frames'[1].at = entry'
    BY <1>1, <1>2, <2>1, <2>2, FirstStays
  <2> QED BY <2>1, <2>2, <2>3
<1>7. \A x \in Modules : Done(x)' => root'[x] \in Ready
  BY <1>1, <1>3 DEF Linked
<1> QED BY <1>1, <1>3, <1>5, <1>6, <1>7, LinkedStays DEF TreeInv

LEMMA AbandonTurns == ASSUME Inv, TreeInv, Inv', turn = "evaluating", Abandon, req' = req PROVE TreeInv'
<1>1. Linked /\ frames # <<>>
  BY DEF TreeInv, Inv, Stacked, CallsFollowStack
<1>2. \A m \in Modules : m \in OnStack <=> status[m] = "evaluating"
  BY FactsNow DEF FactsHold
<1>3. entry \in Ready
  <2>1. 1 \in DOMAIN frames
    BY <1>1, Listed DEF Inv
  <2>2. frames[1].at \in OnStack /\ frames[1].at \in Modules
    BY <2>1, Places DEF WellPlaced
  <2> QED BY <1>1, <1>2, <2>2 DEF Ready, Linked
<1>4. /\ frames' = <<>> /\ turn' = "idle"
      /\ status' = [m \in Modules |-> IF m \in OnStack THEN "evaluated" ELSE status[m]]
      /\ root' = [m \in Modules |-> IF m \in OnStack THEN entry ELSE root[m]]
  BY DEF Abandon
<1>5. Ready' = Ready
  BY <1>2, <1>4 DEF Ready
<1>6. \A m \in Modules : Done(m)' => root'[m] \in Ready
  BY <1>1, <1>2, <1>3, <1>4 DEF Linked, Done
<1> QED BY <1>1, <1>4, <1>5, <1>6, TurnEnds

LEMMA ReturnTurns ==
    ASSUME Inv, TreeInv, Inv', turn = "evaluating", AllRequested, Return, req' = req PROVE TreeInv'
<1>1. Linked /\ Tree /\ frames # <<>>
  BY DEF TreeInv, Inv, Stacked, CallsFollowStack
<1>2. \A m \in Modules : m \in OnStack <=> status[m] = "evaluating"
  BY FactsNow DEF FactsHold
<1>3. Cycle \subseteq OnStack /\ Frame.at \in Modules /\ Frame.at \in OnStack
  BY <1>1, Below DEF Inv
<1>4. /\ frames' = Returned
      /\ (Closes /\ stack' = Popped) \/ (~Closes /\ stack' = stack)
      /\ \A m \in Modules : IF Closes /\ m \in Cycle THEN status'[m] \in {"async", "evaluated"}
                            ELSE status'[m] = status[m]
      /\ \A m \in Modules : root'[m] = IF Closes /\ m \in Cycle THEN Frame.at ELSE root[m]
      /\ IF Len(frames) = 1 THEN turn' = "idle" ELSE turn' = turn /\ entry' = entry
  <2>1. /\ frames' = Returned
        /\ IF Len(frames) = 1 THEN turn' = "idle" ELSE turn' = turn /\ entry' = entry
    BY DEF Return
  <2>2. CASE Closes
    <3>1. /\ status' = [m \in Modules |-> IF m \notin Cycle THEN status[m]
                            ELSE IF flagged'[m] THEN "async" ELSE "evaluated"]
          /\ root' = [m \in Modules |-> IF m \in Cycle THEN Frame.at ELSE root[m]]
          /\ stack' = Popped
      BY <2>2 DEF Return
    <3> QED BY <2>1, <2>2, <3>1
  <2>3. CASE ~Closes
    BY <2>1, <2>3 DEF Return
  <2> QED BY <2>2, <2>3
<1>5. Ready' = Ready /\ \A m \in Modules : Done(m) => Done(m)'
  <2>1. \A m \in Modules : m \in Cycle => status[m] = "evaluating"
    BY <1>2, <1>3
  <2> QED BY <1>4, <2>1 DEF Ready, Done
<1>6. \A m \in Modules : Done(m)' => root'[m] \in Ready
  <2>1. Frame.at \in Ready
    BY <1>2, <1>3 DEF Ready
  <2> QED BY <1>1, <1>4, <2>1 DEF Linked, Done
<1>7. Tree'
  <2>1. Past \subseteq Past'
    BY <1>5 DEF Past
  <2> QED BY <1>1, <1>4, <2>1, TreeReturns
<1>8. /\ frames' # <<>> => frames'[1].at = entry' 
      /\ turn' # "linking"
  <2>1. /\ Len(frames) \in Nat \ {0} /\ Len(frames') = Len(frames) - 1
        /\ DOMAIN frames = 1..Len(frames) /\ DOMAIN frames' = 1..(Len(frames) - 1)
        /\ \A i \in 1..(Len(frames) - 1) : frames'[i] = frames[i]
    BY <1>1, <1>4, Returns
  <2>2. frames' # <<>> => Len(frames') >= 1 /\ Len(frames) # 1
    <3>1. frames' \in Seq(CallOf)
      BY DEF Inv, Types
    <3> QED BY <2>1, <3>1, EmptySeq
  <2>3. ASSUME frames' # <<>> PROVE frames'[1].at = entry'
    <3>1. frames' \in Seq(CallOf)
      BY DEF Inv, Types
    <3> QED BY <1>1, <1>4, <2>1, <2>2, <2>3, <3>1, FirstStays
  <2> QED BY <1>4, <2>3
<1> QED BY <1>1, <1>5, <1>6, <1>7, <1>8, LinkedStays DEF TreeInv

LEMMA OutsideTurns ==
    ASSUME Inv, TreeInv, Inv', turn \in {"idle", "gathering", "running"}, turn' # "linking",
           calls' = calls, req' = req, root' = root,
           \A n \in Modules : status'[n] = status[n] \/ (Done(n) /\ status'[n] = "evaluated")
    PROVE  TreeInv'
<1>1. frames' = <<>> /\ Linked
  BY NoCall DEF calls, TreeInv
<1>2. Ready' = Ready /\ \A n \in Modules : Done(n)' <=> Done(n)
  BY DEF Ready, Done
<1>3. \A n \in Modules : Done(n)' => root'[n] \in Ready
  BY <1>1, <1>2 DEF Linked
<1> QED BY <1>1, <1>2, <1>3, TurnEnds

LEMMA TreeKeeps == Inv /\ TreeInv /\ [Next]_vars => TreeInv'
<1> SUFFICES ASSUME Inv, TreeInv, [Next]_vars PROVE TreeInv'
  OBVIOUS
<1>0. Inv'
  BY NextKeeps
<1>1. ASSUME NEW m \in Modules, Import(m) \/ LinkRequest PROVE TreeInv'
  BY <1>1, LinkingTurns
<1>2. CASE LinkRequest
  <2>1. frames # <<>>
    BY <1>2 DEF LinkRequest
  <2>2. Frame.at \in Modules
    BY <2>1, InCall DEF Inv
  <2> QED BY <1>1, <1>2, <2>2
<1>3. CASE LinkModule
  BY <1>3, LinkModuleTurns
<1>4. CASE LinkFails
  BY <1>4, LinkFailsTurns
<1>5. CASE Evaluate
  BY <1>5, EvaluateTurns
<1>6. CASE EvaluateRequest
  BY <1>6, EvaluateRequestTurns
<1>7. CASE RequestEvaluated
  BY <1>7, RequestEvaluatedTurns
<1>8. CASE RequestFails \/ Throws
  BY <1>0, <1>8, AbandonTurns DEF RequestFails, Throws, graph
<1>9. CASE Postpone \/ Execute
  BY <1>0, <1>9, ReturnTurns DEF Postpone, Execute, graph
<1>12. CASE Gather \/ Gathered \/ Ran
  BY <1>0, <1>12, OutsideTurns DEF Gather, Gathered, Ran, graph, results
<1>14. ASSUME NEW m \in Modules, Run(m) PROVE TreeInv'
  <2>1. turn = "running" /\ turn' = "running" /\ m \in ready /\ calls' = calls /\ req' = req /\ root' = root
    BY <1>14 DEF Run, First, graph
  <2>2. frames = <<>> /\ Done(m)
    BY <2>1, NoCall DEF Inv, Reached
  <2>3. \A n \in Modules : status'[n] = status[n] \/ (Done(n) /\ status'[n] = "evaluated")
    <3>1. CASE SetEvaluated(m)
      BY <2>2, <3>1 DEF SetEvaluated, Inv, Types
    <3>2. CASE Reject(m)
      BY <2>2, <3>2, RejectsStatus
    <3> QED BY <1>14, <3>1, <3>2 DEF Run
  <2> QED BY <1>0, <2>1, <2>3, OutsideTurns
<1>16. ASSUME NEW m \in Modules, BodyThrows(m) \/ BodyEnds(m) PROVE TreeInv'
  <2>1. turn = "idle" /\ turn' # "linking" /\ body[m] = "running" /\ calls' = calls /\ req' = req /\ root' = root
    BY <1>16 DEF BodyThrows, BodyEnds, graph
  <2>2. frames = <<>> /\ Done(m)
    BY <2>1, NoCall
  <2>3. \A n \in Modules : status'[n] = status[n] \/ (Done(n) /\ status'[n] = "evaluated")
    <3>1. CASE SetEvaluated(m)
      BY <2>2, <3>1 DEF SetEvaluated, Inv, Types
    <3>2. CASE Reject(m)
      BY <2>2, <3>2, RejectsStatus
    <3> QED BY <1>16, <3>1, <3>2 DEF BodyThrows, BodyEnds
  <2> QED BY <1>0, <2>1, <2>3, OutsideTurns
<1>18. CASE UNCHANGED vars
  <2>1. /\ req' = req /\ status' = status /\ root' = root /\ turn' = turn /\ entry' = entry
        /\ frames' = frames /\ stack' = stack
    BY <1>18 DEF vars, graph, results, calls
  <2>2. Linked'
    BY <2>1 DEF TreeInv, Linked, Ready, Done, Elements
  <2>3. Tree'
    <3>1. OnStack' = OnStack /\ Called' = Called /\ Past' = Past /\ AllRequested' = AllRequested /\ Request' = Request
      BY <2>1 DEF OnStack, Called, Past, Done, AllRequested, Request, Frame
    <3>2. \A x : Place(x)' = Place(x) /\ Graph(x)' = Graph(x) /\ Dealt(x)' = Dealt(x)
      BY <2>1 DEF Place, Graph, Dealt, Elements
    <3>3. \A i : At(i)' = At(i)
      BY <2>1, <3>2 DEF At
    <3>4. \A i, b : Owns(i, b)' = Owns(i, b)
      BY <2>1, <3>3 DEF Owns
    <3>5. \A b, d : Lower(b, d)' = Lower(b, d)
      BY <2>1, <3>1, <3>2 DEF Lower
    <3>6. \A x, d : Stays(x, d)' = Stays(x, d)
      BY <2>1, <3>1, <3>2 DEF Stays
    <3>7. \A i \in DOMAIN frames : Lower(i, frames[i].at)' = Lower(i, frames[i].at)
      BY <2>1, <3>1, <3>2 DEF Lower
    <3>8. \A i, b : Lower(b, frames[i].at)' = Lower(b, frames[i].at)
      BY <2>1, <3>1, <3>2 DEF Lower
    <3>9. \A b : Lower(b, Request)' = Lower(b, Request)
      BY <2>1, <3>1, <3>2 DEF Lower
    <3>10. \A i, j : (frames[j].at \in Graph(frames[i].at))' = (frames[j].at \in Graph(frames[i].at))
      BY <2>1, <3>2
    <3>11. \A i, b : (frames[i].at \in Graph(stack[b].of))' = (frames[i].at \in Graph(stack[b].of))
      BY <2>1, <3>2
    <3>12. \A i, b : (stack[i].of \in Graph(stack[b].of))' = (stack[i].of \in Graph(stack[b].of))
      BY <2>1, <3>2
    <3> QED BY <2>1, <3>1, <3>3, <3>4, <3>6, <3>8, <3>9, <3>10, <3>11, <3>12, <3>2 DEF TreeInv, Tree
  <2> QED BY <2>2, <2>3 DEF TreeInv
<1> QED BY <1>1, <1>2, <1>3, <1>4, <1>5, <1>6, <1>7, <1>8, <1>9, <1>12,
           <1>14, <1>16, <1>18 DEF Next, Engine, Settle

LEMMA StampSize ==
    LastStamp \in Nat /\ IsFiniteSet({m \in Modules : stamp[m] > 0})
<1>1. IsFiniteSet({m \in Modules : stamp[m] > 0})
  BY ModulesAssumption, FS_Subset
<1> QED BY <1>1, FS_CardinalityType DEF LastStamp

LEMMA WaitInitially == Init => WaitInv
<1> SUFFICES ASSUME Init PROVE WaitInv
  OBVIOUS
<1> USE DEF Init
<1>1. Begun = {} /\ (\A m \in Modules : ~Done(m)) /\ turn # "evaluating" /\ gather = <<>> /\ ready = {}
  BY DEF Begun, Done
<1>2. \A m \in Modules : Elements(parents[m]) = {}
  BY DEF Elements
<1>3. Elements(gather) = {}
  BY DEF Elements
<1>4. MoreTypes
  BY DEF MoreTypes
<1>5. Marked
  BY <1>1 DEF Marked
<1>6. Stamped
  BY <1>2, StampSize DEF Stamped
<1>7. Rooted
  BY <1>1 DEF Rooted
<1>8. Counted
  BY <1>1 DEF Counted
<1>9. Waiting
  BY <1>2, <1>3 DEF Waiting, Unfinished
<1>10. Walk
  BY <1>1 DEF Walk
<1>11. Ordered
  BY <1>1 DEF Ordered
<1>12. Outcome
  BY <1>1, <1>2 DEF Outcome
<1> QED BY <1>4, <1>5, <1>6, <1>7, <1>8, <1>9, <1>10, <1>11, <1>12 DEF WaitInv

-----------------------------------------------------------------------------
(* Steps that evaluate nothing.                                            *)

LEMMA QuietKeeps ==
    ASSUME Inv, WaitInv, Inv', turn # "evaluating", turn' # "evaluating",
           req' = req, tla' = tla, root' = root, failed' = failed,
           flagged' = flagged, stamp' = stamp, pending' = pending, parents' = parents,
           gather' = gather, gather # <<>> => turn' = "gathering",
           ready' \subseteq ready, \A n \in ready : n \in ready' \/ tla[n] \/ status[n] = "evaluated",
           \A n \in Modules :
               \/ body'[n] = body[n]
               \/ /\ body[n] # "threw" /\ (status[n] = "evaluated" => failed[n])
                  /\ body'[n] = "running" => flagged[n] /\ status[n] = "async",
           \A n \in Modules :
               \/ status'[n] = status[n]
               \/ n \notin Begun /\ status'[n] \notin {"evaluating", "async", "evaluated"},
           promise' \in [Modules -> {"none", "pending", "fulfilled", "rejected"}],
           \A n \in Modules : promise'[n] # "none" => promise[n] # "none" \/ (Done(n) /\ root[n] = n)
    PROVE  WaitInv'
<1>1. /\ Begun' = Begun /\ (\A n \in Modules : Done(n)' <=> Done(n))
      /\ \A n \in Begun : status'[n] = status[n]
      /\ Unfinished' = Unfinished /\ Live' = Live
      /\ \A n \in Modules : (status'[n] = "evaluated" <=> status[n] = "evaluated")
                         /\ (status'[n] = "async" <=> status[n] = "async")
  <2>1. \A n \in Begun : status'[n] = status[n]
    BY DEF Begun
  <2>2. Begun' = Begun /\ (\A n \in Modules : Done(n)' <=> Done(n)) /\ Unfinished' = Unfinished
        /\ \A n \in Modules : (status'[n] = "evaluated" <=> status[n] = "evaluated")
                         /\ (status'[n] = "async" <=> status[n] = "async")
                         /\ (status'[n] = "evaluating" <=> status[n] = "evaluating")
    BY DEF Begun, Done, Unfinished
  <2>3. Live' = Live
    BY <2>2 DEF Live
  <2> QED BY <2>1, <2>2, <2>3
<1>2. \A n \in Begun : n \notin Called /\ n \notin Called'
  <2>1. \A n \in Begun : n \notin Called
    BY Facts
  <2>2. \A n \in Called' : status'[n] \in {"linking", "evaluating"} /\ n \in Modules
    <3>1. \A n \in Called' : n \in OnStack'
      BY DEF Inv, Stacked, CallsFollowStack, Called
    <3>2. \A i \in DOMAIN stack' : stack'[i] \in PlaceFor
      <4>1. stack' \in Seq(PlaceFor)
        BY DEF Inv, Types
      <4> QED BY <4>1, LenProperties
    <3>3. OnStack' \subseteq Modules
      BY <3>2 DEF OnStack, PlaceFor
    <3> QED BY <3>1, <3>3 DEF Inv, Stacked, OnStackAsTheyShould
  <2>3. \A n \in Modules : status'[n] \in {"linking", "evaluating"} => status'[n] = turn'
    BY DEF Inv, Stacked, OnStackAsTheyShould
  <2>4. \A n \in Begun : Done(n)
    BY Facts
  <2> QED BY <1>1, <2>1, <2>2, <2>3, <2>4 DEF Done
<1>3. MoreTypes'
  BY DEF WaitInv, MoreTypes
<1>4. Marked'
  <2>1. ready' \subseteq Modules
    BY Facts
  <2>2. \A n \in Modules : status'[n] = "evaluated" => failed[n] \/ body'[n] = "done"
    BY <1>1 DEF WaitInv, Marked
  <2>3. \A n \in Modules : body'[n] = "running" => flagged[n] /\ (status'[n] = "evaluated" => failed[n])
    BY <1>1 DEF WaitInv, Marked
  <2> QED BY <1>1, <2>1, <2>2, <2>3 DEF WaitInv, Marked
<1>5. Stamped'
  <2>1. LastStamp' = LastStamp
    BY DEF LastStamp
  <2>2. \A y \in Modules : Elements(parents[y])' = Elements(parents[y])
    BY DEF Elements
  <2> QED BY <1>1, <1>2, <2>1, <2>2 DEF WaitInv, Stamped
<1>6. Rooted'
  <2>1. \A n \in Modules : Done(n) => root[n] \in Modules
    BY DEF Inv, Reached
  <2> QED BY <1>1, <2>1 DEF WaitInv, Rooted
<1>7. Counted'
  BY <1>1 DEF WaitInv, Counted, Marks, Occurs
<1>8. Waiting'
  <2>1. \A n \in Modules : \A x \in Condemned(n) : x \in Condemned(n)'
    <3> DEFINE E == {}
    <3>1. \A y \in Modules : Elements(parents[y]) \subseteq Elements(parents'[y])
      OBVIOUS
    <3>2. \A y \in Modules : Elements(parents[y]) \subseteq Modules
      BY Facts
    <3>3. \A x \in Modules : status'[x] = "evaluated" => status[x] = "evaluated" \/ x \in E
      BY <1>1
    <3>4. E \in SUBSET Modules /\ \A y \in E : \A p \in Elements(parents[y]) : status[p] # "evaluated" => p \in E
      OBVIOUS
    <3>5. \A x : x \notin E
      OBVIOUS
    <3> HIDE DEF E
    <3> QED BY <3>1, <3>2, <3>3, <3>4, <3>5, CondemnsStill
  <2>2. \A y \in Modules : Elements(parents[y])' = Elements(parents[y])
    BY DEF Elements
  <2>3. \A p \in Modules : Told(p)' <=> Told(p)
    BY <1>1 DEF Told
  <2>4. Elements(gather)' = Elements(gather)
    BY DEF Elements
  <2>5. \A y \in Modules : Elements(parents[y]) \subseteq Modules
    BY Facts
  <2>6. Elements(gather) \subseteq Modules
    BY Facts
  <2>7. \A y \in Unfinished' : \A p \in Elements(parents[y])' : Told(p)'
    BY <1>1, <2>2, <2>3, <2>5 DEF WaitInv, Waiting, Unfinished
  <2>8. \A p \in Elements(gather)' : Told(p)'
    BY <2>3, <2>4, <2>6 DEF WaitInv, Waiting
  <2>9. \A m \in Modules : status'[m] = "async" => failed'[root'[m]] \/ root'[m] \in Condemned(m)'
    BY <1>1, <2>1 DEF WaitInv, Waiting
  <2> QED BY <2>7, <2>8, <2>9 DEF Waiting
<1>9. Walk'
  BY DEF Walk
<1>10. Ordered'
  <2> SUFFICES ASSUME NEW x \in Begun, ~failed[x], NEW d \in Dealt(x)'
               PROVE  InCycle(x, d)' \/ Settled(d)' \/ WaitsFor(x, d)'
    BY <1>1 DEF Ordered
  <2>1. x \in Modules /\ Dealt(x) = Elements(req[x]) /\ Dealt(x)' = Elements(req[x])
    <3>1. x \in Modules /\ Dealt(x) = Elements(req[x]) /\ Elements(req[x])' = Elements(req[x])
      BY <1>2, DealtWith DEF Begun, Elements
    <3>2. Dealt(x)' = Elements(req[x])'
      BY <1>2 DEF Dealt, Called, Elements
    <3> QED BY <3>1, <3>2
  <2>2. InCycle(x, d) \/ Settled(d) \/ WaitsFor(x, d)
    <3>1. x \notin OnStack
      BY Facts
    <3> QED BY <2>1, <3>1 DEF WaitInv, Ordered, Stays
  <2>3. d \in Modules
    BY <2>1, Facts
  <2>4. InCycle(x, d) => InCycle(x, d)'
    BY <1>1, <2>1, <2>3, GraphStays DEF InCycle
  <2>5. Settled(d) => Settled(d)'
    BY <1>1, <2>3, RootStands DEF Settled
  <2>6. WaitsFor(x, d) => WaitsFor(x, d)'
    <3>1. Done(d) => root[d] \in Modules
      BY <2>3 DEF Inv, Reached
    <3>2. Elements(parents[root[d]])' = Elements(parents[root[d]])
      BY DEF Elements
    <3> QED BY <1>1, <2>3, <3>1, <3>2 DEF WaitsFor
  <2> QED BY <2>2, <2>4, <2>5, <2>6
<1>11. Outcome'
  <2>1. \A y \in Modules : Elements(parents[y])' = Elements(parents[y])
    BY DEF Elements
  <2>2. \A m : Graph(m)' = Graph(m)
    BY GraphStays
  <2>3. ASSUME NEW x \in Modules, failed[x] PROVE \E d \in Graph(x) : body'[d] = "threw"
    <3>1. PICK d \in Graph(x) : body[d] = "threw"
      BY <2>3 DEF WaitInv, Outcome
    <3>2. d \in Modules
      BY GraphOn
    <3> QED BY <3>1, <3>2
  <2> QED BY <1>1, <2>1, <2>2, <2>3 DEF WaitInv, Outcome
<1> QED BY <1>3, <1>4, <1>5, <1>6, <1>7, <1>8, <1>9, <1>10, <1>11 DEF WaitInv

LEMMA ImportWaits == ASSUME Inv, WaitInv, NEW m \in Modules, Import(m) PROVE WaitInv'
<1>1. Inv'
  BY ImportKeeps
<1>2. turn # "evaluating" /\ turn' # "evaluating" /\ gather = <<>>
  BY DEF Import, WaitInv, Marked
<1>3. \A n \in Modules : \/ status'[n] = status[n]
                         \/ n \notin Begun /\ status'[n] \notin {"evaluating", "async", "evaluated"}
  BY DEF Import, Begun, Inv, Types
<1>4. promise' \in [Modules -> {"none", "pending", "fulfilled", "rejected"}] /\ promise' = promise
  BY DEF Import, WaitInv, MoreTypes
<1>5. /\ req' = req /\ tla' = tla /\ root' = root /\ failed' = failed /\ body' = body
      /\ flagged' = flagged /\ stamp' = stamp /\ pending' = pending /\ parents' = parents
      /\ gather' = gather /\ ready' = ready
  BY DEF Import, graph, waits, lists
<1> QED BY <1>1, <1>2, <1>3, <1>4, <1>5, QuietKeeps

LEMMA LinkRequestWaits == ASSUME Inv, WaitInv, LinkRequest PROVE WaitInv'
<1>1. Inv'
  BY LinkRequestKeeps
<1>2. turn # "evaluating" /\ turn' # "evaluating" /\ gather = <<>>
  BY DEF LinkRequest, WaitInv, Marked
<1>3. \A n \in Modules : \/ status'[n] = status[n]
                         \/ n \notin Begun /\ status'[n] \notin {"evaluating", "async", "evaluated"}
  BY DEF LinkRequest, Begun, Inv, Types
<1>4. promise' \in [Modules -> {"none", "pending", "fulfilled", "rejected"}] /\ promise' = promise
  BY DEF LinkRequest, WaitInv, MoreTypes
<1>5. /\ req' = req /\ tla' = tla /\ root' = root /\ failed' = failed /\ body' = body
      /\ flagged' = flagged /\ stamp' = stamp /\ pending' = pending /\ parents' = parents
      /\ gather' = gather /\ ready' = ready
  BY DEF LinkRequest, graph, waits, lists
<1> QED BY <1>1, <1>2, <1>3, <1>4, <1>5, QuietKeeps

LEMMA LinkModuleWaits == ASSUME Inv, WaitInv, LinkModule PROVE WaitInv'
<1>1. Inv'
  BY LinkModuleKeeps
<1>2. turn # "evaluating" /\ turn' # "evaluating" /\ gather = <<>>
  BY DEF LinkModule, WaitInv, Marked
<1>3. \A n \in Modules : \/ status'[n] = status[n]
                         \/ n \notin Begun /\ status'[n] \notin {"evaluating", "async", "evaluated"}
  <2>1. Cycle \subseteq OnStack
    BY Below DEF LinkModule, Inv
  <2>2. \A n \in Cycle : n \notin Begun
    BY <1>2, <2>1, Facts
  <2> QED BY <2>2 DEF LinkModule
<1>4. promise' \in [Modules -> {"none", "pending", "fulfilled", "rejected"}] /\ promise' = promise
  BY DEF LinkModule, WaitInv, MoreTypes
<1>5. /\ req' = req /\ tla' = tla /\ root' = root /\ failed' = failed /\ body' = body
      /\ flagged' = flagged /\ stamp' = stamp /\ pending' = pending /\ parents' = parents
      /\ gather' = gather /\ ready' = ready
  BY DEF LinkModule, graph, waits, lists
<1> QED BY <1>1, <1>2, <1>3, <1>4, <1>5, QuietKeeps

LEMMA LinkFailsWaits == ASSUME Inv, WaitInv, LinkFails PROVE WaitInv'
<1>1. Inv'
  BY LinkFailsKeeps
<1>2. turn # "evaluating" /\ turn' # "evaluating" /\ gather = <<>>
  BY DEF LinkFails, WaitInv, Marked
<1>3. \A n \in Modules : \/ status'[n] = status[n]
                         \/ n \notin Begun /\ status'[n] \notin {"evaluating", "async", "evaluated"}
  <2>1. \A n \in OnStack : n \notin Begun
    BY <1>2, Facts
  <2> QED BY <2>1 DEF LinkFails, Unlink
<1>4. promise' \in [Modules -> {"none", "pending", "fulfilled", "rejected"}] /\ promise' = promise
  BY DEF LinkFails, WaitInv, MoreTypes
<1>5. /\ req' = req /\ tla' = tla /\ root' = root /\ failed' = failed /\ body' = body
      /\ flagged' = flagged /\ stamp' = stamp /\ pending' = pending /\ parents' = parents
      /\ gather' = gather /\ ready' = ready
  BY DEF LinkFails, graph, waits, lists
<1> QED BY <1>1, <1>2, <1>3, <1>4, <1>5, QuietKeeps

\* gather_available_ancestors has come to its end, or the modules have run.
LEMMA TurnsWait == ASSUME Inv, WaitInv, Gathered \/ Ran PROVE WaitInv'
<1>1. Inv'
  BY GatheredKeeps, RanKeeps
<1>2. turn # "evaluating" /\ turn' # "evaluating" /\ (gather # <<>> => turn' = "gathering")
  BY DEF Gathered, Ran, WaitInv, Marked
<1>3. promise' \in [Modules -> {"none", "pending", "fulfilled", "rejected"}] /\ promise' = promise
  BY DEF Gathered, Ran, results, WaitInv, MoreTypes
<1>4. /\ req' = req /\ tla' = tla /\ root' = root /\ failed' = failed /\ body' = body
      /\ flagged' = flagged /\ stamp' = stamp /\ pending' = pending /\ parents' = parents
      /\ gather' = gather /\ ready' = ready /\ status' = status
  BY DEF Gathered, Ran, graph, results, waits, lists
<1> QED BY <1>1, <1>2, <1>3, <1>4, QuietKeeps

\* The import of a module that has been evaluated.
LEMMA AnswerWaits == ASSUME Inv, WaitInv, Evaluate, ~Unevaluated PROVE WaitInv'
<1>1. Inv'
  BY EvaluateKeeps
<1>2. turn # "evaluating" /\ turn' # "evaluating" /\ gather = <<>>
  BY DEF Evaluate, WaitInv, Marked
<1>3. /\ req' = req /\ tla' = tla /\ root' = root /\ failed' = failed /\ body' = body
      /\ flagged' = flagged /\ stamp' = stamp /\ pending' = pending /\ parents' = parents
      /\ gather' = gather /\ ready' = ready /\ status' = status
  BY DEF Evaluate, graph, lists
<1>4. promise' \in [Modules -> {"none", "pending", "fulfilled", "rejected"}]
      /\ \A n \in Modules : promise'[n] # "none" => promise[n] # "none" \/ n = Evaluated
  BY DEF Evaluate, WaitInv, MoreTypes
<1>5. ASSUME promise[Evaluated] = "none" PROVE Done(Evaluated) /\ root[Evaluated] = Evaluated
  <2>1. entry \in Modules
    BY DEF Evaluate, Inv, Stacked, CallsFollowStack
  <2>2. Done(Evaluated)
    BY <1>5 DEF Unevaluated
  <2>3. Done(entry)
    BY <2>2 DEF Evaluated
  <2> QED BY <2>1, <2>3 DEF Evaluated, WaitInv, Rooted
<1>6. \A n \in Modules : promise'[n] # "none" => promise[n] # "none" \/ (Done(n) /\ root[n] = n)
  <2>1. promise[Evaluated] # "none" => promise' = promise
    BY DEF Evaluate
  <2> QED BY <1>4, <1>5, <2>1
<1> QED BY <1>1, <1>2, <1>3, <1>4, <1>6, QuietKeeps

-----------------------------------------------------------------------------
(* Steps of an evaluation.                                                 *)

\* The lists and the marks of what has not been reached.
LEMMA EnterKeeps ==
    ASSUME Inv, WaitInv, Inv', NEW m \in Modules, m \notin Begun, Push(m),
           status' = [status EXCEPT ![m] = "evaluating"], pending' = [pending EXCEPT ![m] = 0],
           turn' = "evaluating",
           \/ /\ turn = "evaluating" /\ ~AllRequested /\ Request = m
              /\ entry' = entry /\ promise' = promise
           \/ /\ turn # "evaluating" /\ frames = <<>> /\ gather = <<>> /\ entry' = m
              /\ promise' \in [Modules -> {"none", "pending", "fulfilled", "rejected"}]
              /\ \A n \in Modules : promise'[n] # "none" => promise[n] # "none" \/ n = m,
           req' = req, tla' = tla, root' = root, failed' = failed, body' = body,
           flagged' = flagged, stamp' = stamp, parents' = parents, gather' = gather, ready' = ready
    PROVE  WaitInv'
<1> SUFFICES ASSUME NEW n, n = Len(stack), NEW k, k = Len(frames) PROVE WaitInv'
  OBVIOUS
<1>1. WellPlaced /\ WellPlaced' /\ FactsHold /\ FactsHold'
  BY Places, PlacesThen, FactsNow, FactsThen
<1>0. m \notin OnStack
  <2>1. CASE turn = "evaluating"
    BY <2>1, Facts
  <2>2. CASE frames = <<>>
    BY <2>2, Resting DEF Inv
  <2> QED BY <2>1, <2>2
<1>2. /\ n \in Nat /\ k \in Nat /\ DOMAIN stack = 1..n /\ DOMAIN frames = 1..k
      /\ DOMAIN stack' = 1..(n + 1) /\ DOMAIN frames' = 1..(k + 1) /\ Len(frames') = k + 1
      /\ \A i \in 1..n : stack'[i] = stack[i]
      /\ stack'[n + 1] = [of |-> m, low |-> n + 1]
      /\ \A i \in 1..k : frames'[i] = frames[i]
      /\ frames'[k + 1] = [at |-> m, next |-> 1]
  BY <1>0, Entered
<1>3. /\ Begun' = Begun \cup {m} /\ Live' = Live \cup {m} /\ Unfinished' = Unfinished
      /\ m \notin ready /\ m \in Unfinished
      /\ \A x \in Modules : (Done(x)' <=> Done(x)) /\ (x # m => status'[x] = status[x])
                         /\ (status'[x] = "evaluated" <=> status[x] = "evaluated")
                         /\ (status'[x] = "async" <=> status[x] = "async")
  <2>1. status \in Statuses /\ ready \subseteq Begun
    BY DEF Inv, Types, Statuses, Reached
  <2>2. /\ m \notin ready /\ status[m] \notin {"evaluating", "async", "evaluated"}
        /\ \A x \in Modules : x # m => status'[x] = status[x]
        /\ status'[m] = "evaluating"
    BY <2>1 DEF Begun, Statuses
  <2>3. ready' = ready /\ tla' = tla
    OBVIOUS
  <2> QED BY <2>2, <2>3 DEF Begun, Live, Unfinished, Done
<1>4. /\ Elements(parents[m]) = {}
      /\ \A y \in Modules : Elements(parents[y])' = Elements(parents[y]) /\ m \notin Elements(parents[y])
                         /\ Elements(parents[y]) \subseteq Modules
      /\ Elements(gather)' = Elements(gather) /\ m \notin Elements(gather)
      /\ Elements(gather) \subseteq Modules
  <2>1. Elements(parents[m]) = {}
    BY WaitedFor
  <2>2. Elements(gather) \subseteq Begun
    BY Facts
  <2>3. \A y \in Modules : Elements(parents[y])' = Elements(parents[y])
    BY DEF Elements
  <2>4. Elements(gather)' = Elements(gather)
    BY DEF Elements
  <2>5. \A y \in Modules : Elements(parents[y]) \subseteq Begun
    BY <1>1 DEF FactsHold
  <2> QED BY <1>1, <2>1, <2>2, <2>3, <2>4, <2>5 DEF FactsHold
<1>5. /\ \A x \in OnStack : x \in OnStack' /\ Place(x)' = Place(x) /\ x # m /\ Place(x) \in 1..n
      /\ Place(m)' = n + 1 /\ m \in OnStack'
      /\ OnStack' = OnStack \cup {m} /\ Called' = Called \cup {m}
      /\ \A i \in 1..k : At(i)' = At(i) /\ At(i) \in 1..n
      /\ At(k + 1)' = n + 1
  BY <1>0, Entered
<1>6. MoreTypes'
  BY DEF WaitInv, MoreTypes
<1>7. Marked'
  <2>1. ready \subseteq Modules /\ OnStack \subseteq Modules /\ Called \subseteq OnStack
    BY Facts DEF Begun
  <2>2. /\ \A x \in Modules : failed[x] => status[x] = "evaluated"
        /\ \A x \in Modules : status[x] = "async" => flagged[x]
        /\ \A x \in Modules : body[x] = "running" => flagged[x] /\ (status[x] = "evaluated" => failed[x])
        /\ \A x \in Modules : status[x] = "evaluated" => failed[x] \/ body[x] = "done"
        /\ \A x \in ready : status[x] = "async" \/ failed[x]
    BY DEF WaitInv, Marked
  <2>3. \A x \in (OnStack \ Called)' : (flagged[x] \/ body[x] = "done") /\ (pending'[x] > 0 => flagged[x])
    <3>1. CASE turn = "evaluating"
      BY <1>5, <2>1, <3>1 DEF WaitInv, Marked
    <3>2. CASE frames = <<>>
      <4>1. OnStack = {} /\ Called = {}
        BY <3>2, Resting DEF Inv
      <4> QED BY <1>5, <4>1
    <3> QED BY <3>1, <3>2
  <2>4. gather' = <<>>
    BY DEF WaitInv, Marked
  <2>5. \A x \in Modules : x \notin Begun' => pending'[x] = 0
    <3>1. \A x \in Modules : x \notin Begun' => x # m /\ pending[x] = 0
      BY <1>3 DEF WaitInv, Marked
    <3> QED BY <3>1
  <2> QED BY <1>3, <2>1, <2>2, <2>3, <2>4, <2>5 DEF Marked
<1>8. Stamped'
  <2>1. LastStamp' = LastStamp
    BY DEF LastStamp
  <2>2. \A x \in Modules : stamp[x] > 0 => x \in Begun /\ x # m /\ x \notin Called
    <3>1. \A x \in Modules : stamp[x] > 0 => x \in Begun
      BY DEF WaitInv, Stamped
    <3>2. CASE turn = "evaluating"
      BY <3>1, <3>2 DEF WaitInv, Stamped
    <3>3. CASE frames = <<>>
      <4>1. Called = {}
        BY <3>3, Resting DEF Inv
      <4> QED BY <3>1, <4>1
    <3> QED BY <3>2, <3>3, <3>1
  <2>3. \A x \in Modules : stamp'[x] > 0 => x \in Begun' \ Called'
    BY <1>3, <1>5, <2>2
  <2> QED BY <1>4, <2>1, <2>3 DEF WaitInv, Stamped
<1>9. Rooted'
  <2>1. \A x \in Modules : Done(x) => root[x] \in Modules
    BY DEF Inv, Reached
  <2>2. \A x \in Modules : promise'[x] # "none" => (Done(x) /\ root[x] = x) \/ x = entry'
    BY DEF WaitInv, Rooted
  <2> QED BY <1>3, <2>1, <2>2 DEF WaitInv, Rooted
<1>10. Counted'
  <2> SUFFICES ASSUME NEW p \in Begun \cup {m}
               PROVE  Cardinality(Marks(Live', parents, p)) + Cardinality(Occurs(gather, p)) <= pending'[p]
    <3>1. \A p : Marks(Live, parents, p)' = Marks(Live', parents, p) /\ Occurs(gather, p)' = Occurs(gather, p)
      BY DEF Marks, Occurs
    <3> QED BY <1>3, <3>1 DEF Counted
  <2>1. parents \in [Modules -> Seq(Modules)] /\ gather \in Seq(Modules) /\ pending \in [Modules -> Int]
        /\ Live \in SUBSET Modules /\ Live' \in SUBSET Modules /\ Begun \subseteq Modules
    BY <1>3, Facts DEF Inv, Types, Live
  <2>2. Cardinality(Marks(Live', parents, p)) \in Nat /\ Cardinality(Marks(Live, parents, p)) \in Nat
        /\ Cardinality(Occurs(gather, p)) \in Nat
    BY <2>1, MarksFinite, OccursIn
  <2>3. CASE p = m
    <3>1. Cardinality(Occurs(gather, p)) = 0
      BY <1>4, <2>1, <2>3, OccursIn
    <3>2. Marks(Live', parents, p) = {}
      BY <1>3, <1>4, <2>1, <2>3 DEF Marks, Occurs, Elements
    <3>3. pending'[p] = 0
      BY <2>1, <2>3
    <3> QED BY <3>1, <3>2, <3>3, FS_EmptySet
  <2>4. CASE p # m
    <3>1. Cardinality(Marks(Live', parents, p)) <= Cardinality(Marks(Live, parents, p))
      BY <1>3, <1>4, <2>1, MarksFewer
    <3>2. Cardinality(Marks(Live, parents, p)) + Cardinality(Occurs(gather, p)) <= pending[p]
      BY <2>4 DEF WaitInv, Counted
    <3>3. pending'[p] = pending[p] /\ pending[p] \in Int
      BY <2>1, <2>4
    <3> QED BY <2>2, <3>1, <3>2, <3>3
  <2> QED BY <2>3, <2>4
<1>11. \A x \in Modules : \A y \in Condemned(x) : y \in Condemned(x)'
  <2> DEFINE E == {}
  <2>1. \A y \in Modules : Elements(parents[y]) \subseteq Elements(parents'[y])
    OBVIOUS
  <2>2. \A y \in Modules : Elements(parents[y]) \subseteq Modules
    BY <1>4
  <2>3. \A x \in Modules : status'[x] = "evaluated" => status[x] = "evaluated" \/ x \in E
    BY <1>3
  <2>4. E \in SUBSET Modules /\ \A y \in E : \A p \in Elements(parents[y]) : status[p] # "evaluated" => p \in E
    OBVIOUS
  <2>5. \A x : x \notin E
    OBVIOUS
  <2> HIDE DEF E
  <2> QED BY <2>1, <2>2, <2>3, <2>4, <2>5, CondemnsStill
<1>12. Waiting'
  <2>1. \A p \in Modules : Told(p)' <=> Told(p)
    BY <1>3 DEF Told
  <2>2. \A y \in Unfinished' : \A p \in Elements(parents[y])' : Told(p)'
    BY <1>3, <1>4, <2>1 DEF WaitInv, Waiting, Unfinished
  <2>3. \A p \in Elements(gather)' : Told(p)'
    BY <1>4, <2>1 DEF WaitInv, Waiting
  <2>4. \A x \in Modules : status'[x] = "async" => failed'[root'[x]] \/ root'[x] \in Condemned(x)'
    BY <1>3, <1>11 DEF WaitInv, Waiting
  <2> QED BY <2>2, <2>3, <2>4 DEF Waiting
<1>13. ASSUME NEW i \in 1..(k + 1), NEW b \in 1..(n + 1), Owns(i, b)'
       PROVE  i \in 1..k /\ b \in 1..n /\ Owns(i, b) /\ turn = "evaluating"
  <2>1. i \in 1..k /\ b \in 1..n /\ Owns(i, b)
    BY <1>0, <1>13, EnteredOwns
  <2>2. k # 0
    BY <1>2, <2>1
  <2> QED BY <2>1, <2>2
<1>14. Walk'
  <2>1. \A x \in OnStack : stack'[Place(x)] = stack[Place(x)] /\ Place(x) \in 1..n
    BY <1>2, <1>5
  <2>2. ASSUME NEW i \in 1..(k + 1), NEW b \in 1..(n + 1), Owns(i, b)', flagged'[stack'[b].of]
        PROVE  frames'[i].at \in Condemned(stack[b].of)'
    <3>1. i \in 1..k /\ b \in 1..n /\ Owns(i, b) /\ turn = "evaluating" /\ Request \notin OnStack
      BY <1>0, <1>2, <1>13, <2>2
    <3>2. PICK x \in Modules : x = stack[b].of
      BY <1>1, <1>2, <3>1 DEF WellPlaced
    <3>3. frames'[i] = frames[i] /\ stack'[b] = stack[b]
      BY <1>2, <3>1
    <3>4. frames[i].at \in Condemned(x)
      BY <1>2, <2>2, <3>1, <3>2, <3>3 DEF WaitInv, Walk
    <3>5. frames[i].at \in Condemned(x)'
      BY <1>11, <3>4
    <3> QED BY <3>2, <3>3, <3>5
  <2>5. ASSUME NEW y \in OnStack', NEW p \in Elements(parents[y])', status'[p] # "evaluated"
        PROVE  p \in OnStack' /\ stack'[Place(p)'].low <= Place(y)'
    <3>1. y \in OnStack /\ p \in Elements(parents[y]) /\ p \in Modules /\ y \in Modules
      BY <1>1, <1>4, <1>5, <2>5 DEF FactsHold
    <3>2. turn = "evaluating"
      <4>1. CASE frames = <<>>
        <5>1. OnStack = {}
          BY <4>1, Resting DEF Inv
        <5> QED BY <3>1, <5>1
      <4> QED BY <4>1
    <3>3. p \in OnStack /\ stack[Place(p)].low <= Place(y)
      BY <1>3, <2>5, <3>1, <3>2 DEF WaitInv, Walk
    <3> QED BY <1>5, <2>1, <3>1, <3>3
  <2> HIDE <1>1
  <2>6. \A i \in DOMAIN frames' : \A b \in DOMAIN stack' : Owns(i, b)' /\ flagged'[stack'[b].of] =>
             frames'[i].at \in Condemned(stack[b].of)'
    BY <1>2, <2>2
  <2>7. \A y \in OnStack' : \A p \in Elements(parents[y])' : status'[p] # "evaluated" =>
             p \in OnStack' /\ stack'[Place(p)'].low <= Place(y)'
    BY <2>5
  <2> QED BY <2>6, <2>7 DEF Walk
<1>16. Ordered'
  <2> SUFFICES ASSUME NEW x \in Begun', ~failed'[x], NEW d \in Dealt(x)'
               PROVE  Stays(x, d)' \/ InCycle(x, d)' \/ Settled(d)' \/ WaitsFor(x, d)'
    BY DEF Ordered
  <2>1. x \in Modules /\ x \in Begun \cup {m}
    BY <1>1, <1>3 DEF FactsHold
  <2>2. PICK j \in DOMAIN req[x] : d = req[x][j] /\ \A i \in DOMAIN frames' : frames'[i].at = x => j < frames'[i].next
    BY DEF Dealt
  <2>3. x # m
    <3>1. ASSUME x = m PROVE FALSE
      <4>1. k + 1 \in DOMAIN frames' /\ frames'[k + 1].at = x /\ frames'[k + 1].next = 1
        BY <1>2, <3>1
      <4>2. j < 1
        BY <2>2, <4>1
      <4>3. DOMAIN req[x] = 1..Len(req[x]) /\ Len(req[x]) \in Nat
        BY <1>1, <2>1, LenProperties DEF FactsHold
      <4> QED BY <4>2, <4>3
    <3> QED BY <3>1
  <2>4. d \in Dealt(x)
    <3>1. \A i \in DOMAIN frames : i \in DOMAIN frames' /\ frames'[i] = frames[i]
      BY <1>2
    <3> QED BY <2>2, <3>1 DEF Dealt
  <2>5. Stays(x, d) \/ InCycle(x, d) \/ Settled(d) \/ WaitsFor(x, d)
    BY <2>1, <2>3, <2>4 DEF WaitInv, Ordered
  <2>6. d \in Modules
    BY <2>1, <2>4, DealtWith
  <2>7. Stays(x, d) => Stays(x, d)'
    <3> SUFFICES ASSUME Stays(x, d) PROVE Stays(x, d)'
      OBVIOUS
    <3>1. x \in OnStack /\ d \in OnStack /\ x \in Graph(d) /\ stack[Place(x)].low <= Place(d)
          /\ \A c \in Called : Place(c) > Place(x) => Place(d) < Place(c)
      BY DEF Stays
    <3>2. x \in OnStack' /\ d \in OnStack' /\ Place(x)' = Place(x) /\ Place(d)' = Place(d)
          /\ Place(x) \in 1..n /\ Place(d) \in 1..n
      BY <1>5, <3>1
    <3>3. stack'[Place(x)] = stack[Place(x)]
      BY <1>2, <3>2
    <3>4. ASSUME NEW c \in Called', Place(c)' > Place(x)' PROVE Place(d)' < Place(c)'
      <4>1. CASE c = m
        BY <1>2, <1>5, <3>2, <4>1
      <4>2. CASE c # m
        <5>1. c \in Called /\ c \in OnStack
          BY <1>1, <1>5, <4>2 DEF FactsHold
        <5> QED BY <1>5, <3>1, <3>2, <3>4, <5>1
      <4> QED BY <4>1, <4>2
    <3>5. x \in Graph(d)'
      BY <3>1, GraphStays
    <3> QED BY <3>1, <3>2, <3>3, <3>4, <3>5 DEF Stays
  <2>8. InCycle(x, d) => InCycle(x, d)'
    BY <1>3, <2>1, <2>6, GraphStays DEF InCycle
  <2>9. Settled(d) => Settled(d)'
    BY <1>3, <2>6, RootStands DEF Settled
  <2>10. WaitsFor(x, d) => WaitsFor(x, d)'
    <3>1. Done(d) => root[d] \in Modules
      BY <2>6 DEF Inv, Reached
    <3>2. Elements(parents[root[d]])' = Elements(parents[root[d]])
      BY DEF Elements
    <3> QED BY <1>3, <2>6, <3>1, <3>2 DEF WaitsFor
  <2> QED BY <2>5, <2>7, <2>8, <2>9, <2>10
<1>17. Outcome'
  <2>1. \A x : Graph(x)' = Graph(x)
    BY GraphStays
  <2> QED BY <1>3, <1>4, <2>1 DEF WaitInv, Outcome
<1> QED BY <1>6, <1>7, <1>8, <1>9, <1>10, <1>12, <1>14, <1>16, <1>17 DEF WaitInv

LEMMA EvaluateRequestWaits == ASSUME Inv, TreeInv, WaitInv, EvaluateRequest PROVE WaitInv'
<1>1. Inv'
  BY EvaluateRequestKeeps
<1>2. Request \in Modules /\ ~AllRequested /\ turn = "evaluating" /\ status[Request] = "linked"
  BY RequestLinked DEF EvaluateRequest
<1>3. PICK m \in Modules : m = Request
  BY <1>2
<1>4. m \notin Begun
  BY <1>2, <1>3 DEF Begun
<1>5. /\ Push(m) /\ status' = [status EXCEPT ![m] = "evaluating"] /\ pending' = [pending EXCEPT ![m] = 0]
      /\ turn' = "evaluating" /\ entry' = entry /\ promise' = promise
      /\ req' = req /\ tla' = tla /\ root' = root /\ failed' = failed /\ body' = body
      /\ flagged' = flagged /\ stamp' = stamp /\ parents' = parents
      /\ gather' = gather /\ ready' = ready
  BY <1>2, <1>3 DEF EvaluateRequest, graph, lists
<1> QED BY <1>1, <1>2, <1>3, <1>4, <1>5, EnterKeeps

LEMMA EvaluateWaits == ASSUME Inv, TreeInv, WaitInv, Evaluate PROVE WaitInv'
<1>1. CASE ~Unevaluated
  BY <1>1, AnswerWaits
<1>2. CASE Unevaluated
  <2>1. Inv'
    BY EvaluateKeeps
  <2>2. PICK m \in Modules : m = Evaluated
    BY EvaluatedLinked
  <2>3. status[m] = "linked" /\ m \notin Begun
    BY <1>2, <2>2, EvaluatedLinked DEF Begun
  <2>4. turn # "evaluating" /\ frames = <<>> /\ gather = <<>>
    BY DEF Evaluate, WaitInv, Marked
  <2>5. /\ Push(m) /\ status' = [status EXCEPT ![m] = "evaluating"] /\ pending' = [pending EXCEPT ![m] = 0]
        /\ turn' = "evaluating" /\ entry' = m
        /\ promise' = IF promise[m] # "none" THEN promise
                      ELSE [promise EXCEPT ![m] =
                             IF Done(m) /\ failed[m] THEN "rejected"
                             ELSE IF Done(m) /\ ~flagged[m] THEN "fulfilled"
                             ELSE "pending"]
        /\ req' = req /\ tla' = tla /\ root' = root /\ failed' = failed /\ body' = body
        /\ flagged' = flagged /\ stamp' = stamp /\ parents' = parents
        /\ gather' = gather /\ ready' = ready
    BY <1>2, <2>2 DEF Evaluate, graph, lists
  <2>6. promise' \in [Modules -> {"none", "pending", "fulfilled", "rejected"}]
        /\ \A n \in Modules : promise'[n] # "none" => promise[n] # "none" \/ n = m
    BY <2>5 DEF WaitInv, MoreTypes
  <2> QED BY <2>1, <2>3, <2>4, <2>5, <2>6, EnterKeeps
<1> QED BY <1>1, <1>2

\* After a step, too, what m condemns is closed.
CondemnsAll ==
    \A m \in Modules :
        /\ m \in Condemned(m)
        /\ \A y \in Condemned(m) : \A p \in Elements(parents[y]) :
               p \in Modules /\ status[p] # "evaluated" => p \in Condemned(m)

LEMMA CondemnsNow == CondemnsAll
BY Condemns DEF CondemnsAll

LEMMA CondemnsThen == CondemnsAll'
BY CondemnsNow, PTL

\* What is waited for, of a request that is not to be evaluated now.
LEMMA AwaitedIs ==
    ASSUME Inv, TreeInv, WaitInv, turn = "evaluating", ~AllRequested, status[Request] # "linked", ~RequestFailed
    PROVE  /\ Awaited \in Modules /\ Awaited \in Graph(Frame.at)
           /\ Awaited \in OnStack => Awaited = Request
           /\ status[Request] = "evaluating" => Awaited = Request
           /\ status[Request] # "evaluating" =>
                  Done(Request) /\ Awaited = root[Request] /\ ~failed[Request] /\ ~failed[root[Request]]
<1>1. /\ Request \in Modules /\ Frame.at \in Modules /\ Request \in Graph(Frame.at)
      /\ Request \in OnStack <=> status[Request] = "evaluating"
      /\ Request \in OnStack \/ Done(Request)
  BY RequestLinked, Requested
<1>2. CASE status[Request] = "evaluating"
  BY <1>1, <1>2 DEF Awaited
<1>3. CASE status[Request] # "evaluating"
  <2>1. Done(Request) /\ Awaited = root[Request] /\ ~failed[Request] /\ ~failed[root[Request]]
    BY <1>1, <1>3 DEF Awaited, RequestFailed
  <2>2. root[Request] \in Modules /\ Done(root[Request]) /\ root[Request] \in Graph(Request)
    BY <1>1, <2>1 DEF Inv, Reached, WaitInv, Rooted, Outcome
  <2>3. root[Request] \notin OnStack
    BY <2>2, Facts
  <2>4. root[Request] \in Graph(Frame.at)
    BY <1>1, <2>2, GraphOn
  <2> QED BY <1>3, <2>1, <2>2, <2>3, <2>4
<1> QED BY <1>2, <1>3

LEMMA RequestEvaluatedWaits == ASSUME Inv, TreeInv, WaitInv, RequestEvaluated PROVE WaitInv'
<1> SUFFICES ASSUME NEW n, n = Len(stack), NEW k, k = Len(frames),
                    NEW f, f = Frame.at, NEW r, r = Request, NEW a, a = Awaited
             PROVE WaitInv'
  OBVIOUS
<1>1. Inv'
  BY RequestEvaluatedKeeps
<1>2. turn = "evaluating" /\ ~AllRequested /\ status[r] # "linked" /\ ~RequestFailed
  BY DEF RequestEvaluated
<1>3. /\ frames # <<>> /\ f \in OnStack /\ f \in Modules /\ f \in Called /\ status[f] = "evaluating"
      /\ r \in Modules /\ (r \in OnStack <=> status[r] = "evaluating")
      /\ r \in Elements(req[f])
  BY <1>2, RequestLinked, Requested
<1>4. /\ a \in Modules /\ a \in Graph(f)
      /\ a \in OnStack => a = r
      /\ status[r] = "evaluating" => a = r
      /\ status[r] # "evaluating" => Done(r) /\ a = root[r] /\ ~failed[r] /\ ~failed[root[r]]
  BY <1>2, AwaitedIs
<1>5. /\ frames' = Advanced
      /\ stack' = stack \/ (Request \in OnStack /\ Meet(Request))
      /\ status[r] = "evaluating" => Meet(Request)
  BY <1>2, <1>3 DEF RequestEvaluated
<1>6. /\ n \in Nat /\ k \in Nat \ {0} /\ DOMAIN stack = 1..n /\ DOMAIN frames = 1..k
      /\ DOMAIN stack' = 1..n /\ DOMAIN frames' = 1..k /\ Len(frames') = k
      /\ \A i \in 1..k : frames'[i].at = frames[i].at
      /\ \A i \in 1..k : frames'[i].next = IF i = k THEN frames[i].next + 1 ELSE frames[i].next
      /\ At(k) \in 1..n /\ At(k) = Place(f) /\ frames[k] = Frame
      /\ \A b \in 1..n : stack'[b].of = stack[b].of /\ (b # At(k) => stack'[b] = stack[b])
      /\ stack'[At(k)].low =
           IF stack' = stack THEN stack[At(k)].low
           ELSE Earlier(stack[At(k)].low, stack[Place(r)].low)
      /\ OnStack' = OnStack /\ Called' = Called
      /\ \A x \in OnStack : Place(x)' = Place(x) /\ Place(x) \in 1..n
      /\ \A i \in 1..k : At(i)' = At(i) /\ At(i) \in 1..n
      /\ \A i \in 1..k : \A b \in 1..n : Owns(i, b)' <=> Owns(i, b)
  BY <1>1, <1>2, <1>3, <1>5, Advances
<1>7. /\ turn' = turn /\ entry' = entry /\ promise' = promise /\ status' = status
      /\ req' = req /\ tla' = tla /\ root' = root /\ failed' = failed /\ body' = body
      /\ flagged' = flagged /\ stamp' = stamp /\ gather' = gather /\ ready' = ready
  BY DEF RequestEvaluated, graph, results, lists
<1>8. \/ ~flagged[a] /\ parents' = parents /\ pending' = pending
      \/ /\ flagged[a] /\ parents' = [parents EXCEPT ![a] = Append(parents[a], f)]
         /\ pending' = [pending EXCEPT ![f] = pending[f] + 1]
  BY DEF RequestEvaluated, Await
<1>9. WellPlaced /\ WellPlaced' /\ FactsHold /\ FactsHold'
  BY <1>1, Places, PlacesThen, FactsNow, FactsThen
<1>10. /\ parents \in [Modules -> Seq(Modules)] /\ pending \in [Modules -> Int]
       /\ gather \in Seq(Modules) /\ Live \subseteq Modules /\ flagged \in [Modules -> BOOLEAN]
       /\ stamp \in [Modules -> Nat]
  BY DEF Inv, Types, Live, WaitInv, MoreTypes
<1>11. /\ \A y \in Modules : \A p : p \in Elements(parents'[y]) <=>
             p \in Elements(parents[y]) \/ (y = a /\ p = f /\ flagged[a])
       /\ \A y \in Modules : Elements(parents[y])' = Elements(parents'[y])
  <2>1. \A y \in Modules : parents[y] \in Seq(Modules)
    BY <1>10
  <2>2. Elements(Append(parents[a], f)) = Elements(parents[a]) \cup {f}
    BY <1>3, <1>4, <2>1, ElementsOf
  <2>3. \A y \in Modules : Elements(parents[y])' = Elements(parents'[y])
    BY DEF Elements
  <2>4. CASE flagged[a]
    <3>1. \A y \in Modules : parents'[y] = IF y = a THEN Append(parents[a], f) ELSE parents[y]
      BY <1>4, <1>8, <1>10, <2>4
    <3> QED BY <2>2, <2>3, <2>4, <3>1
  <2>5. CASE ~flagged[a]
    BY <1>8, <2>3, <2>5
  <2> QED BY <2>4, <2>5
<1>12. \A y \in Modules : Elements(parents[y]) \subseteq Modules
  BY Facts
<1>13. /\ Begun' = Begun /\ Unfinished' = Unfinished /\ Live' = Live
       /\ \A x \in Modules : (Done(x)' <=> Done(x)) /\ (Told(x)' <=> Told(x))
       /\ f \in Begun
  BY <1>3, <1>7 DEF Begun, Unfinished, Live, Done, Told
<1>14. \A x \in Modules : \A y \in Condemned(x) : y \in Condemned(x)'
  <2> DEFINE E == {}
  <2>1. \A y \in Modules : Elements(parents[y]) \subseteq Elements(parents'[y])
    BY <1>11
  <2>2. \A x \in Modules : status'[x] = "evaluated" => status[x] = "evaluated" \/ x \in E
    BY <1>7
  <2>3. E \in SUBSET Modules /\ \A y \in E : \A p \in Elements(parents[y]) : status[p] # "evaluated" => p \in E
    OBVIOUS
  <2>4. \A x : x \notin E
    OBVIOUS
  <2> HIDE DEF E
  <2> QED BY <1>12, <2>1, <2>2, <2>3, <2>4, CondemnsStill
<1>15. MoreTypes'
  BY <1>7 DEF WaitInv, MoreTypes
<1>16. Marked'
  <2>1. \A x \in Modules : x # f => pending'[x] = pending[x]
    BY <1>3, <1>8, <1>10
  <2>2. \A x \in OnStack \ Called : x \in Modules /\ x # f
    BY <1>3, <1>9 DEF FactsHold
  <2>3. \A x \in Modules : x \notin Begun => x # f
    BY <1>13
  <2>4. ready \subseteq Modules
    BY Facts
  <2>5. \A x \in (OnStack \ Called)' : (flagged'[x] \/ body'[x] = "done") /\ (pending'[x] > 0 => flagged'[x])
    BY <1>2, <1>6, <1>7, <2>1, <2>2 DEF WaitInv, Marked
  <2>6. \A x \in Modules : x \notin Begun' => pending'[x] = 0
    BY <1>13, <2>1, <2>3 DEF WaitInv, Marked
  <2> QED BY <1>7, <2>4, <2>5, <2>6 DEF WaitInv, Marked
<1>17. Stamped'
  <2>1. LastStamp' = LastStamp
    BY <1>7 DEF LastStamp
  <2>2. ~(stamp[f] > 0)
    BY <1>2, <1>3 DEF WaitInv, Stamped
  <2>3. flagged[a] => stamp[a] > 0
    BY <1>4 DEF WaitInv, Stamped
  <2>4. \A y \in Modules : \A p \in Elements(parents'[y]) : stamp[y] > 0 /\ (stamp[p] > 0 => stamp[y] < stamp[p])
    BY <1>11, <2>2, <2>3 DEF WaitInv, Stamped
  <2>5. \A y \in Modules : \A p \in Elements(parents[y])' : stamp'[y] > 0 /\ (stamp'[p] > 0 => stamp'[y] < stamp'[p])
    BY <1>7, <1>11, <2>4
  <2>6. \A x \in Modules : stamp'[x] > 0 => x \in Begun' \ (IF turn' = "evaluating" THEN Called' ELSE {})
    BY <1>6, <1>7, <1>13 DEF WaitInv, Stamped
  <2>7. \A x \in Modules : (flagged'[x] => stamp'[x] > 0) /\ stamp'[x] <= LastStamp'
    BY <1>7, <2>1 DEF WaitInv, Stamped
  <2> QED BY <2>5, <2>6, <2>7 DEF Stamped
<1>18. Rooted'
  BY <1>7, <1>13 DEF WaitInv, Rooted, Done
<1>19. Counted'
  <2> SUFFICES ASSUME NEW p \in Begun
               PROVE  Cardinality(Marks(Live, parents', p)) + Cardinality(Occurs(gather, p)) <= pending'[p]
    <3>1. \A p : Marks(Live, parents, p)' = Marks(Live, parents', p) /\ Occurs(gather, p)' = Occurs(gather, p)
      BY <1>7, <1>13 DEF Marks, Occurs
    <3> QED BY <1>13, <3>1 DEF Counted
  <2>1. Cardinality(Marks(Live, parents, p)) \in Nat /\ Cardinality(Occurs(gather, p)) \in Nat
    BY <1>10, MarksFinite, OccursIn
  <2>2. Cardinality(Marks(Live, parents, p)) + Cardinality(Occurs(gather, p)) <= pending[p]
    BY DEF WaitInv, Counted
  <2>3. p \in Modules
    BY DEF Begun
  <2>4. CASE flagged[a]
    <3>1. parents' = [parents EXCEPT ![a] = Append(parents[a], f)] /\ pending' = [pending EXCEPT ![f] = pending[f] + 1]
      BY <1>8, <2>4
    <3>2. Cardinality(Marks(Live, parents', p)) <= Cardinality(Marks(Live, parents, p)) + (IF p = f THEN 1 ELSE 0)
      BY <1>3, <1>4, <1>10, <3>1, MarksMore
    <3>3. parents' \in [Modules -> Seq(Modules)]
      BY <1>1 DEF Inv, Types
    <3>4. Cardinality(Marks(Live, parents', p)) \in Nat
      BY <1>10, <3>3, MarksFinite
    <3>5. pending'[p] = IF p = f THEN pending[p] + 1 ELSE pending[p]
      BY <1>3, <1>10, <2>3, <3>1
    <3>6. pending[p] \in Int
      BY <1>10, <2>3
    <3> QED BY <2>1, <2>2, <3>2, <3>4, <3>5, <3>6
  <2>5. CASE ~flagged[a]
    BY <1>8, <2>2, <2>5
  <2> QED BY <2>4, <2>5
<1>20. Waiting'
  <2>1. Told(f)
    BY <1>3 DEF Told
  <2>2. \A y \in Unfinished : \A p \in Elements(parents'[y]) : Told(p) /\ p \in Modules /\ y \in Modules
    BY <1>3, <1>11, <1>12, <2>1 DEF WaitInv, Waiting, Unfinished
  <2>3. \A y \in Unfinished' : \A p \in Elements(parents[y])' : Told(p)'
    BY <1>11, <1>13, <2>2
  <2>4. Elements(gather)' = Elements(gather) /\ Elements(gather) \subseteq Modules
    BY <1>7, Facts DEF Elements
  <2>5. \A p \in Elements(gather)' : Told(p)'
    BY <1>13, <2>4 DEF WaitInv, Waiting
  <2>6. \A x \in Modules : status'[x] = "async" => failed'[root'[x]] \/ root'[x] \in Condemned(x)'
    BY <1>7, <1>14 DEF WaitInv, Waiting
  <2> QED BY <2>3, <2>5, <2>6 DEF Waiting
<1>21. stack'[At(k)].low <= stack[At(k)].low
       /\ (status[r] = "evaluating" => stack'[At(k)].low <= stack[Place(r)].low)
       /\ stack[At(k)].low \in Nat /\ stack'[At(k)].low \in Nat
       /\ \A b \in 1..n : stack'[b].low <= stack[b].low /\ stack[b].low \in Nat /\ stack'[b].low \in Nat
  <2>1. /\ \A b \in 1..n : stack[b].low \in Nat /\ stack'[b].low \in Nat /\ stack[b].low <= stack[b].low
        /\ r \in OnStack => Place(r) \in 1..n
    BY <1>6, <1>9 DEF WellPlaced
  <2>2. CASE stack' # stack
    <3>1. r \in OnStack
      BY <1>5, <2>2
    <3>2. stack'[At(k)].low = Earlier(stack[At(k)].low, stack[Place(r)].low)
      BY <1>6, <2>2
    <3>3. stack[At(k)].low \in Nat /\ stack[Place(r)].low \in Nat
      BY <1>6, <2>1, <3>1
    <3>4. stack'[At(k)].low <= stack[At(k)].low /\ stack'[At(k)].low <= stack[Place(r)].low
      BY <3>2, <3>3 DEF Earlier
    <3> QED BY <1>6, <2>1, <3>4
  <2>3. CASE stack' = stack
    <3>1. ASSUME status[r] = "evaluating" PROVE stack'[At(k)].low <= stack[Place(r)].low
      <4>1. stack' = [stack EXCEPT ![Place(Frame.at)].low = Earlier(@, stack[Place(r)].low)]
        BY <1>5, <3>1 DEF Meet
      <4>2. Place(r) \in 1..n /\ At(k) = Place(Frame.at) /\ At(k) \in DOMAIN stack
        BY <1>3, <1>6, <3>1
      <4>3. stack[At(k)] \in PlaceFor
        BY <4>2, Listed DEF Inv
      <4>4. stack'[At(k)].low = Earlier(stack[At(k)].low, stack[Place(r)].low)
        BY <4>1, <4>2, <4>3 DEF PlaceFor
      <4>5. stack[At(k)].low \in Nat /\ stack[Place(r)].low \in Nat
        BY <1>6, <2>1, <4>2
      <4> QED BY <4>4, <4>5 DEF Earlier
    <3> QED BY <1>6, <2>1, <2>3, <3>1
  <2> QED BY <2>2, <2>3
<1>22. Walk'
  <2>1. ASSUME NEW i \in 1..k, NEW b \in 1..n, Owns(i, b)', flagged'[stack'[b].of]
        PROVE  frames'[i].at \in Condemned(stack[b].of)'
    <3>1. Owns(i, b) /\ i \in DOMAIN frames /\ b \in DOMAIN stack
      BY <1>6, <2>1
    <3>2. PICK x \in Modules : x = stack[b].of
      BY <1>9, <3>1 DEF WellPlaced
    <3>3. x = stack'[b].of /\ flagged[x] /\ frames'[i].at = frames[i].at
      BY <1>6, <1>7, <2>1, <3>2
    <3>4. frames[i].at \in Condemned(x) \/ (i = k /\ r \in OnStack /\ flagged[r] /\ r \in Condemned(x))
      BY <1>2, <3>1, <3>2, <3>3 DEF WaitInv, Walk
    <3>5. CASE i = k /\ r \in OnStack /\ flagged[r] /\ r \in Condemned(x)
      <4>1. r \in Condemned(x)' /\ a = r
        BY <1>3, <1>4, <1>14, <3>5
      <4>2. f \in Elements(parents[r])' /\ status'[f] # "evaluated"
        BY <1>3, <1>4, <1>7, <1>11, <3>5, <4>1
      <4>3. f \in Condemned(x)'
        BY <1>3, <4>1, <4>2, CondemnsThen DEF CondemnsAll
      <4>4. frames'[i].at = f
        BY <1>6, <3>3, <3>5
      <4> QED BY <3>3, <4>3, <4>4
    <3>6. CASE frames[i].at \in Condemned(x)
      BY <1>14, <3>3, <3>6
    <3> QED BY <3>4, <3>5, <3>6
  <2>2. ASSUME NEW y \in OnStack, NEW p \in Elements(parents'[y]), status[p] # "evaluated"
        PROVE  p \in OnStack /\ stack'[Place(p)].low <= Place(y)
    <3>1. y \in Modules
      BY <1>9 DEF FactsHold
    <3>2. CASE p \in Elements(parents[y])
      <4>1. p \in OnStack /\ stack[Place(p)].low <= Place(y)
        BY <1>2, <2>2, <3>2 DEF WaitInv, Walk
      <4>2. Place(p) \in 1..n /\ Place(y) \in 1..n
        BY <1>6, <4>1
      <4>3. stack'[Place(p)].low <= stack[Place(p)].low /\ stack[Place(p)].low \in Nat /\ stack'[Place(p)].low \in Nat
        BY <1>21, <4>2
      <4> QED BY <4>1, <4>2, <4>3
    <3>3. CASE y = a /\ p = f
      <4>1. y = r /\ status[r] = "evaluating" /\ Place(y) \in 1..n
        BY <1>3, <1>4, <1>6, <3>3
      <4>2. stack'[At(k)].low <= stack[Place(r)].low /\ stack'[At(k)].low \in Nat
        BY <1>21, <4>1
      <4>3. stack[Place(r)].low <= Place(r) /\ stack[Place(r)].low \in Nat
        <5>1. Place(r) \in DOMAIN stack
          BY <1>6, <4>1
        <5> QED BY <1>9, <5>1 DEF WellPlaced
      <4>4. Place(p) = At(k) /\ p \in OnStack
        BY <1>3, <1>6, <3>3
      <4> QED BY <4>1, <4>2, <4>3, <4>4
    <3> QED BY <1>11, <3>1, <3>2, <3>3
  <2>3. \A y \in OnStack' : \A p \in Elements(parents[y])' : status'[p] # "evaluated" =>
             p \in OnStack' /\ stack'[Place(p)'].low <= Place(y)'
    <3>1. \A y \in OnStack : y \in Modules
      BY <1>9 DEF FactsHold
    <3> QED BY <1>6, <1>7, <1>11, <2>2, <3>1
  <2>4. \A i \in DOMAIN frames' : \A b \in DOMAIN stack' : Owns(i, b)' /\ flagged'[stack'[b].of] =>
             frames'[i].at \in Condemned(stack[b].of)'
    BY <1>6, <2>1
  <2> HIDE <1>1, <1>6, <1>9
  <2> QED BY <2>3, <2>4 DEF Walk
<1>23. Ordered'
  <2> SUFFICES ASSUME NEW x \in Begun, ~failed[x], NEW d \in Dealt(x)'
               PROVE  Stays(x, d)' \/ InCycle(x, d)' \/ Settled(d)' \/ WaitsFor(x, d)'
    BY <1>7, <1>13 DEF Ordered
  <2>1. x \in Modules
    BY DEF Begun
  <2>2. d \in Dealt(x) \/ (x = f /\ d = r)
    <3>1. PICK j \in DOMAIN req[x] : d = req[x][j] /\ \A i \in DOMAIN frames' : frames'[i].at = x => j < frames'[i].next
      BY <1>7 DEF Dealt
    <3>2. CASE d \notin Dealt(x)
      <4>1. PICK i \in 1..k : frames[i].at = x /\ ~(j < frames[i].next)
        BY <1>6, <3>1, <3>2 DEF Dealt
      <4>2. j < frames'[i].next
        BY <1>6, <3>1, <4>1
      <4>3. i = k
        BY <1>6, <4>1, <4>2
      <4>4. frames[k].next \in Nat /\ frames'[k].next = frames[k].next + 1
        <5>1. k \in DOMAIN frames
          BY <1>6
        <5> QED BY <1>6, <1>9, <5>1 DEF WellPlaced
      <4>5. j \in Nat
        BY <1>9, <2>1, LenProperties DEF FactsHold
      <4>6. j = frames[k].next
        BY <4>1, <4>2, <4>3, <4>4, <4>5
      <4>7. frames[k].at = x
        BY <4>1, <4>3
      <4>8. x = f
        BY <1>6, <4>7
      <4>9. j = Frame.next
        BY <1>6, <4>6
      <4> QED BY <3>1, <4>8, <4>9 DEF Request
    <3> QED BY <3>2
  <2>3. d \in Modules
    BY <1>3, <2>1, <2>2, DealtWith
  <2>4. ASSUME Stays(x, d) PROVE Stays(x, d)'
    <3>1. x \in OnStack /\ d \in OnStack /\ x \in Graph(d) /\ stack[Place(x)].low <= Place(d)
          /\ \A c \in Called : Place(c) > Place(x) => Place(d) < Place(c)
      BY <2>4 DEF Stays
    <3>2. Place(x) \in 1..n /\ Place(d) \in 1..n /\ Place(x)' = Place(x) /\ Place(d)' = Place(d)
          /\ x \in OnStack' /\ d \in OnStack'
      BY <1>6, <3>1
    <3>3. stack'[Place(x)].low <= stack[Place(x)].low /\ stack[Place(x)].low \in Nat /\ stack'[Place(x)].low \in Nat
      BY <1>21, <3>2
    <3>4. stack'[Place(x)].low <= Place(d)
      BY <3>1, <3>2, <3>3
    <3>5. \A c \in Called' : Place(c)' > Place(x)' => Place(d)' < Place(c)'
      <4>1. \A c \in Called : c \in OnStack
        BY <1>9 DEF FactsHold
      <4> QED BY <1>6, <3>1, <3>2, <4>1
    <3>6. x \in Graph(d)'
      BY <1>7, <3>1, GraphStays
    <3> HIDE <1>1, <1>6, <1>9
    <3> QED BY <3>2, <3>4, <3>5, <3>6 DEF Stays
  <2>5. InCycle(x, d) => InCycle(x, d)'
    BY <1>7, <1>13, <2>1, <2>3, GraphStays DEF InCycle
  <2>6. Settled(d) => Settled(d)'
    BY <1>7, <1>13, <2>3 DEF Settled
  <2>7. WaitsFor(x, d) => WaitsFor(x, d)'
    <3>1. Done(d) => root[d] \in Modules
      BY <2>3 DEF Inv, Reached
    <3> QED BY <1>7, <1>11, <1>13, <2>3, <3>1 DEF WaitsFor
  <2>8. CASE d \in Dealt(x)
    BY <2>4, <2>5, <2>6, <2>7, <2>8 DEF WaitInv, Ordered
  <2>9. CASE x = f /\ d = r /\ status[r] = "evaluating"
    <3>1. f \in OnStack' /\ r \in OnStack' /\ Place(f)' = Place(f) /\ Place(r)' = Place(r)
          /\ Place(r) \in 1..n /\ r \in OnStack /\ At(k) = Place(f)
      BY <1>3, <1>6, <2>9
    <3>2. f \in Graph(r)
      BY <1>3, <3>1, ReachesCall DEF TreeInv
    <3>3. f \in Graph(r)'
      BY <1>7, <3>2, GraphStays
    <3>4. stack'[At(k)].low <= Place(r)
      <4>1. stack'[At(k)].low <= stack[Place(r)].low /\ stack'[At(k)].low \in Nat
        BY <1>21, <2>9
      <4>2. Place(r) \in DOMAIN stack
        BY <1>6, <3>1
      <4>3. stack[Place(r)].low <= Place(r) /\ stack[Place(r)].low \in Nat
        BY <1>9, <4>2 DEF WellPlaced
      <4> QED BY <3>1, <4>1, <4>3
    <3>5. ASSUME NEW c \in Called', Place(c)' > Place(f)' PROVE FALSE
      <4>1. c \in Called /\ c \in OnStack
        BY <1>6, <1>9 DEF FactsHold
      <4>2. PICK i \in 1..k : frames[i].at = c
        BY <1>6, <4>1 DEF Called
      <4>3. At(i) = Place(c)
        BY <4>2 DEF At
      <4>4. i < k => At(i) < At(k)
        BY <1>6, <1>9, <4>2 DEF WellPlaced
      <4>5. i = k => At(i) = At(k)
        OBVIOUS
      <4>6. Place(c) > Place(f)
        BY <1>6, <3>1, <3>5, <4>1
      <4>7. At(i) \in 1..n /\ At(k) \in 1..n
        BY <1>6, <4>2
      <4>8. i < k \/ i = k
        BY <1>6, <4>2
      <4> QED BY <3>1, <4>3, <4>4, <4>5, <4>6, <4>7, <4>8
    <3> HIDE <1>1, <1>6, <1>9
    <3>6. Stays(f, r)'
      BY <3>1, <3>3, <3>4, <3>5 DEF Stays
    <3> QED BY <2>9, <3>6
  <2>10. CASE x = f /\ d = r /\ status[r] # "evaluating"
    <3>1. Done(r) /\ a = root[r] /\ ~failed[r] /\ ~failed[root[r]]
      BY <1>4, <2>10
    <3>2. /\ root[r] \in Modules
          /\ status[root[r]] # "evaluated" => status[root[r]] = "async" /\ flagged[root[r]]
      BY <1>3, <3>1, RootStands
    <3>3. CASE status[root[r]] = "evaluated"
      <4>1. Settled(r)
        BY <3>1, <3>3 DEF Settled
      <4> QED BY <2>6, <2>10, <4>1
    <3>4. CASE status[root[r]] # "evaluated"
      <4>1. f \in Elements(parents[root[r]])'
        BY <1>7, <1>11, <3>1, <3>2, <3>4
      <4>2. WaitsFor(f, r)'
        BY <1>3, <1>7, <1>13, <3>1, <3>2, <3>4, <4>1 DEF WaitsFor
      <4> QED BY <2>10, <4>2
    <3> QED BY <3>3, <3>4
  <2> QED BY <2>2, <2>8, <2>9, <2>10
<1>24. Outcome'
  <2>1. \A m : Graph(m)' = Graph(m)
    BY <1>7, GraphStays
  <2>2. \A y \in Modules : \A p \in Elements(parents[y])' : y \in Graph(p)
    BY <1>4, <1>11 DEF WaitInv, Outcome
  <2> QED BY <1>7, <1>13, <2>1, <2>2 DEF WaitInv, Outcome
<1> QED BY <1>15, <1>16, <1>17, <1>18, <1>19, <1>20, <1>22, <1>23, <1>24 DEF WaitInv

\* Some unfinished modules fail, and with each those that wait for it: all that is
\* on the stack, or what a body that throws condemns.
LEMMA FailKeeps ==
    ASSUME Inv, WaitInv, Inv', NEW E \in SUBSET (Begun \cap Unfinished),
           \A y \in E : \A p \in Elements(parents[y]) : status[p] # "evaluated" => p \in E,
           \A x \in Modules : status'[x] = IF x \in E THEN "evaluated" ELSE status[x],
           \A x \in Modules : failed'[x] <=> failed[x] \/ x \in E,
           \A x \in Modules : Done(x) => root'[x] = root[x],
           \A x \in E : ~Done(x) => root'[x] \in E /\ root'[root'[x]] = root'[x],
           \A x \in Modules : body'[x] = body[x] \/ (x \in E /\ body'[x] = "threw"),
           \A x \in E : \E d \in Graph(x) : body'[d] = "threw",
           \A x \in Modules : promise'[x] # "none" => promise[x] # "none" \/ (turn = "evaluating" /\ x = entry),
           turn = "evaluating" => root'[entry] = entry /\ entry \in E,
           promise' \in [Modules -> {"none", "pending", "fulfilled", "rejected"}],
           failed' \in [Modules -> BOOLEAN],
           turn' # "evaluating", frames' = <<>>, OnStack \subseteq E,
           ready' \subseteq ready, ready \ ready' \subseteq E, gather = <<>>, gather' = <<>>,
           req' = req, tla' = tla, flagged' = flagged, stamp' = stamp, pending' = pending, parents' = parents
    PROVE  WaitInv'
<1>1. E \subseteq Modules /\ E \subseteq Begun /\ \A x \in E : status[x] # "evaluated"
  BY DEF Unfinished
<1>2. /\ Begun' = Begun
      /\ \A x \in Modules : (Done(x)' <=> Done(x) \/ x \in E) /\ (status'[x] = "async" <=> status[x] = "async" /\ x \notin E)
      /\ \A x \in Modules : status'[x] \in {"async", "evaluated"} <=> Done(x) \/ x \in E
      /\ Live' \subseteq Live /\ Live' \subseteq Modules /\ Live \subseteq Modules
      /\ Unfinished' = Unfinished \ E
  <2>1. ready \subseteq Modules
    BY Facts
  <2> QED BY <1>1, <2>1 DEF Begun, Done, Live, Unfinished
<1>3. /\ Called \subseteq OnStack /\ \A y \in Modules : Elements(parents[y]) \subseteq Modules
      /\ parents \in [Modules -> Seq(Modules)] /\ pending \in [Modules -> Int]
  BY Facts DEF Inv, Types
<1>4. /\ \A y \in Modules : Elements(parents[y])' = Elements(parents[y])
      /\ Elements(gather)' = {} /\ Elements(gather) = {}
  BY DEF Elements
<1>5. \A x \in E : failed'[x] /\ root'[x] \in Modules /\ status'[root'[x]] \in {"async", "evaluated"}
                   /\ root'[root'[x]] = root'[x] /\ failed'[root'[x]]
  <2> SUFFICES ASSUME NEW x \in E
               PROVE  failed'[x] /\ root'[x] \in Modules /\ status'[root'[x]] \in {"async", "evaluated"}
                      /\ root'[root'[x]] = root'[x] /\ failed'[root'[x]]
    OBVIOUS
  <2>1. CASE ~Done(x)
    BY <1>1, <1>2, <2>1
  <2>2. CASE Done(x)
    <3>1. root[x] \in Modules /\ Done(root[x]) /\ root[root[x]] = root[x] /\ root'[x] = root[x]
      BY <1>1, <2>2 DEF Inv, Reached, WaitInv, Rooted
    <3>2. root'[root'[x]] = root'[x]
      BY <3>1
    <3>3. status[x] = "async"
      BY <1>1, <2>2 DEF Done
    <3>4. CASE failed[root[x]]
      BY <1>1, <1>2, <3>1, <3>2, <3>4
    <3>5. CASE root[x] \in Condemned(x)
      <4>1. Condemned(x) \subseteq E
        <5>1. E \in SUBSET Modules
          BY <1>1
        <5> QED BY <5>1, CondemnsLeast
      <4> QED BY <1>1, <1>2, <3>1, <3>2, <3>5, <4>1
    <3> QED BY <1>1, <3>3, <3>4, <3>5 DEF WaitInv, Waiting
  <2> QED BY <2>1, <2>2
<1>6. MoreTypes'
  BY DEF WaitInv, MoreTypes
<1>7. Marked'
  <2>1. \A x \in Modules : failed'[x] => status'[x] = "evaluated"
    BY DEF WaitInv, Marked
  <2>2. \A x \in Modules : status'[x] = "async" => flagged'[x]
    BY <1>2 DEF WaitInv, Marked
  <2>3. \A x \in Modules : body'[x] = "running" => flagged'[x] /\ (status'[x] = "evaluated" => failed'[x])
    BY DEF WaitInv, Marked
  <2>4. \A x \in Modules : status'[x] = "evaluated" => failed'[x] \/ body'[x] = "done"
    BY DEF WaitInv, Marked
  <2>5. \A x \in ready' : status'[x] = "async" \/ failed'[x]
    <3>1. ready \subseteq Modules
      BY Facts
    <3> QED BY <1>2, <3>1 DEF WaitInv, Marked
  <2>6. \A x \in Modules : x \notin Begun' => pending'[x] = 0
    BY <1>2 DEF WaitInv, Marked
  <2> QED BY <2>1, <2>2, <2>3, <2>4, <2>5, <2>6 DEF Marked
<1>8. Stamped'
  <2>1. LastStamp' = LastStamp
    BY DEF LastStamp
  <2> QED BY <1>2, <1>4, <2>1 DEF WaitInv, Stamped
<1>9. Rooted'
  <2>1. ASSUME NEW x \in Modules, Done(x)'
        PROVE  status'[root'[x]] \in {"async", "evaluated"} /\ root'[root'[x]] = root'[x] /\ (failed'[x] => failed'[root'[x]])
    <3>1. CASE x \in E
      BY <1>5, <3>1
    <3>2. CASE x \notin E
      <4>1. Done(x) /\ root'[x] = root[x] /\ root[x] \in Modules /\ Done(root[x]) /\ root[root[x]] = root[x]
        BY <1>2, <2>1, <3>2 DEF Inv, Reached, WaitInv, Rooted
      <4>2. root'[root[x]] = root[x]
        BY <4>1
      <4>3. failed'[x] => failed'[root[x]]
        BY <3>2, <4>1 DEF WaitInv, Rooted
      <4> QED BY <1>2, <4>1, <4>2, <4>3
    <3> QED BY <3>1, <3>2
  <2>2. \A x \in Modules : failed'[x] => Done(x)'
    BY <1>2 DEF WaitInv, Marked, Done
  <2>3. \A x \in Modules : promise'[x] # "none" => Done(x)' /\ root'[x] = x
    <3> SUFFICES ASSUME NEW x \in Modules, promise'[x] # "none" PROVE Done(x)' /\ root'[x] = x
      OBVIOUS
    <3>1. (Done(x) /\ root[x] = x) \/ (turn = "evaluating" /\ x = entry)
      BY DEF WaitInv, Rooted
    <3> QED BY <1>2, <3>1
  <2>4. \A x \in Modules : Done(x)' => Done(root[x])' /\ root'[root'[x]] = root'[x]
    BY <2>1 DEF Done
  <2>5. \A x \in Modules : failed'[x] => failed'[root'[x]]
    BY <2>1, <2>2
  <2> QED BY <2>3, <2>4, <2>5 DEF Rooted
<1>10. Counted'
  <2> SUFFICES ASSUME NEW p \in Begun
               PROVE  Cardinality(Marks(Live', parents, p)) + Cardinality(Occurs(gather, p)) <= pending[p]
    <3>1. \A p : Marks(Live, parents, p)' = Marks(Live', parents, p) /\ Occurs(gather, p)' = Occurs(gather, p)
      BY DEF Marks, Occurs
    <3> QED BY <1>2, <3>1 DEF Counted
  <2>1. Cardinality(Marks(Live', parents, p)) <= Cardinality(Marks(Live, parents, p))
    BY <1>2, <1>3, MarksFewer
  <2>2. /\ Cardinality(Marks(Live', parents, p)) \in Nat /\ Cardinality(Marks(Live, parents, p)) \in Nat
        /\ Cardinality(Occurs(gather, p)) \in Nat
    <3>1. gather \in Seq(Modules)
      OBVIOUS
    <3> QED BY <1>2, <1>3, <3>1, MarksFinite, OccursIn
  <2>3. Cardinality(Marks(Live, parents, p)) + Cardinality(Occurs(gather, p)) <= pending[p]
        /\ pending[p] \in Int
    BY <1>3 DEF WaitInv, Counted, Begun
  <2> QED BY <2>1, <2>2, <2>3
<1>11. Waiting'
  <2>1. \A p \in Modules : Told(p) => Told(p)'
    <3> SUFFICES ASSUME NEW p \in Modules, Told(p), status'[p] = "evaluated"
                 PROVE  failed'[p] /\ failed'[root'[p]]
      BY DEF Told
    <3>1. CASE p \in E
      BY <1>5, <3>1
    <3>2. CASE p \notin E
      <4>1. status[p] = "evaluated" /\ Done(p)
        BY <3>2 DEF Done
      <4>2. failed[p] /\ failed[root[p]] /\ root'[p] = root[p] /\ root[p] \in Modules
        BY <4>1 DEF Told, Inv, Reached
      <4> QED BY <4>2
    <3> QED BY <3>1, <3>2
  <2>2. \A y \in Unfinished' : \A p \in Elements(parents[y])' : Told(p)'
    <3>1. Unfinished' \subseteq Unfinished /\ Unfinished \subseteq Modules
      BY <1>2 DEF Unfinished
    <3> QED BY <1>3, <1>4, <2>1, <3>1 DEF WaitInv, Waiting
  <2>3. ASSUME NEW x \in Modules, status'[x] = "async"
        PROVE  failed'[root'[x]] \/ root'[x] \in Condemned(x)'
    <3>1. status[x] = "async" /\ Done(x) /\ root'[x] = root[x] /\ root[x] \in Modules
      BY <1>2, <2>3 DEF Done, Inv, Reached
    <3>2. failed[root[x]] \/ root[x] \in Condemned(x)
      BY <3>1 DEF WaitInv, Waiting
    <3>3. \A y \in Condemned(x) : y \in E \/ y \in Condemned(x)'
      <4>1. E \in SUBSET Modules
        BY <1>1
      <4>2. \A y \in Modules : Elements(parents[y]) \subseteq Elements(parents'[y])
        OBVIOUS
      <4>3. \A y \in Modules : status'[y] = "evaluated" => status[y] = "evaluated" \/ y \in E
        OBVIOUS
      <4> QED BY <1>3, <4>1, <4>2, <4>3, CondemnsStill
    <3> QED BY <3>1, <3>2, <3>3
  <2> QED BY <1>4, <2>2, <2>3 DEF Waiting
<1>12. Walk'
  BY DEF Walk
<1>13. Ordered'
  <2> SUFFICES ASSUME NEW x \in Begun, ~failed'[x], NEW d \in Dealt(x)'
               PROVE  InCycle(x, d)' \/ Settled(d)' \/ WaitsFor(x, d)'
    BY <1>2 DEF Ordered
  <2>1. x \in Modules /\ x \notin E /\ ~failed[x] /\ x \notin OnStack /\ x \notin Called
    BY <1>3 DEF Begun
  <2>2. Dealt(x)' = Elements(req[x]) /\ Dealt(x) = Elements(req[x])
    <3>1. DOMAIN frames' = {}
      OBVIOUS
    <3>2. Dealt(x)' = Elements(req[x])
      BY <3>1 DEF Dealt, Elements
    <3> QED BY <2>1, <3>2, DealtWith
  <2>3. InCycle(x, d) \/ Settled(d) \/ WaitsFor(x, d)
    BY <2>1, <2>2 DEF WaitInv, Ordered, Stays
  <2>4. d \in Modules /\ (Done(d) => root'[d] = root[d] /\ root[d] \in Modules /\ Done(d)')
    BY <1>2, <2>1, <2>2, Facts DEF Inv, Reached
  <2>5. InCycle(x, d) => InCycle(x, d)'
    <3>1. Done(x) => root'[x] = root[x] /\ Done(x)'
      BY <1>2, <2>1
    <3> QED BY <2>4, <3>1, GraphStays DEF InCycle
  <2>6. ASSUME Settled(d) PROVE Settled(d)'
    <3>1. Done(d) /\ ~failed[d] /\ status[root[d]] = "evaluated" /\ ~failed[root[d]]
      BY <2>6 DEF Settled
    <3>2. status[d] = "evaluated"
      BY <2>4, <3>1, RootStands
    <3>3. d \notin E /\ root[d] \notin E
      BY <1>1, <3>1, <3>2
    <3> QED BY <2>4, <3>1, <3>3 DEF Settled
  <2>7. ASSUME WaitsFor(x, d) PROVE WaitsFor(x, d)'
    <3>1. Done(d) /\ status[root[d]] = "async" /\ x \in Elements(parents[root[d]])
      BY <2>7 DEF WaitsFor
    <3>2. Told(x)
      BY <2>4, <3>1 DEF WaitInv, Waiting, Unfinished
    <3>3. status[x] # "evaluated"
      BY <2>1, <3>2 DEF Told
    <3>4. root[d] \notin E
      BY <2>1, <3>1, <3>3
    <3> QED BY <2>4, <3>1, <3>4 DEF WaitsFor, Elements
  <2> QED BY <2>3, <2>5, <2>6, <2>7
<1>14. Outcome'
  <2>1. \A x : Graph(x)' = Graph(x)
    BY GraphStays
  <2>2. ASSUME NEW x \in Modules, failed'[x] PROVE \E d \in Graph(x) : body'[d] = "threw"
    <3>1. CASE failed[x]
      <4>1. PICK d \in Graph(x) : body[d] = "threw"
        BY <3>1 DEF WaitInv, Outcome
      <4>2. d \in Modules
        BY GraphOn
      <4> QED BY <4>1, <4>2
    <3> QED BY <2>2, <3>1
  <2>3. \A x \in Modules : Done(x)' /\ ~failed'[x] => root'[x] \in Graph(x)
    BY <1>2 DEF WaitInv, Outcome
  <2>4. \A y \in Modules : \A p \in Elements(parents[y])' : y \in Graph(p)
    BY <1>4 DEF WaitInv, Outcome
  <2> QED BY <2>1, <2>2, <2>3, <2>4 DEF Outcome
<1> QED BY <1>6, <1>7, <1>8, <1>9, <1>10, <1>11, <1>12, <1>13, <1>14 DEF WaitInv

\* The evaluation that is going on fails.
LEMMA AbandonWaits ==
    ASSUME Inv, TreeInv, WaitInv, Inv', turn = "evaluating", Abandon,
           req' = req, tla' = tla, flagged' = flagged, stamp' = stamp, pending' = pending,
           parents' = parents, gather' = gather, ready' = ready,
           \A x \in Modules : body'[x] = body[x] \/ (x \in OnStack /\ body'[x] = "threw"),
           \E d \in Graph(Frame.at) : body'[d] = "threw"
    PROVE  WaitInv'
<1> DEFINE E == OnStack
<1>1. frames # <<>> /\ Frame.at \in Modules
  BY RequestLinked
<1>2. E \in SUBSET (Begun \cap Unfinished)
  <2>1. \A x \in Modules : x \in OnStack <=> status[x] = "evaluating"
    BY DEF Inv, Stacked, OnStackAsTheyShould
  <2>2. OnStack \subseteq Modules
    BY Facts
  <2> QED BY <2>1, <2>2 DEF Begun, Unfinished
<1>3. \A y \in E : \A p \in Elements(parents[y]) : status[p] # "evaluated" => p \in E
  BY DEF WaitInv, Walk
<1>4. /\ status' = [x \in Modules |-> IF x \in E THEN "evaluated" ELSE status[x]]
      /\ failed' = [x \in Modules |-> failed[x] \/ x \in E]
      /\ root' = [x \in Modules |-> IF x \in E THEN entry ELSE root[x]]
      /\ promise' = [promise EXCEPT ![entry] = "rejected"]
      /\ frames' = <<>> /\ turn' = "idle"
  BY DEF Abandon
<1>5. entry \in E /\ entry \in Modules
  <2>1. entry \in Modules /\ frames[1].at = entry
    BY <1>1 DEF Inv, Stacked, CallsFollowStack, TreeInv, Linked
  <2>2. 1 \in DOMAIN frames
    BY <1>1, Listed DEF Inv
  <2> QED BY <2>1, <2>2, Places DEF WellPlaced
<1>6. \A x \in E : x \in Modules /\ ~Done(x)
  BY Facts
<1>7. \A x \in E : \E d \in Graph(x) : body'[d] = "threw"
  <2> SUFFICES ASSUME NEW x \in E PROVE \E d \in Graph(x) : body'[d] = "threw"
    OBVIOUS
  <2>1. Frame.at \in Graph(x)
    BY <1>1, ReachesCall DEF TreeInv
  <2>2. Graph(Frame.at) \subseteq Graph(x)
    BY <1>6, <2>1, GraphOn
  <2> QED BY <2>2
<1>8. promise' \in [Modules -> {"none", "pending", "fulfilled", "rejected"}]
      /\ \A x \in Modules : promise'[x] # "none" => promise[x] # "none" \/ (turn = "evaluating" /\ x = entry)
  BY <1>4 DEF WaitInv, MoreTypes
<1>9. failed' \in [Modules -> BOOLEAN] /\ (\A x \in Modules : failed'[x] <=> failed[x] \/ x \in E)
  BY <1>4 DEF WaitInv, MoreTypes
<1>10. gather = <<>> /\ gather' = <<>>
  BY DEF WaitInv, Marked
<1>11. /\ \A x \in Modules : status'[x] = IF x \in E THEN "evaluated" ELSE status[x]
       /\ \A x \in Modules : Done(x) => root'[x] = root[x]
       /\ \A x \in E : ~Done(x) => root'[x] \in E /\ root'[root'[x]] = root'[x]
       /\ root'[entry] = entry
  BY <1>4, <1>5, <1>6
<1>12. OnStack \subseteq E
  OBVIOUS
<1>13. \A x \in Modules : body'[x] = body[x] \/ (x \in E /\ body'[x] = "threw")
  OBVIOUS
<1> HIDE DEF E
<1> QED BY <1>2, <1>3, <1>4, <1>5, <1>7, <1>8, <1>9, <1>10, <1>11, <1>12, <1>13, FailKeeps

LEMMA RequestFailsWaits == ASSUME Inv, TreeInv, WaitInv, RequestFails PROVE WaitInv'
<1>1. Inv'
  BY RequestFailsKeeps
<1>2. turn = "evaluating" /\ ~AllRequested /\ RequestFailed /\ Abandon /\ body' = body
      /\ req' = req /\ tla' = tla /\ flagged' = flagged /\ stamp' = stamp /\ pending' = pending
      /\ parents' = parents /\ gather' = gather /\ ready' = ready
  BY DEF RequestFails, graph, waits, lists
<1>3. PICK r \in Modules : r = Request
  BY <1>2, RequestLinked
<1>4. r \in Graph(Frame.at) /\ Frame.at \in Modules
  BY <1>2, <1>3, RequestLinked, Requested
<1>5. Done(r) /\ (failed[r] \/ failed[root[r]]) /\ root[r] \in Modules
  BY <1>2, <1>3 DEF RequestFailed, Inv, Reached
<1>6. \E d \in Graph(r) : body[d] = "threw"
  <2>1. CASE failed[r]
    BY <2>1 DEF WaitInv, Outcome
  <2>2. CASE ~failed[r]
    <3>1. root[r] \in Graph(r) /\ failed[root[r]]
      BY <1>5, <2>2 DEF WaitInv, Outcome
    <3>2. Graph(root[r]) \subseteq Graph(r)
      BY <3>1, GraphOn
    <3>3. \E d \in Graph(root[r]) : body[d] = "threw"
      BY <1>5, <3>1 DEF WaitInv, Outcome
    <3> QED BY <3>2, <3>3
  <2> QED BY <2>1, <2>2
<1>7. \E d \in Graph(Frame.at) : body'[d] = "threw"
  BY <1>2, <1>4, <1>6, GraphOn
<1> QED BY <1>1, <1>2, <1>7, AbandonWaits

LEMMA ThrowsWaits == ASSUME Inv, TreeInv, WaitInv, Throws PROVE WaitInv'
<1>1. Inv'
  BY ThrowsKeeps
<1>2. turn = "evaluating" /\ Abandon /\ body' = [body EXCEPT ![Frame.at] = "threw"]
      /\ req' = req /\ tla' = tla /\ flagged' = flagged /\ stamp' = stamp /\ pending' = pending
      /\ parents' = parents /\ gather' = gather /\ ready' = ready
  BY DEF Throws, graph, waits, lists
<1>3. Frame.at \in OnStack /\ Frame.at \in Modules /\ Frame.at \in Graph(Frame.at)
  BY <1>2, RequestLinked, GraphOn
<1>4. \A x \in Modules : body'[x] = body[x] \/ (x \in OnStack /\ body'[x] = "threw")
  BY <1>2, <1>3 DEF Inv, Types
<1>5. \E d \in Graph(Frame.at) : body'[d] = "threw"
  BY <1>2, <1>3 DEF Inv, Types
<1> QED BY <1>1, <1>2, <1>4, <1>5, AbandonWaits

-----------------------------------------------------------------------------
(* Modules that complete after their evaluation.                           *)

\* What waits for m has m in its graph.
LEMMA CondemnsAncestors ==
    ASSUME Inv, Outcome, NEW m \in Modules
    PROVE  \A x \in Condemned(m) : x \in Modules /\ m \in Graph(x)
<1> DEFINE S == {x \in Modules : m \in Graph(x)}
<1>1. m \in S /\ S \in SUBSET Modules
  BY GraphOn
<1>2. ASSUME NEW y \in S, NEW p \in Elements(parents[y]) PROVE p \in S
  <2>1. p \in Modules
    BY Facts
  <2>2. y \in Graph(p)
    BY DEF Outcome
  <2> QED BY <2>1, <2>2, GraphOn
<1> HIDE DEF S
<1>3. Condemned(m) \subseteq S
  BY <1>1, <1>2, CondemnsLeast
<1> QED BY <1>3 DEF S

\* A body throws, and what waits for it fails with it.
LEMMA RejectWaits ==
    ASSUME Inv, WaitInv, Inv', turn \in {"idle", "running"}, turn' = turn, NEW m \in Modules,
           status[m] # "evaluated", m \in Begun, Reject(m), body' = [body EXCEPT ![m] = "threw"],
           calls' = calls, root' = root, req' = req, tla' = tla, flagged' = flagged, stamp' = stamp,
           pending' = pending, parents' = parents, gather' = gather, ready' = ready \ {m}
    PROVE  WaitInv'
<1> DEFINE E == Condemned(m)
<1>1. m \in E /\ E \subseteq Modules
      /\ \A y \in E : \A p \in Elements(parents[y]) : status[p] # "evaluated" => p \in E
  BY Condemns, Facts
<1>2. frames = <<>> /\ stack = <<>> /\ gather = <<>> /\ turn # "evaluating"
  <2>1. frames = <<>>
    BY NoCall
  <2> QED BY <2>1, Resting DEF Inv, WaitInv, Marked
<1>3. E \in SUBSET (Begun \cap Unfinished)
  <2>1. \A y \in Modules : Elements(parents[y]) \subseteq Modules
    BY Facts
  <2>2. Condemned(m) \subseteq Unfinished \cup {m}
    BY <2>1, CondemnsUnfinished
  <2>3. \A x \in Condemned(m) : x \in Begun
    BY <1>2, CondemnedWait DEF Done, Begun
  <2> QED BY <2>2, <2>3 DEF Unfinished
<1>4. \A x \in E : Done(x)
  BY <1>2, CondemnedWait
<1>5. /\ status' = [x \in Modules |-> IF x \in E THEN "evaluated" ELSE status[x]]
      /\ failed' = [x \in Modules |-> failed[x] \/ x \in E]
      /\ promise' = [x \in Modules |-> IF x \in E /\ promise[x] # "none" THEN "rejected" ELSE promise[x]]
  BY DEF Reject
<1>6. \A x \in E : \E d \in Graph(x) : body'[d] = "threw"
  <2>1. \A x \in E : m \in Graph(x)
    BY CondemnsAncestors DEF WaitInv
  <2>2. body'[m] = "threw"
    BY DEF Inv, Types
  <2> QED BY <2>1, <2>2
<1>7. promise' \in [Modules -> {"none", "pending", "fulfilled", "rejected"}]
      /\ \A x \in Modules : promise'[x] # "none" => promise[x] # "none"
  BY <1>5 DEF WaitInv, MoreTypes
<1>8. failed' \in [Modules -> BOOLEAN] /\ (\A x \in Modules : failed'[x] <=> failed[x] \/ x \in E)
  BY <1>5 DEF WaitInv, MoreTypes
<1>9. \A x \in Modules : status'[x] = IF x \in E THEN "evaluated" ELSE status[x]
  BY <1>5
<1>10. \A x \in Modules : body'[x] = body[x] \/ (x \in E /\ body'[x] = "threw")
  BY <1>1 DEF Inv, Types
<1>11. OnStack \subseteq E
  BY <1>2 DEF OnStack
<1>12. frames' = <<>> /\ gather' = <<>> /\ turn' # "evaluating" /\ ready' \subseteq ready /\ ready \ ready' \subseteq E
  BY <1>1, <1>2 DEF calls
<1> HIDE DEF E
<1> QED BY <1>1, <1>2, <1>3, <1>4, <1>6, <1>7, <1>8, <1>9, <1>10, <1>11, <1>12, FailKeeps

\* A module that nothing unfinished waits for completes.
LEMMA CompleteKeeps ==
    ASSUME Inv, WaitInv, Inv', turn \in {"idle", "running"}, turn' \in {"gathering", "running"},
           NEW m \in Modules, status[m] = "async", body[m] # "threw",
           \A y \in Unfinished : m \notin Elements(parents[y]),
           SetEvaluated(m), body' = [body EXCEPT ![m] = "done"],
           calls' = calls, root' = root, req' = req, tla' = tla, stamp' = stamp,
           pending' = pending, parents' = parents, ready' = ready \ {m},
           \/ /\ flagged' = [flagged EXCEPT ![m] = FALSE]
              /\ m \notin ready /\ gather' = parents[m] /\ turn' = "gathering"
           \/ flagged' = flagged /\ gather' = gather /\ m \in ready /\ ~tla[m]
    PROVE  WaitInv'
<1>1. frames = <<>> /\ stack = <<>> /\ gather = <<>> /\ turn # "evaluating" /\ turn' # "evaluating"
      /\ OnStack = {} /\ Called = {} /\ frames' = <<>>
  <2>1. frames = <<>>
    BY NoCall
  <2> QED BY <2>1, Resting DEF Inv, WaitInv, Marked, calls, OnStack, Called
<1>2. /\ \A x \in Modules : status'[x] = IF x = m THEN "evaluated" ELSE status[x]
      /\ failed' = failed /\ ~failed[m]
      /\ \A x \in Modules : body'[x] = IF x = m THEN "done" ELSE body[x]
      /\ promise' \in [Modules -> {"none", "pending", "fulfilled", "rejected"}]
      /\ \A x \in Modules : promise'[x] # "none" => promise[x] # "none"
      /\ flagged' \in [Modules -> BOOLEAN]
      /\ \A x \in Modules : x # m => flagged'[x] = flagged[x]
      /\ \A x \in Modules : flagged'[x] => flagged[x]
  <2>1. status \in Statuses /\ body \in [Modules -> {"new", "running", "done", "threw"}]
        /\ promise \in [Modules -> {"none", "pending", "fulfilled", "rejected"}]
        /\ flagged \in [Modules -> BOOLEAN]
    BY DEF Inv, Types, Statuses, WaitInv, MoreTypes
  <2>2. /\ status' = [status EXCEPT ![m] = "evaluated"] /\ failed' = failed
        /\ promise' = [promise EXCEPT ![m] = IF @ = "none" THEN @ ELSE "fulfilled"]
    BY DEF SetEvaluated
  <2>3. \A x \in Modules : status'[x] = IF x = m THEN "evaluated" ELSE status[x]
    BY <2>1, <2>2 DEF Statuses
  <2>4. ~failed[m]
    BY DEF WaitInv, Marked
  <2>5. \A x \in Modules : body'[x] = IF x = m THEN "done" ELSE body[x]
    BY <2>1
  <2>6. promise' \in [Modules -> {"none", "pending", "fulfilled", "rejected"}]
        /\ \A x \in Modules : promise'[x] # "none" => promise[x] # "none"
    BY <2>1, <2>2
  <2>7. flagged' = [flagged EXCEPT ![m] = FALSE] \/ flagged' = flagged
    OBVIOUS
  <2>8. /\ flagged' \in [Modules -> BOOLEAN]
        /\ \A x \in Modules : x # m => flagged'[x] = flagged[x]
        /\ \A x \in Modules : flagged'[x] => flagged[x]
    BY <2>1, <2>7
  <2> QED BY <2>2, <2>3, <2>4, <2>5, <2>6, <2>8
<1>3. /\ Begun' = Begun /\ Unfinished' = Unfinished \ {m} /\ m \in Begun /\ m \in Unfinished
      /\ \A x \in Modules : (Done(x)' <=> Done(x)) /\ (status'[x] = "async" <=> status[x] = "async" /\ x # m)
      /\ Live \subseteq Modules /\ Live' = Live \ {m} /\ Live' \subseteq Modules
      /\ (m \in Live \/ gather' = gather)
  <2>1. Begun' = Begun /\ Unfinished' = Unfinished \ {m} /\ m \in Begun /\ m \in Unfinished
        /\ \A x \in Modules : (Done(x)' <=> Done(x)) /\ (status'[x] = "async" <=> status[x] = "async" /\ x # m)
    BY <1>2 DEF Begun, Unfinished, Done
  <2>2. Live' = Live \ {m}
    BY <1>2 DEF Live
  <2>3. m \in Live \/ gather' = gather
    BY DEF Live
  <2> QED BY <2>1, <2>2, <2>3 DEF Live
<1>4. /\ \A y \in Modules : Elements(parents[y])' = Elements(parents[y])
      /\ \A y \in Modules : Elements(parents[y]) \subseteq Modules
      /\ parents \in [Modules -> Seq(Modules)] /\ pending \in [Modules -> Int]
      /\ Elements(gather)' \subseteq Elements(parents[m])
  <2>1. gather' = parents[m] \/ gather' = <<>>
    BY <1>1
  <2>2. Elements(gather)' = Elements(gather')
    BY DEF Elements
  <2>3. Elements(<<>>) = {}
    BY DEF Elements
  <2> QED BY <2>1, <2>2, <2>3, Facts DEF Inv, Types, Elements
<1>5. MoreTypes'
  BY <1>2 DEF WaitInv, MoreTypes
<1>6. Marked'
  <2>1. ready' \subseteq Modules /\ m \notin ready'
    BY Facts
  <2>2. \A x \in Modules : failed'[x] => status'[x] = "evaluated"
    BY <1>2 DEF WaitInv, Marked
  <2>3. \A x \in Modules : status'[x] = "async" => flagged'[x]
    BY <1>2, <1>3 DEF WaitInv, Marked
  <2>4. \A x \in Modules : body'[x] = "running" => flagged'[x] /\ (status'[x] = "evaluated" => failed'[x])
    BY <1>2 DEF WaitInv, Marked
  <2>5. \A x \in Modules : status'[x] = "evaluated" => failed'[x] \/ body'[x] = "done"
    BY <1>2 DEF WaitInv, Marked
  <2>6. \A x \in ready' : status'[x] = "async" \/ failed'[x]
    BY <1>2, <2>1 DEF WaitInv, Marked
  <2>7. gather' # <<>> => turn' = "gathering"
    BY <1>1
  <2>8. \A x \in Modules : x \notin Begun' => pending'[x] = 0
    BY <1>3 DEF WaitInv, Marked
  <2> QED BY <1>1, <2>2, <2>3, <2>4, <2>5, <2>6, <2>7, <2>8 DEF Marked
<1>7. Stamped'
  <2>1. LastStamp' = LastStamp
    BY DEF LastStamp
  <2> QED BY <1>1, <1>2, <1>3, <1>4, <2>1 DEF WaitInv, Stamped
<1>8. Rooted'
  <2>1. \A x \in Modules : Done(x) => root[x] \in Modules
    BY DEF Inv, Reached
  <2> QED BY <1>1, <1>2, <1>3, <2>1 DEF WaitInv, Rooted
<1>9. Counted'
  <2> SUFFICES ASSUME NEW p \in Begun
               PROVE  Cardinality(Marks(Live', parents, p)) + Cardinality(Occurs(gather', p)) <= pending[p]
    <3>1. \A p : Marks(Live, parents, p)' = Marks(Live', parents, p) /\ Occurs(gather, p)' = Occurs(gather', p)
      BY DEF Marks, Occurs
    <3> QED BY <1>3, <3>1 DEF Counted
  <2>1. Cardinality(Marks(Live, parents, p)) + Cardinality(Occurs(gather, p)) <= pending[p]
        /\ pending[p] \in Int
    BY <1>4 DEF WaitInv, Counted, Begun
  <2>2. Live \in SUBSET Modules /\ Live' \in SUBSET Modules
    BY <1>3
  <2>3. gather' \in Seq(Modules) /\ gather \in Seq(Modules)
    BY DEF Inv, Types
  <2>4. /\ Cardinality(Marks(Live', parents, p)) \in Nat /\ Cardinality(Marks(Live, parents, p)) \in Nat
        /\ Cardinality(Occurs(gather, p)) \in Nat /\ Cardinality(Occurs(gather', p)) \in Nat
    BY <1>4, <2>2, <2>3, MarksFinite, OccursIn
  <2>5. CASE m \in Live /\ gather' = parents[m]
    <3>1. Cardinality(Marks(Live \ {m}, parents, p)) + Cardinality(Occurs(parents[m], p))
               <= Cardinality(Marks(Live, parents, p))
      BY <1>4, <2>2, <2>5, MarksReleased
    <3>2. Live' = Live \ {m}
      BY <1>3
    <3> QED BY <2>1, <2>4, <2>5, <3>1, <3>2
  <2>6. CASE gather' = gather
    <3>1. Cardinality(Marks(Live', parents, p)) <= Cardinality(Marks(Live, parents, p))
      BY <1>3, <1>4, <2>2, MarksFewer
    <3> QED BY <2>1, <2>4, <2>6, <3>1
  <2> QED BY <1>3, <2>5, <2>6
<1>10. Waiting'
  <2>1. \A p \in Modules : p # m => (Told(p)' <=> Told(p))
    BY <1>2 DEF Told
  <2>2. \A y \in Unfinished : \A p \in Elements(parents[y]) : p # m /\ p \in Modules /\ y \in Modules /\ Told(p)
    BY <1>4 DEF WaitInv, Waiting, Unfinished
  <2>3. \A y \in Unfinished' : \A p \in Elements(parents[y])' : Told(p)'
    BY <1>3, <1>4, <2>1, <2>2
  <2>4. \A p \in Elements(gather)' : Told(p)'
    BY <1>3, <1>4, <2>1, <2>2
  <2>5. ASSUME NEW x \in Modules, status'[x] = "async"
        PROVE  failed'[root'[x]] \/ root'[x] \in Condemned(x)'
    <3>1. status[x] = "async" /\ x \in Unfinished
      BY <1>3, <2>5 DEF Unfinished
    <3>2. failed[root[x]] \/ root[x] \in Condemned(x)
      BY <3>1 DEF WaitInv, Waiting
    <3> DEFINE E == {m}
    <3>3. E \in SUBSET Modules /\ (\A y \in Unfinished : E \cap Elements(parents[y]) = {})
      OBVIOUS
    <3>4. \A y \in Modules : Elements(parents[y]) \subseteq Elements(parents'[y])
      OBVIOUS
    <3>5. \A y \in Modules : status'[y] = "evaluated" => status[y] = "evaluated" \/ y \in E
      BY <1>2
    <3> HIDE DEF E
    <3>6. \A y \in Condemned(x) : y \in Condemned(x)'
      BY <1>4, <3>1, <3>3, <3>4, <3>5, CondemnsAsBefore
    <3> QED BY <1>2, <3>2, <3>6
  <2> QED BY <2>3, <2>4, <2>5 DEF Waiting
<1>11. Walk'
  BY <1>1 DEF Walk
<1>12. Ordered'
  <2> SUFFICES ASSUME NEW x \in Begun, ~failed[x], NEW d \in Dealt(x)'
               PROVE  InCycle(x, d)' \/ Settled(d)' \/ WaitsFor(x, d)'
    BY <1>2, <1>3 DEF Ordered
  <2>1. x \in Modules /\ x \notin OnStack /\ x \notin Called
    BY <1>1 DEF Begun
  <2>2. Dealt(x)' = Elements(req[x]) /\ Dealt(x) = Elements(req[x])
    <3>1. DOMAIN frames' = {}
      BY <1>1
    <3>2. Dealt(x)' = Elements(req[x])
      BY <3>1 DEF Dealt, Elements
    <3> QED BY <2>1, <3>2, DealtWith
  <2>3. InCycle(x, d) \/ Settled(d) \/ WaitsFor(x, d)
    BY <2>1, <2>2 DEF WaitInv, Ordered, Stays
  <2>4. d \in Modules /\ (Done(d) => root[d] \in Modules)
    BY <2>1, <2>2, Facts DEF Inv, Reached
  <2>5. InCycle(x, d) => InCycle(x, d)'
    BY <1>3, <2>1, <2>4, GraphStays DEF InCycle
  <2>6. Settled(d) => Settled(d)'
    BY <1>2, <1>3, <2>4 DEF Settled
  <2>7. ASSUME WaitsFor(x, d) PROVE WaitsFor(x, d)' \/ Settled(d)'
    <3>1. Done(d) /\ status[root[d]] = "async" /\ x \in Elements(parents[root[d]])
      BY <2>7 DEF WaitsFor
    <3>2. CASE root[d] = m
      <4>1. ~failed[d]
        BY <1>2, <2>4, <3>2 DEF WaitInv, Rooted
      <4> QED BY <1>2, <1>3, <2>4, <3>1, <3>2, <4>1 DEF Settled
    <3>3. CASE root[d] # m
      <4>1. x \in Elements(parents[root[d]])'
        BY <3>1 DEF Elements
      <4> QED BY <1>2, <1>3, <2>4, <3>1, <3>3, <4>1 DEF WaitsFor
    <3> QED BY <3>2, <3>3
  <2> QED BY <2>3, <2>5, <2>6, <2>7
<1>13. Outcome'
  <2>1. \A x : Graph(x)' = Graph(x)
    BY GraphStays
  <2>2. ASSUME NEW x \in Modules, failed[x] PROVE \E d \in Graph(x) : body'[d] = "threw"
    <3>1. PICK d \in Graph(x) : body[d] = "threw"
      BY <2>2 DEF WaitInv, Outcome
    <3>2. d \in Modules
      BY GraphOn
    <3> QED BY <1>2, <3>1, <3>2
  <2> QED BY <1>2, <1>3, <1>4, <2>1, <2>2 DEF WaitInv, Outcome
<1> QED BY <1>5, <1>6, <1>7, <1>8, <1>9, <1>10, <1>11, <1>12, <1>13 DEF WaitInv

\* A body that awaited ends or throws, and it was not its own failure: what it
\* waits for has ended.
LEMMA BodyThrowsWaits == ASSUME Inv, WaitInv, NEW m \in Modules, BodyThrows(m) PROVE WaitInv'
<1>1. Inv'
  BY BodyThrowsKeeps
<1>2. /\ turn = "idle" /\ turn' = turn /\ body[m] = "running" /\ body' = [body EXCEPT ![m] = "threw"]
      /\ calls' = calls /\ root' = root /\ req' = req /\ tla' = tla /\ flagged' = flagged /\ stamp' = stamp
      /\ pending' = pending /\ parents' = parents /\ gather' = gather /\ ready' = ready
  BY DEF BodyThrows, graph, waits, lists
<1>3. ready = {} /\ m \in Begun /\ gather = <<>>
  BY <1>2 DEF Inv, NotStarted, Reached, WaitInv, Marked
<1>4. CASE status[m] = "evaluated"
  <2>1. status' = status /\ failed' = failed /\ promise' = promise /\ failed[m]
    BY <1>2, <1>4 DEF BodyThrows, WaitInv, Marked
  <2>2. \A x \in Modules : \/ body'[x] = body[x]
                           \/ /\ body[x] # "threw" /\ (status[x] = "evaluated" => failed[x])
                              /\ body'[x] = "running" => flagged[x] /\ status[x] = "async"
    BY <1>2, <2>1 DEF Inv, Types
  <2>3. promise' \in [Modules -> {"none", "pending", "fulfilled", "rejected"}]
    BY <2>1 DEF WaitInv, MoreTypes
  <2> QED BY <1>1, <1>2, <1>3, <2>1, <2>2, <2>3, QuietKeeps
<1>5. CASE status[m] # "evaluated"
  <2>1. Reject(m)
    BY <1>5 DEF BodyThrows
  <2>2. ready' = ready \ {m}
    BY <1>2, <1>3
  <2> QED BY <1>1, <1>2, <1>3, <1>5, <2>1, <2>2, RejectWaits
<1> QED BY <1>4, <1>5

LEMMA BodyEndsWaits == ASSUME Inv, WaitInv, NEW m \in Modules, BodyEnds(m) PROVE WaitInv'
<1>1. Inv'
  BY BodyEndsKeeps
<1>2. /\ turn = "idle" /\ body[m] = "running" /\ body' = [body EXCEPT ![m] = "done"]
      /\ calls' = calls /\ root' = root /\ req' = req /\ tla' = tla /\ stamp' = stamp
      /\ pending' = pending /\ parents' = parents /\ ready' = ready
  BY DEF BodyEnds, graph
<1>3. ready = {} /\ m \in Begun /\ gather = <<>>
  BY <1>2 DEF Inv, NotStarted, Reached, WaitInv, Marked
<1>4. CASE status[m] = "evaluated"
  <2>1. status' = status /\ failed' = failed /\ promise' = promise /\ failed[m]
        /\ flagged' = flagged /\ turn' = turn /\ gather' = gather
    BY <1>2, <1>4 DEF BodyEnds, WaitInv, Marked
  <2>2. \A x \in Modules : \/ body'[x] = body[x]
                           \/ /\ body[x] # "threw" /\ (status[x] = "evaluated" => failed[x])
                              /\ body'[x] = "running" => flagged[x] /\ status[x] = "async"
    BY <1>2, <2>1 DEF Inv, Types
  <2>3. promise' \in [Modules -> {"none", "pending", "fulfilled", "rejected"}]
    BY <2>1 DEF WaitInv, MoreTypes
  <2> QED BY <1>1, <1>2, <1>3, <2>1, <2>2, <2>3, QuietKeeps
<1>5. CASE status[m] # "evaluated"
  <2>1. SetEvaluated(m) /\ flagged' = [flagged EXCEPT ![m] = FALSE] /\ turn' = "gathering" /\ gather' = parents[m]
    BY <1>5 DEF BodyEnds
  <2>2. pending[m] \in Int /\ ~(pending[m] > 0)
    BY <1>2, <1>5 DEF Inv, Types, NotStarted
  <2>3. pending[m] <= 0
    BY <2>2
  <2>4. \A y \in Unfinished : m \notin Elements(parents[y])
    BY <1>3, <2>3, NobodyAwaited
  <2>5. status[m] = "async"
    BY <1>2, <1>3, <1>5, Facts DEF Done
  <2>6. ready' = ready \ {m} /\ m \notin ready
    BY <1>2, <1>3
  <2> QED BY <1>1, <1>2, <2>1, <2>4, <2>5, <2>6, CompleteKeeps
<1> QED BY <1>4, <1>5

\* One of the modules that have become available is executed.
LEMMA RunWaits == ASSUME Inv, WaitInv, NEW m \in Modules, Run(m) PROVE WaitInv'
<1>1. Inv'
  BY RunKeeps
<1>2. /\ turn = "running" /\ turn' = turn /\ First(m) /\ m \in ready /\ ready' = ready \ {m}
      /\ calls' = calls /\ root' = root /\ req' = req /\ tla' = tla /\ stamp' = stamp
      /\ pending' = pending /\ parents' = parents /\ flagged' = flagged /\ gather' = gather
  BY DEF Run, First, graph, waits
<1>3. /\ pending[m] <= 0 /\ (status[m] # "evaluated" => body[m] = "new")
      /\ m \in Begun /\ gather = <<>>
  BY <1>2 DEF Inv, NotStarted, Reached, WaitInv, Marked
<1>4. status[m] = "async" \/ failed[m]
  BY <1>2 DEF WaitInv, Marked
<1>5. failed[m] => status[m] = "evaluated"
  BY DEF WaitInv, Marked
<1>6. CASE status' = status /\ failed' = failed /\ promise' = promise
           /\ \/ status[m] = "evaluated" /\ body' = body
              \/ status[m] # "evaluated" /\ tla[m] /\ body' = [body EXCEPT ![m] = "running"]
  <2>1. \A x \in Modules : \/ body'[x] = body[x]
                           \/ /\ body[x] # "threw" /\ (status[x] = "evaluated" => failed[x])
                              /\ body'[x] = "running" => flagged[x] /\ status[x] = "async"
    <3>1. flagged[m] \/ status[m] = "evaluated"
      BY <1>4, <1>5 DEF WaitInv, Marked
    <3> QED BY <1>3, <1>4, <1>5, <1>6, <3>1 DEF Inv, Types
  <2>2. promise' \in [Modules -> {"none", "pending", "fulfilled", "rejected"}]
    BY <1>6 DEF WaitInv, MoreTypes
  <2>3. ready' \subseteq ready /\ \A x \in ready : x \in ready' \/ tla[x] \/ status[x] = "evaluated"
    BY <1>2, <1>6
  <2> QED BY <1>1, <1>2, <1>3, <1>6, <2>1, <2>2, <2>3, QuietKeeps
<1>7. CASE status[m] # "evaluated" /\ ~tla[m] /\ body' = [body EXCEPT ![m] = "done"] /\ SetEvaluated(m)
  <2>1. \A y \in Unfinished : m \notin Elements(parents[y])
    BY <1>2, <1>3, <1>4, <1>5, <1>7, NobodyAwaited
  <2>2. status[m] = "async" /\ body[m] # "threw"
    BY <1>3, <1>4, <1>5, <1>7
  <2> QED BY <1>1, <1>2, <1>7, <2>1, <2>2, CompleteKeeps
<1>8. CASE status[m] # "evaluated" /\ ~tla[m] /\ body' = [body EXCEPT ![m] = "threw"] /\ Reject(m)
  BY <1>1, <1>2, <1>3, <1>8, RejectWaits
<1> QED BY <1>6, <1>7, <1>8 DEF Run

\* The first of the parents that gather_available_ancestors has still to look at.
LEMMA GatherWaits == ASSUME Inv, WaitInv, Gather PROVE WaitInv'
<1> SUFFICES ASSUME NEW p, p = Head(gather) PROVE WaitInv'
  OBVIOUS
<1>1. Inv'
  BY GatherKeeps
<1>2. /\ turn = "gathering" /\ gather # <<>> /\ gather \in Seq(Modules)
      /\ req' = req /\ tla' = tla /\ status' = status /\ root' = root /\ promise' = promise
      /\ failed' = failed /\ body' = body /\ flagged' = flagged /\ stamp' = stamp /\ parents' = parents
      /\ turn' = turn /\ entry' = entry /\ frames' = frames /\ stack' = stack
  BY DEF Gather, graph, results, calls, Inv, Types
<1>3. /\ p \in Modules /\ p \in Elements(gather) /\ p \in Begun /\ Tail(gather) \in Seq(Modules)
      /\ Elements(Tail(gather)) \subseteq Elements(gather)
  BY <1>2, ElementsOf DEF Inv, Reached
<1>4. /\ parents \in [Modules -> Seq(Modules)] /\ pending \in [Modules -> Int]
      /\ parents[p] \in Seq(Modules) /\ Live \in SUBSET Modules
      /\ \A y \in Modules : Elements(parents[y]) \subseteq Modules
  BY <1>3, Facts DEF Inv, Types, Live
<1>5. /\ Begun' = Begun /\ Unfinished' = Unfinished /\ LastStamp' = LastStamp
      /\ \A x : (Told(x)' <=> Told(x)) /\ (Done(x)' <=> Done(x))
      /\ \A x : Graph(x)' = Graph(x) /\ Condemned(x)' = Condemned(x)
      /\ \A y : Elements(parents[y])' = Elements(parents[y])
      /\ Elements(gather)' = Elements(gather')
  BY <1>2 DEF Begun, Unfinished, LastStamp, Told, Done, Graph, Condemned, Elements
<1>6. \/ /\ pending' = pending /\ ready' = ready /\ gather' = Tail(gather)
      \/ /\ pending' = [pending EXCEPT ![p] = pending[p] - 1] /\ status[p] = "async" /\ p \notin ready
         /\ \/ ready' = ready /\ gather' = Tail(gather)
            \/ ready' = ready \cup {p} /\ tla[p] /\ gather' = Tail(gather)
            \/ ready' = ready \cup {p} /\ ~tla[p] /\ gather' = parents[p] \o Tail(gather)
  <2>1. CASE p \in ready \/ failed[root[p]]
    BY <2>1 DEF Gather
  <2>2. CASE ~(p \in ready \/ failed[root[p]])
    <3>1. Told(p)
      BY <1>3 DEF WaitInv, Waiting
    <3>2. status[p] # "evaluated"
      BY <2>2, <3>1 DEF Told
    <3>3. status[p] = "async"
      BY <1>2, <1>3, <3>2, Facts DEF Done
    <3> QED BY <2>2, <3>3 DEF Gather
  <2> QED BY <2>1, <2>2
<1>7. \/ Elements(gather') \subseteq Elements(gather)
      \/ status[p] = "async" /\ Elements(gather') \subseteq Elements(gather) \cup Elements(parents[p])
  <2>1. Elements(parents[p] \o Tail(gather)) = Elements(parents[p]) \cup Elements(Tail(gather))
    BY <1>3, <1>4, ElementsOf
  <2> QED BY <1>3, <1>6, <2>1
<1>8. MoreTypes'
  BY <1>2 DEF WaitInv, MoreTypes
<1>9. Marked'
  <2>1. \A x \in ready' : status'[x] = "async" \/ failed'[x]
    BY <1>2, <1>6 DEF WaitInv, Marked
  <2>2. \A x \in Modules : x \notin Begun' => pending'[x] = 0
    <3>1. \A x \in Modules : x \notin Begun => pending'[x] = pending[x]
      BY <1>3, <1>4, <1>6
    <3> QED BY <1>5, <3>1 DEF WaitInv, Marked
  <2> QED BY <1>2, <2>1, <2>2 DEF WaitInv, Marked
<1>10. Stamped'
  BY <1>2, <1>5 DEF WaitInv, Stamped
<1>11. Rooted'
  BY <1>2, <1>5 DEF WaitInv, Rooted
<1>12. Counted'
  <2> SUFFICES ASSUME NEW q \in Begun
               PROVE  Cardinality(Marks(Live', parents, q)) + Cardinality(Occurs(gather', q)) <= pending'[q]
    <3>1. \A q : Marks(Live, parents, q)' = Marks(Live', parents, q) /\ Occurs(gather, q)' = Occurs(gather', q)
      BY <1>2 DEF Marks, Occurs
    <3> QED BY <1>2, <1>5, <3>1 DEF Counted
  <2>1. Cardinality(Marks(Live, parents, q)) + Cardinality(Occurs(gather, q)) <= pending[q]
        /\ pending[q] \in Int
    BY <1>4 DEF WaitInv, Counted, Begun
  <2>2. gather' \in Seq(Modules) /\ Live' \in SUBSET Modules
    <3>1. gather' \in Seq(Modules)
      BY <1>1 DEF Inv, Types
    <3> QED BY <3>1 DEF Live
  <2>3. /\ Cardinality(Marks(Live', parents, q)) \in Nat /\ Cardinality(Marks(Live, parents, q)) \in Nat
        /\ Cardinality(Occurs(gather, q)) \in Nat /\ Cardinality(Occurs(gather', q)) \in Nat
        /\ Cardinality(Occurs(Tail(gather), q)) \in Nat /\ Cardinality(Occurs(parents[p], q)) \in Nat
    BY <1>2, <1>3, <1>4, <2>2, MarksFinite, OccursIn
  <2>4. /\ Cardinality(Occurs(Tail(gather), q)) <= Cardinality(Occurs(gather, q))
        /\ q = p => Cardinality(Occurs(Tail(gather), q)) <= Cardinality(Occurs(gather, q)) - 1
    BY <1>2, OccursInTail
  <2>5. Cardinality(Marks(Live', parents, q)) + Cardinality(Occurs(gather', q))
            <= Cardinality(Marks(Live, parents, q)) + Cardinality(Occurs(Tail(gather), q))
    <3>1. CASE gather' = Tail(gather)
      <4>1. Live' \subseteq Live
        BY <1>2, <1>6 DEF Live
      <4>2. Cardinality(Marks(Live', parents, q)) <= Cardinality(Marks(Live, parents, q))
        BY <1>4, <2>2, <4>1, MarksFewer
      <4> QED BY <2>3, <3>1, <4>2
    <3>2. CASE ready' = ready \cup {p} /\ ~tla[p] /\ gather' = parents[p] \o Tail(gather)
               /\ status[p] = "async" /\ p \notin ready
      <4>1. Live' = Live \ {p} /\ p \in Live
        BY <1>2, <1>3, <3>2 DEF Live
      <4>2. Cardinality(Marks(Live \ {p}, parents, q)) + Cardinality(Occurs(parents[p], q))
               <= Cardinality(Marks(Live, parents, q))
        BY <1>4, <4>1, MarksReleased
      <4>3. Cardinality(Occurs(gather', q)) <= Cardinality(Occurs(parents[p], q)) + Cardinality(Occurs(Tail(gather), q))
        BY <1>3, <1>4, <3>2, OccursInConcat
      <4> QED BY <2>3, <4>1, <4>2, <4>3
    <3> QED BY <1>6, <3>1, <3>2
  <2>6. pending'[q] = pending[q] \/ (q = p /\ pending'[q] = pending[q] - 1)
    <3>1. q \in Modules
      BY DEF Begun
    <3> QED BY <1>3, <1>4, <1>6, <3>1
  <2> QED BY <2>1, <2>3, <2>4, <2>5, <2>6
<1>13. Waiting'
  <2>1. \A y \in Unfinished' : \A x \in Elements(parents[y])' : Told(x)'
    BY <1>5 DEF WaitInv, Waiting
  <2>2. status[p] = "async" => p \in Unfinished
    BY <1>3 DEF Unfinished
  <2>3. \A x \in Elements(gather)' : Told(x)'
    BY <1>5, <1>7, <2>2 DEF WaitInv, Waiting
  <2>4. \A x \in Modules : status'[x] = "async" => failed'[root'[x]] \/ root'[x] \in Condemned(x)'
    BY <1>2, <1>5 DEF WaitInv, Waiting
  <2> QED BY <2>1, <2>3, <2>4 DEF Waiting
<1>14. Walk'
  BY <1>2 DEF Walk
<1>15. Ordered'
  <2>1. /\ OnStack' = OnStack /\ Called' = Called
        /\ \A x : Dealt(x)' = Dealt(x) /\ Place(x)' = Place(x)
    BY <1>2 DEF OnStack, Called, Dealt, Place
  <2>2. \A x, d : (Stays(x, d)' <=> Stays(x, d)) /\ (InCycle(x, d)' <=> InCycle(x, d))
                  /\ (Settled(d)' <=> Settled(d)) /\ (WaitsFor(x, d)' <=> WaitsFor(x, d))
    <3>1. \A x, d : Stays(x, d)' <=> Stays(x, d)
      BY <1>2, <1>5, <2>1 DEF Stays
    <3>2. \A x, d : (InCycle(x, d)' <=> InCycle(x, d)) /\ (Settled(d)' <=> Settled(d))
      BY <1>2, <1>5 DEF InCycle, Settled
    <3>3. \A x, d : WaitsFor(x, d)' <=> WaitsFor(x, d)
      BY <1>2, <1>5 DEF WaitsFor, Elements
    <3> QED BY <3>1, <3>2, <3>3
  <2> QED BY <1>2, <1>5, <2>1, <2>2 DEF WaitInv, Ordered
<1>16. Outcome'
  BY <1>2, <1>5 DEF WaitInv, Outcome
<1> QED BY <1>8, <1>9, <1>10, <1>11, <1>12, <1>13, <1>14, <1>15, <1>16 DEF WaitInv

-----------------------------------------------------------------------------
(* Calls that return, and the cycles they close.                           *)

\* The cycle that a call closes: its modules reach no further down, and no other
\* call is among them.
LEMMA CycleClosed ==
    ASSUME Inv, TreeInv, WaitInv, turn = "evaluating", AllRequested, NEW f, f = Frame.at
    PROVE  /\ Closes => Cycle \subseteq OnStack /\ f \in Cycle
           /\ Closes => \A x \in OnStack : x \in Cycle <=> Place(x) >= Place(f)
           /\ Closes => \A x \in Cycle : stack[Place(x)].low >= Place(f)
           /\ \A x \in OnStack : x # f /\ Place(x) >= Place(f) =>
                  x \notin Called /\ (flagged[x] => f \in Condemned(x))
           /\ \A x \in OnStack : Place(x) \in Nat
<1>1. frames # <<>> /\ f \in OnStack /\ f \in Called
  BY RequestLinked
<1>2. PICK k : k = Len(frames)
  OBVIOUS
<1>3. PICK n : n = Len(stack)
  OBVIOUS
<1>4. WellPlaced
  BY Places
<1>5. /\ n \in Nat /\ DOMAIN stack = 1..n /\ k \in Nat \ {0} /\ DOMAIN frames = 1..k
      /\ k \in DOMAIN frames /\ frames[k].at = f /\ At(k) = Place(f) /\ Place(f) \in 1..n
      /\ \A x \in OnStack : Place(x) \in 1..n /\ stack[Place(x)].of = x
      /\ \A i \in 1..k : At(i) <= At(k) /\ At(i) \in 1..n
  <2>1. /\ n \in Nat /\ DOMAIN stack = 1..n /\ k \in Nat \ {0} /\ DOMAIN frames = 1..k
        /\ k \in DOMAIN frames /\ frames[k].at = f
    BY <1>1, <1>2, <1>3, <1>4, Requested DEF WellPlaced
  <2>2. At(k) = Place(f) /\ Place(f) \in 1..n
    BY <1>1, <1>4, <2>1 DEF WellPlaced, At
  <2>3. \A i \in 1..k : At(i) \in 1..n /\ (i < k => At(i) < At(k))
    BY <1>4, <2>1 DEF WellPlaced
  <2>4. \A i \in 1..k : At(i) <= At(k)
    <3> SUFFICES ASSUME NEW i \in 1..k PROVE At(i) <= At(k)
      OBVIOUS
    <3>1. CASE i < k
      BY <2>1, <2>3, <3>1
    <3>2. CASE i = k
      <4>1. At(i) = At(k) /\ At(k) \in 1..n
        BY <2>1, <2>3, <3>2
      <4> QED BY <4>1
    <3> QED BY <2>1, <3>1, <3>2
  <2> QED BY <1>4, <2>1, <2>2, <2>3, <2>4 DEF WellPlaced
<1>6. ASSUME NEW x \in OnStack, x # f, Place(x) >= Place(f)
      PROVE  Owns(k, Place(x)) /\ Place(x) > Place(f)
  <2>1. Place(x) # Place(f)
    BY <1>1, <1>5, <1>6
  <2> QED BY <1>2, <1>5, <1>6, <2>1 DEF Owns
<1>7. ASSUME NEW x \in OnStack, x # f, Place(x) >= Place(f)
      PROVE  /\ x \notin Called /\ (flagged[x] => f \in Condemned(x))
             /\ stack[Place(f)].low <= stack[Place(x)].low
  <2>1. Owns(k, Place(x)) /\ Place(x) > Place(f) /\ Place(x) \in DOMAIN stack
    BY <1>5, <1>6, <1>7
  <2>2. flagged[x] => f \in Condemned(x)
    BY <1>5, <2>1 DEF WaitInv, Walk
  <2>3. Lower(Place(x), f)
    BY <1>5, <2>1 DEF TreeInv, Tree
  <2>4. x \notin Called
    <3>1. ASSUME NEW i \in 1..k, frames[i].at = x PROVE FALSE
      <4>1. At(i) = Place(x)
        BY <3>1 DEF At
      <4> QED BY <1>5, <2>1, <4>1
    <3> QED BY <1>5, <3>1 DEF Called
  <2> QED BY <2>2, <2>3, <2>4 DEF Lower
<1>8. ASSUME Closes
      PROVE  /\ Cycle \subseteq OnStack /\ f \in Cycle
             /\ \A x \in OnStack : x \in Cycle <=> Place(x) >= Place(f)
  <2>1. Cycle = {stack[i].of : i \in Place(f)..n}
    BY <1>3 DEF Cycle
  <2>2. \A i \in Place(f)..n : i \in DOMAIN stack /\ stack[i].of \in OnStack /\ Place(stack[i].of) = i
    BY <1>4, <1>5 DEF WellPlaced
  <2>3. \A x \in OnStack : Place(x) >= Place(f) => x \in Cycle
    <3> SUFFICES ASSUME NEW x \in OnStack, Place(x) >= Place(f) PROVE x \in Cycle
      OBVIOUS
    <3>1. Place(x) \in Place(f)..n /\ stack[Place(x)].of = x
      BY <1>5
    <3> QED BY <2>1, <3>1
  <2>4. \A x \in Cycle : x \in OnStack /\ Place(x) >= Place(f)
    <3> SUFFICES ASSUME NEW x \in Cycle PROVE x \in OnStack /\ Place(x) >= Place(f)
      OBVIOUS
    <3>1. PICK i \in Place(f)..n : x = stack[i].of
      BY <2>1
    <3> QED BY <1>5, <2>2, <3>1
  <2>5. f \in Cycle
    BY <1>1, <1>5, <2>3
  <2> QED BY <2>3, <2>4, <2>5
<1>9. ASSUME Closes, NEW x \in Cycle PROVE stack[Place(x)].low >= Place(f)
  <2>1. x \in OnStack /\ Place(x) >= Place(f)
    BY <1>8, <1>9
  <2>2. stack[Place(f)].low = Place(f)
    BY <1>9 DEF Closes
  <2>3. stack[Place(x)].low \in Nat
    BY <1>4, <1>5, <2>1 DEF WellPlaced
  <2>4. CASE x = f
    BY <1>5, <2>2, <2>4
  <2>5. CASE x # f
    <3>1. stack[Place(f)].low <= stack[Place(x)].low
      BY <1>7, <2>1, <2>5
    <3> QED BY <1>5, <2>2, <2>3, <3>1
  <2> QED BY <2>4, <2>5
<1> QED BY <1>5, <1>7, <1>8, <1>9

\* A module that is not counted down is condemned by no other.
LEMMA NotCondemned ==
    ASSUME Inv, WaitInv, NEW f \in Begun, pending[f] <= 0, ready = {}, NEW x \in Unfinished, x # f
    PROVE  f \notin Condemned(x)
<1> DEFINE S == Unfinished \ {f}
<1>1. \A y \in Unfinished : f \notin Elements(parents[y])
  BY NobodyAwaited
<1>2. \A y \in S : \A p \in Elements(parents[y]) : status[p] # "evaluated" => p \in S
  <2>1. \A y \in Unfinished : Elements(parents[y]) \subseteq Modules
    BY Facts DEF Unfinished
  <2> QED BY <1>1, <2>1 DEF Unfinished
<1>3. S \in SUBSET Modules /\ x \in S
  BY DEF Unfinished
<1> HIDE DEF S
<1>4. Condemned(x) \subseteq S
  BY <1>2, <1>3, CondemnsLeast
<1> QED BY <1>4 DEF S

\* A call returns: what it has marked, or executed, and the cycle that it closes.
LEMMA ReturnWaits ==
    ASSUME Inv, TreeInv, WaitInv, Inv', turn = "evaluating", AllRequested, Return,
           req' = req, tla' = tla, pending' = pending, parents' = parents, gather' = gather, ready' = ready,
           NEW f, f = Frame.at,
           \/ /\ Flag(f)
              /\ \/ body' = body
                 \/ body' = [body EXCEPT ![f] = "running"]
           \/ /\ flagged' = flagged /\ stamp' = stamp /\ pending[f] = 0
              /\ body' = [body EXCEPT ![f] = "done"]
    PROVE  WaitInv'
<1> SUFFICES ASSUME NEW n, n = Len(stack), NEW k, k = Len(frames),
                    NEW C, C = IF Closes THEN Cycle ELSE {},
                    NEW E, E = {c \in C : ~flagged'[c]}
             PROVE  WaitInv'
  OBVIOUS
<1>1. /\ frames # <<>> /\ f \in OnStack /\ f \in Modules /\ f \in Called /\ status[f] = "evaluating"
      /\ f \in Begun /\ f \in Unfinished
      /\ gather = <<>> /\ ready = {} /\ body[f] = "new" /\ entry \in Modules
  BY RequestLinked DEF WaitInv, Marked, Inv, NotStarted, Stacked, CallsFollowStack, Begun, Unfinished
<1>2. /\ Closes => Cycle \subseteq OnStack /\ f \in Cycle
      /\ Closes => \A x \in OnStack : x \in Cycle <=> Place(x) >= Place(f)
      /\ Closes => \A x \in Cycle : stack[Place(x)].low >= Place(f)
      /\ \A x \in OnStack : x # f /\ Place(x) >= Place(f) =>
             x \notin Called /\ (flagged[x] => f \in Condemned(x))
      /\ \A x \in OnStack : Place(x) \in Nat
  BY CycleClosed
<1>3. /\ frames' = Returned
      /\ (Closes /\ stack' = Popped) \/ (~Closes /\ stack' = stack)
      /\ failed' = failed
      /\ \/ turn' = turn /\ entry' = entry /\ k # 1 /\ promise' = promise
         \/ turn' = "idle" /\ k = 1 /\ (promise' = promise \/ promise' = [promise EXCEPT ![entry] = "fulfilled"])
  BY DEF Return
<1>4. /\ n \in Nat /\ k \in Nat \ {0} /\ DOMAIN stack = 1..n /\ DOMAIN frames = 1..k
      /\ DOMAIN frames' = 1..(k - 1) /\ Len(frames') = k - 1
      /\ At(k) \in 1..n /\ At(k) = Place(f) /\ frames[k] = Frame
      /\ DOMAIN stack' = 1..(IF Closes THEN At(k) - 1 ELSE n)
      /\ \A i \in 1..(k - 1) : frames'[i] = frames[i] /\ At(i)' = At(i) /\ At(i) \in 1..n
      /\ \A b \in DOMAIN stack' : b \in 1..n /\ stack'[b] = stack[b]
      /\ \A x \in OnStack' : x \in OnStack /\ Place(x)' = Place(x) /\ Place(x) \in DOMAIN stack'
      /\ \A x \in OnStack : Place(x) \in DOMAIN stack' => x \in OnStack'
      /\ \A x \in Called : x # f => x \in Called'
      /\ Called' \subseteq Called /\ f \notin Called'
      /\ \A i \in 1..k : At(i) <= At(k)
      /\ k = 1 => Closes
  BY <1>1, <1>3, Returns
<1>5. WellPlaced /\ WellPlaced' /\ FactsHold /\ FactsHold'
  BY Places, PlacesThen, FactsNow, FactsThen
<1>6. /\ parents \in [Modules -> Seq(Modules)] /\ pending \in [Modules -> Int]
      /\ body \in [Modules -> {"new", "running", "done", "threw"}]
      /\ flagged \in [Modules -> BOOLEAN] /\ stamp \in [Modules -> Nat]
      /\ promise \in [Modules -> {"none", "pending", "fulfilled", "rejected"}]
      /\ \A y \in Modules : Elements(parents[y]) \subseteq Modules
      /\ \A y \in Modules : Elements(parents[y])' = Elements(parents[y])
      /\ Elements(gather) = {} /\ Elements(gather)' = {}
  <2>1. \A y \in Modules : Elements(parents[y])' = Elements(parents[y])
    BY DEF Elements
  <2>2. Elements(gather) = {} /\ Elements(gather)' = {}
    BY <1>1 DEF Elements
  <2> QED BY <2>1, <2>2, Facts DEF Inv, Types, WaitInv, MoreTypes
\* The modules of the cycle.
<1>7. /\ C \subseteq OnStack /\ C \subseteq Modules /\ C \subseteq Begun /\ C \subseteq Unfinished
      /\ (Closes => f \in C)
      /\ \A x \in C : status[x] = "evaluating" /\ ~Done(x)
      /\ \A x \in C : x # f => x \notin Called
  <2>1. C \subseteq OnStack /\ (Closes => f \in C)
    BY <1>2
  <2>2. \A x \in OnStack : x \in Modules /\ status[x] = "evaluating"
    BY <1>5 DEF FactsHold
  <2>3. \A x \in C : x # f => x \notin Called
    BY <1>2
  <2> QED BY <2>1, <2>2, <2>3 DEF Begun, Unfinished, Done
<1>8. /\ \A x \in Modules : status'[x] = IF x \notin C THEN status[x]
                                          ELSE IF x \in E THEN "evaluated" ELSE "async"
      /\ \A x \in Modules : root'[x] = IF x \in C THEN f ELSE root[x]
  <2>1. CASE Closes
    <3>1. /\ status' = [x \in Modules |-> IF x \notin C THEN status[x]
                            ELSE IF flagged'[x] THEN "async" ELSE "evaluated"]
          /\ root' = [x \in Modules |-> IF x \in C THEN f ELSE root[x]]
      BY <2>1 DEF Return
    <3> QED BY <3>1
  <2>2. CASE ~Closes
    BY <2>2 DEF Return
  <2> QED BY <2>1, <2>2
<1>9. /\ flagged' \in [Modules -> BOOLEAN] /\ stamp' \in [Modules -> Nat]
      /\ \A x \in Modules : x # f => flagged'[x] = flagged[x] /\ stamp'[x] = stamp[x] /\ body'[x] = body[x]
      /\ \A x \in Modules : flagged[x] => flagged'[x]
      /\ ~flagged[f] /\ stamp[f] = 0
      /\ \/ flagged'[f] /\ stamp'[f] = LastStamp + 1 /\ body'[f] \in {"new", "running"}
         \/ flagged' = flagged /\ stamp' = stamp /\ pending[f] = 0 /\ body'[f] = "done"
  <2>1. stamp[f] = 0 /\ ~flagged[f]
    <3>1. ~(stamp[f] > 0)
      BY <1>1 DEF WaitInv, Stamped
    <3>2. flagged[f] => stamp[f] > 0
      BY <1>1 DEF WaitInv, Stamped
    <3> QED BY <1>1, <1>6, <3>1, <3>2
  <2>2. CASE Flag(f)
    <3>1. flagged' = [flagged EXCEPT ![f] = TRUE] /\ stamp' = [stamp EXCEPT ![f] = LastStamp + 1]
      BY <2>2 DEF Flag
    <3>2. LastStamp + 1 \in Nat
      BY StampSize
    <3>3. \A x \in Modules : x # f => body'[x] = body[x]
      BY <1>6, <2>1, <2>2
    <3>4. body'[f] \in {"new", "running"} \/ (pending[f] = 0 /\ flagged' = flagged)
      BY <1>1, <1>6
    <3>5. flagged' # flagged
      BY <1>1, <1>6, <2>1, <3>1
    <3>6. /\ flagged' \in [Modules -> BOOLEAN] /\ stamp' \in [Modules -> Nat]
          /\ \A x \in Modules : x # f => flagged'[x] = flagged[x] /\ stamp'[x] = stamp[x]
          /\ flagged'[f] /\ stamp'[f] = LastStamp + 1
      BY <1>1, <1>6, <3>1, <3>2
    <3> QED BY <1>1, <2>1, <3>3, <3>4, <3>5, <3>6
  <2>3. CASE flagged' = flagged /\ stamp' = stamp /\ pending[f] = 0 /\ body' = [body EXCEPT ![f] = "done"]
    BY <1>1, <1>6, <2>1, <2>3
  <2> QED BY <2>2, <2>3
<1>10. \A x \in C : flagged[x] => flagged'[f] /\ f \in Condemned(x)
  <2> SUFFICES ASSUME NEW x \in C, flagged[x] PROVE flagged'[f] /\ f \in Condemned(x)
    OBVIOUS
  <2>1. x # f /\ f \in Condemned(x)
    BY <1>2, <1>7, <1>9
  <2>2. ASSUME ~flagged'[f] PROVE FALSE
    <3>1. pending[f] <= 0
      BY <1>9, <2>2
    <3> QED BY <1>1, <1>7, <2>1, <3>1, NotCondemned
  <2> QED BY <2>1, <2>2
<1>11. /\ E \subseteq C /\ \A y \in Unfinished : E \cap Elements(parents[y]) = {}
       /\ \A x \in E : body'[x] = "done" /\ ~flagged'[x]
  <2> SUFFICES ASSUME NEW x \in E
               PROVE  (\A y \in Unfinished : x \notin Elements(parents[y])) /\ body'[x] = "done"
    OBVIOUS
  <2>1. x \in C /\ ~flagged'[x] /\ x \in Begun /\ x \in Modules /\ x \in OnStack
    BY <1>7
  <2>2. pending[x] \in Int
    BY <1>6, <2>1
  <2>3. pending[x] <= 0 /\ body'[x] = "done"
    <3>1. CASE x = f
      BY <1>9, <2>1, <2>2, <3>1
    <3>2. CASE x # f
      <4>1. x \in OnStack \ Called /\ ~flagged[x]
        BY <1>7, <1>9, <2>1, <3>2
      <4>2. (flagged[x] \/ body[x] = "done") /\ (pending[x] > 0 => flagged[x])
        BY <4>1 DEF WaitInv, Marked
      <4> QED BY <1>9, <2>1, <2>2, <3>2, <4>1, <4>2
    <3> QED BY <3>1, <3>2
  <2> QED BY <1>1, <2>1, <2>3, NobodyAwaited
<1>12. \A x \in Unfinished : \A y \in Condemned(x) : y \in Condemned(x)'
  <2>1. E \in SUBSET Modules
    BY <1>7, <1>11
  <2>2. \A y \in Modules : Elements(parents[y]) \subseteq Elements(parents'[y])
    OBVIOUS
  <2>3. \A y \in Modules : status'[y] = "evaluated" => status[y] = "evaluated" \/ y \in E
    BY <1>8
  <2> QED BY <1>6, <1>11, <2>1, <2>2, <2>3, CondemnsAsBefore
<1>13. /\ Begun' = Begun /\ Unfinished' = Unfinished \ E
       /\ \A x \in Modules : /\ Done(x)' <=> Done(x) \/ x \in C
                             /\ status'[x] \in {"async", "evaluated"} <=> Done(x) \/ x \in C
       /\ Live' \subseteq Live /\ Live \subseteq Modules
  <2>1. Begun' = Begun /\ Unfinished' = Unfinished \ E
    BY <1>7, <1>8, <1>11 DEF Begun, Unfinished
  <2>2. \A x \in Modules : (Done(x)' <=> Done(x) \/ x \in C) /\ (status'[x] \in {"async", "evaluated"} <=> Done(x) \/ x \in C)
    BY <1>7, <1>8 DEF Done
  <2>3. Live' \subseteq Live /\ Live \subseteq Modules
    BY <1>1, <1>7, <1>8 DEF Live
  <2> QED BY <2>1, <2>2, <2>3
<1>14. \A x \in C : ~failed[x]
  BY <1>7 DEF WaitInv, Marked
<1>15. MoreTypes'
  <2>1. promise' \in [Modules -> {"none", "pending", "fulfilled", "rejected"}]
    BY <1>3, <1>6
  <2> QED BY <1>3, <1>9, <2>1 DEF WaitInv, MoreTypes
<1>16. Marked'
  <2>1. \A x \in Modules : failed'[x] => status'[x] = "evaluated"
    BY <1>3, <1>8, <1>14 DEF WaitInv, Marked
  <2>2. \A x \in Modules : status'[x] = "async" => flagged'[x]
    BY <1>8, <1>9 DEF WaitInv, Marked
  <2>3. ASSUME NEW x \in Modules, body'[x] = "running"
        PROVE  flagged'[x] /\ (status'[x] = "evaluated" => failed'[x])
    <3>1. CASE x = f
      BY <1>1, <1>7, <1>8, <1>9, <1>11, <2>3, <3>1
    <3>2. CASE x # f
      <4>1. flagged'[x] /\ (status[x] = "evaluated" => failed'[x])
        BY <1>3, <1>9, <2>3, <3>2 DEF WaitInv, Marked
      <4> QED BY <1>8, <1>11, <4>1
    <3> QED BY <3>1, <3>2
  <2>4. ASSUME NEW x \in Modules, status'[x] = "evaluated" PROVE failed'[x] \/ body'[x] = "done"
    <3>1. CASE x \in E
      BY <1>11, <3>1
    <3>2. CASE x \notin E
      <4>1. status[x] = "evaluated" /\ x # f
        BY <1>1, <1>8, <2>4, <3>2
      <4> QED BY <1>3, <1>9, <4>1 DEF WaitInv, Marked
    <3> QED BY <3>1, <3>2
  <2>5. ASSUME turn' = "evaluating", NEW x \in (OnStack \ Called)'
        PROVE  (flagged'[x] \/ body'[x] = "done") /\ (pending'[x] > 0 => flagged'[x])
    <3>1. x \in OnStack /\ x \in Modules
      BY <1>4, <1>5, <2>5 DEF FactsHold
    <3>2. CASE x = f
      BY <1>9, <3>2
    <3>3. CASE x # f
      <4>1. x \notin Called
        BY <1>4, <2>5, <3>3
      <4>2. (flagged[x] \/ body[x] = "done") /\ (pending[x] > 0 => flagged[x])
        BY <3>1, <4>1 DEF WaitInv, Marked
      <4> QED BY <1>9, <3>1, <3>3, <4>2
    <3> QED BY <3>2, <3>3
  <2>6. \A x \in Modules : x \notin Begun' => pending'[x] = 0
    BY <1>13 DEF WaitInv, Marked
  <2> HIDE <1>4, <1>5
  <2> QED BY <1>1, <2>1, <2>2, <2>3, <2>4, <2>5, <2>6 DEF Marked
<1>17. Stamped'
  <2>1. LastStamp \in Nat /\ LastStamp' \in Nat /\ LastStamp <= LastStamp'
        /\ (flagged'[f] => LastStamp' = LastStamp + 1)
    <3>1. LastStamp \in Nat /\ IsFiniteSet({x \in Modules : stamp[x] > 0})
      BY StampSize
    <3>2. CASE flagged'[f]
      <4>1. stamp'[f] = LastStamp + 1
        BY <1>9, <3>2
      <4>2. \A x \in Modules : stamp'[x] > 0 <=> stamp[x] > 0 \/ x = f
        <5>1. stamp'[f] > 0
          BY <3>1, <4>1
        <5> QED BY <1>9, <5>1
      <4>3. {x \in Modules : stamp'[x] > 0} = {x \in Modules : stamp[x] > 0} \cup {f}
        BY <1>1, <4>2
      <4>4. f \notin {x \in Modules : stamp[x] > 0}
        BY <1>9
      <4>5. Cardinality({x \in Modules : stamp'[x] > 0}) = Cardinality({x \in Modules : stamp[x] > 0}) + 1
        BY <3>1, <4>3, <4>4, FS_AddElement
      <4>6. LastStamp' = LastStamp + 1
        BY <4>5 DEF LastStamp
      <4> QED BY <3>1, <4>6
    <3>3. CASE ~flagged'[f]
      <4>1. stamp' = stamp
        BY <1>9, <3>3
      <4>2. LastStamp' = LastStamp
        BY <4>1 DEF LastStamp
      <4> QED BY <3>1, <3>3, <4>2
    <3> QED BY <3>2, <3>3
  <2>2. \A x \in Modules : flagged'[x] => stamp'[x] > 0
    <3>1. flagged'[f] => stamp'[f] > 0
      BY <1>9, <2>1
    <3> QED BY <1>9, <3>1 DEF WaitInv, Stamped
  <2>3. ASSUME NEW x \in Modules, stamp'[x] > 0
        PROVE  x \in Begun' \ (IF turn' = "evaluating" THEN Called' ELSE {})
    <3>1. CASE x = f
      BY <1>1, <1>4, <1>13, <3>1
    <3>2. CASE x # f
      BY <1>4, <1>9, <1>13, <2>3, <3>2 DEF WaitInv, Stamped
    <3> QED BY <3>1, <3>2
  <2>4. ASSUME NEW x \in Modules PROVE stamp'[x] <= LastStamp'
    <3>1. CASE x = f /\ flagged'[f]
      BY <1>9, <2>1, <3>1
    <3>2. CASE ~(x = f /\ flagged'[f])
      <4>1. stamp'[x] = stamp[x] /\ stamp[x] <= LastStamp /\ stamp[x] \in Nat
        BY <1>6, <1>9, <3>2 DEF WaitInv, Stamped
      <4> QED BY <2>1, <4>1
    <3> QED BY <3>1, <3>2
  <2>5. ASSUME NEW y \in Modules, NEW p \in Elements(parents[y])'
        PROVE  stamp'[y] > 0 /\ (stamp'[p] > 0 => stamp'[y] < stamp'[p])
    <3>1. p \in Elements(parents[y]) /\ p \in Modules
      BY <1>6
    <3>2. y # p /\ stamp[y] > 0 /\ (stamp[p] > 0 => stamp[y] < stamp[p])
      BY <3>1, WaitedFor DEF WaitInv, Stamped
    <3>3. y # f /\ stamp'[y] = stamp[y] /\ stamp[y] \in Nat /\ stamp[y] <= LastStamp
      BY <1>6, <1>9, <3>2 DEF WaitInv, Stamped
    <3>4. CASE p = f
      BY <1>9, <2>1, <3>2, <3>3, <3>4
    <3>5. CASE p # f
      BY <1>9, <3>1, <3>2, <3>3, <3>5
    <3> QED BY <3>4, <3>5
  <2> HIDE <1>4, <1>5
  <2> QED BY <2>2, <2>3, <2>4, <2>5 DEF Stamped
<1>18. k = 1 => entry = f /\ f \in C
  <2>1. frames[1].at = entry
    BY <1>1 DEF TreeInv, Linked
  <2>2. frames[k].at = f
    BY <1>4
  <2> QED BY <1>4, <1>7, <2>1, <2>2
<1>19. Rooted'
  <2>1. ASSUME NEW x \in Modules, Done(x) \/ x \in C
        PROVE  /\ status'[root'[x]] \in {"async", "evaluated"} /\ root'[root'[x]] = root'[x]
               /\ failed'[x] => failed'[root'[x]]
    <3>1. CASE x \in C
      <4>1. f \in C /\ root'[x] = f /\ root'[f] = f
        BY <1>1, <1>7, <1>8, <3>1
      <4> QED BY <1>3, <1>13, <1>14, <1>1, <3>1, <4>1
    <3>2. CASE x \notin C
      <4>1. Done(x) /\ root'[x] = root[x] /\ root[x] \in Modules /\ Done(root[x]) /\ root[root[x]] = root[x]
        BY <1>8, <2>1, <3>2 DEF Inv, Reached, WaitInv, Rooted
      <4>2. root[x] \notin C
        BY <1>7, <4>1
      <4>3. root'[root[x]] = root[x]
        BY <1>8, <4>1, <4>2
      <4>4. failed[x] => failed[root[x]]
        BY DEF WaitInv, Rooted
      <4> QED BY <1>3, <1>13, <4>1, <4>3, <4>4
    <3> QED BY <3>1, <3>2
  <2>2. \A x \in Modules : Done(x)' => Done(root[x])' /\ root'[root'[x]] = root'[x]
    <3>1. \A x \in Modules : Done(x)' => status'[root'[x]] \in {"async", "evaluated"} /\ root'[root'[x]] = root'[x]
      BY <1>13, <2>1
    <3> QED BY <3>1 DEF Done
  <2>3. \A x \in Modules : failed'[x] => failed'[root'[x]]
    <3>1. \A x \in Modules : failed'[x] => Done(x)
      BY <1>3 DEF WaitInv, Marked, Done
    <3> QED BY <2>1, <3>1
  <2>4. ASSUME NEW x \in Modules, promise'[x] # "none"
        PROVE  (Done(x)' /\ root'[x] = x) \/ (turn' = "evaluating" /\ x = entry')
    <3>1. promise[x] # "none" \/ (k = 1 /\ x = entry)
      BY <1>1, <1>3, <1>6, <2>4
    <3>2. CASE Done(x) /\ root[x] = x
      <4>1. x \notin C
        BY <1>7, <3>2
      <4> QED BY <1>8, <1>13, <3>2, <4>1
    <3>3. CASE x = entry
      <4>1. CASE k = 1
        BY <1>7, <1>8, <1>13, <1>18, <3>3, <4>1
      <4>2. CASE k # 1
        BY <1>3, <3>3, <4>2
      <4> QED BY <4>1, <4>2
    <3> QED BY <3>1, <3>2, <3>3 DEF WaitInv, Rooted
  <2> HIDE <1>4, <1>5
  <2> QED BY <2>2, <2>3, <2>4 DEF Rooted
<1>20. Counted'
  <2> SUFFICES ASSUME NEW p \in Begun
               PROVE  Cardinality(Marks(Live', parents, p)) + Cardinality(Occurs(gather, p)) <= pending[p]
    <3>1. \A p : Marks(Live, parents, p)' = Marks(Live', parents, p) /\ Occurs(gather, p)' = Occurs(gather, p)
      BY DEF Marks, Occurs
    <3> QED BY <1>13, <3>1 DEF Counted
  <2>1. Cardinality(Marks(Live', parents, p)) <= Cardinality(Marks(Live, parents, p))
    BY <1>6, <1>13, MarksFewer
  <2>2. /\ Cardinality(Marks(Live', parents, p)) \in Nat /\ Cardinality(Marks(Live, parents, p)) \in Nat
        /\ Cardinality(Occurs(gather, p)) \in Nat
    <3>1. gather \in Seq(Modules)
      BY DEF Inv, Types
    <3> QED BY <1>6, <1>13, <3>1, MarksFinite, OccursIn
  <2>3. Cardinality(Marks(Live, parents, p)) + Cardinality(Occurs(gather, p)) <= pending[p]
        /\ pending[p] \in Int
    BY <1>6 DEF WaitInv, Counted, Begun
  <2> QED BY <2>1, <2>2, <2>3
<1>21. Waiting'
  <2>1. ASSUME NEW y \in Unfinished', NEW p \in Elements(parents[y])' PROVE Told(p)'
    <3>1. y \in Unfinished /\ y \in Modules
      BY <1>13 DEF Unfinished
    <3>2. p \in Elements(parents[y]) /\ p \in Modules
      BY <1>6, <3>1
    <3>3. Told(p) /\ p \notin E
      BY <1>11, <3>1, <3>2 DEF WaitInv, Waiting
    <3>4. status'[p] = "evaluated" => status[p] = "evaluated" /\ p \notin C
      BY <1>7, <1>8, <3>2, <3>3
    <3>5. status[p] = "evaluated" => failed[p] /\ failed[root[p]]
      BY <3>3 DEF Told
    <3>6. status'[p] = "evaluated" => root'[p] = root[p]
      BY <1>8, <3>2, <3>4
    <3>7. status'[p] = "evaluated" => failed'[p] /\ failed'[root'[p]]
      BY <1>3, <3>4, <3>5, <3>6
    <3> QED BY <3>7 DEF Told
  <2>2. ASSUME NEW x \in Modules, status'[x] = "async"
        PROVE  failed'[root'[x]] \/ root'[x] \in Condemned(x)'
    <3>1. CASE x \in C
      <4>1. root'[x] = f /\ flagged'[x]
        BY <1>8, <2>2, <3>1
      <4>2. CASE x = f
        BY <4>1, <4>2, CondemnsThen DEF CondemnsAll
      <4>3. CASE x # f
        <5>1. flagged[x]
          BY <1>9, <4>1, <4>3
        <5>2. f \in Condemned(x)
          BY <1>10, <3>1, <5>1
        <5> QED BY <1>7, <1>12, <3>1, <4>1, <5>2
      <4> QED BY <4>2, <4>3
    <3>2. CASE x \notin C
      <4>1. status[x] = "async" /\ root'[x] = root[x] /\ x \in Unfinished
        BY <1>8, <2>2, <3>2 DEF Unfinished
      <4>2. failed[root[x]] \/ root[x] \in Condemned(x)
        BY <4>1 DEF WaitInv, Waiting
      <4> QED BY <1>3, <1>12, <4>1, <4>2
    <3> QED BY <3>1, <3>2
  <2> HIDE <1>4, <1>5
  <2> QED BY <1>6, <2>1, <2>2 DEF Waiting
<1>22. \A x \in OnStack : x \notin C => x \in OnStack'
  <2> SUFFICES ASSUME NEW x \in OnStack, x \notin C PROVE Place(x) \in DOMAIN stack'
    BY <1>4
  <2>1. Place(x) \in 1..n
    BY <1>4, <1>5 DEF WellPlaced
  <2>2. Closes => Place(x) < Place(f)
    BY <1>1, <1>2
  <2> QED BY <1>4, <2>1, <2>2
<1>23. \A x \in C : x \notin OnStack'
  <2> SUFFICES ASSUME NEW x \in C, x \in OnStack' PROVE FALSE
    OBVIOUS
  <2>1. Closes /\ Place(x) >= Place(f) /\ Place(x) \in DOMAIN stack'
    BY <1>2, <1>4, <1>7
  <2> QED BY <1>4, <2>1
<1>24. Walk'
  <2> SUFFICES ASSUME turn' = "evaluating" PROVE Walk'
    BY DEF Walk
  <2>1. k # 1 /\ k - 1 \in DOMAIN frames /\ k - 1 \in 1..(k - 1)
    BY <1>1, <1>3, <1>4
  <2>2. /\ frames[k - 1].next \in DOMAIN req[frames[k - 1].at]
        /\ req[frames[k - 1].at][frames[k - 1].next] = frames[k].at
    <3>1. k - 1 < Len(frames) /\ (k - 1) + 1 = k
      BY <1>4
    <3>2. /\ frames[k - 1].next \in DOMAIN req[frames[k - 1].at]
          /\ req[frames[k - 1].at][frames[k - 1].next] = frames[(k - 1) + 1].at
      BY <2>1, <3>1 DEF TreeInv, Tree
    <3> QED BY <3>1, <3>2
  <2>3. ~AllRequested' /\ Request' = f
    <3>1. Frame' = frames[k - 1]
      <4>1. Len(frames') = k - 1 /\ frames'[k - 1] = frames[k - 1]
        BY <1>4, <2>1
      <4> QED BY <4>1 DEF Frame
    <3>2. Request' = f
      BY <1>4, <2>2, <3>1 DEF Request
    <3>3. frames[k - 1].next <= Len(req[frames[k - 1].at])
      <4>1. frames[k - 1].at \in Modules
        BY <1>5, <2>1 DEF WellPlaced
      <4>2. req[frames[k - 1].at] \in Seq(Modules)
        BY <1>5, <4>1 DEF FactsHold
      <4>3. DOMAIN req[frames[k - 1].at] = 1..Len(req[frames[k - 1].at]) /\ Len(req[frames[k - 1].at]) \in Nat
        BY <4>2, LenProperties
      <4> QED BY <2>2, <4>3
    <3>4. ~AllRequested'
      <4>1. frames[k - 1].next \in Nat
        BY <1>5, <2>1 DEF WellPlaced
      <4>2. req[frames[k - 1].at] \in Seq(Modules)
        BY <1>5, <2>1 DEF WellPlaced, FactsHold
      <4>3. Len(req[frames[k - 1].at]) \in Nat
        BY <4>2, LenProperties
      <4>4. ~(frames[k - 1].next > Len(req[frames[k - 1].at]))
        BY <3>3, <4>1, <4>3
      <4> QED BY <3>1, <4>4 DEF AllRequested
    <3> QED BY <3>2, <3>4
  <2>4. ASSUME NEW i \in 1..(k - 1), NEW b \in DOMAIN stack', Owns(i, b)', flagged'[stack'[b].of]
        PROVE  \/ frames'[i].at \in Condemned(stack[b].of)'
               \/ /\ i = k - 1 /\ f \in (OnStack \ Called)' /\ flagged'[f] /\ f \in Condemned(stack[b].of)'
    <3>1. b \in 1..n /\ stack'[b] = stack[b] /\ frames'[i] = frames[i] /\ At(i)' = At(i)
          /\ i \in DOMAIN frames /\ b \in DOMAIN stack
      BY <1>4, <2>4
    <3>2. PICK x \in Modules : x = stack[b].of
      BY <1>5, <3>1 DEF WellPlaced
    <3>3. x \in OnStack /\ Place(x) = b /\ flagged'[x] /\ x \in Unfinished /\ stack'[b].of = x
          /\ x \in OnStack'
      <4>1. x \in OnStack /\ Place(x) = b /\ flagged'[x] /\ stack'[b].of = x
        BY <1>5, <2>4, <3>1, <3>2 DEF WellPlaced
      <4>2. status[x] = "evaluating"
        BY <1>5, <4>1 DEF FactsHold
      <4> QED BY <1>4, <2>4, <4>1, <4>2 DEF Unfinished
    <3>4. At(i) < b /\ (i < k - 1 => b < At(i + 1))
      <4>1. At(i)' < b /\ (i < Len(frames') => b < At(i + 1)')
        BY <2>4 DEF Owns
      <4>2. i < k - 1 => At(i + 1)' = At(i + 1)
        <5>1. i < k - 1 => i + 1 \in 1..(k - 1)
          BY <1>4
        <5> QED BY <1>4, <5>1
      <4> QED BY <1>4, <3>1, <4>1, <4>2
    <3>5. CASE b < At(k)
      <4>1. Owns(i, b)
        <5>1. i < Len(frames) => b < At(i + 1)
          <6>1. CASE i = k - 1
            <7>1. i + 1 = k
              BY <1>4, <6>1
            <7>2. At(i + 1) = At(k)
              BY <7>1
            <7> QED BY <3>5, <7>2
          <6>2. CASE i # k - 1
            BY <1>4, <3>4, <6>2
          <6> QED BY <6>1, <6>2
        <5> QED BY <3>4, <5>1 DEF Owns
      <4>2. x # f
        BY <1>4, <3>1, <3>3, <3>5
      <4>3. flagged[x]
        BY <1>9, <3>3, <4>2
      <4>4. frames[i].at \in Condemned(x)
        BY <3>1, <3>2, <4>1, <4>3 DEF WaitInv, Walk
      <4> QED BY <1>12, <3>1, <3>2, <3>3, <4>4
    <3>6. CASE b >= At(k)
      <4>1. i = k - 1
        <5>1. ASSUME i # k - 1 PROVE FALSE
          <6>1. i + 1 \in 1..k /\ b < At(i + 1)
            BY <1>4, <3>4, <5>1
          <6>2. At(i + 1) <= At(k)
            BY <1>4, <6>1
          <6>3. At(i + 1) \in 1..n
            BY <1>4, <5>1
          <6> QED BY <1>4, <3>1, <3>6, <6>1, <6>2, <6>3
        <5> QED BY <5>1
      <4>2. ~Closes /\ f \in OnStack' /\ f \notin Called'
        <5>1. ~Closes
          BY <1>4, <2>4, <3>1, <3>6
        <5>2. f \notin C
          BY <5>1
        <5> QED BY <1>1, <1>4, <1>22, <5>1, <5>2
      <4>3. CASE b = At(k)
        <5>1. x = f
          <6>1. stack[At(k)].of = f
            BY <1>1, <1>4, <1>5 DEF WellPlaced
          <6> QED BY <3>2, <4>3, <6>1
        <5>2. f \in Condemned(x)'
          BY <5>1, CondemnsThen DEF CondemnsAll
        <5> QED BY <3>2, <3>3, <4>1, <4>2, <5>1, <5>2
      <4>4. CASE b # At(k)
        <5>1. x # f /\ Place(x) >= Place(f)
          BY <1>4, <3>1, <3>3, <3>6, <4>4
        <5>2. flagged[x]
          BY <1>9, <3>3, <5>1
        <5>3. f \in Condemned(x)
          BY <1>2, <3>3, <5>1, <5>2
        <5>4. flagged'[f]
          <6>1. ASSUME ~flagged'[f] PROVE FALSE
            <7>1. pending[f] <= 0
              BY <1>9, <6>1
            <7> QED BY <1>1, <3>3, <5>1, <5>3, <7>1, NotCondemned
          <6> QED BY <6>1
        <5>5. f \in Condemned(x)'
          BY <1>12, <3>3, <5>3
        <5> QED BY <3>2, <3>3, <4>1, <4>2, <5>4, <5>5
      <4> QED BY <4>3, <4>4
    <3> QED BY <1>4, <3>1, <3>5, <3>6
  <2>5. ASSUME NEW y \in OnStack', NEW p \in Elements(parents[y])', status'[p] # "evaluated"
        PROVE  p \in OnStack' /\ stack'[Place(p)'].low <= Place(y)'
    <3>1. y \in OnStack /\ Place(y)' = Place(y) /\ y \in Modules /\ y \notin C
      BY <1>4, <1>5, <1>23, <2>5 DEF FactsHold
    <3>2. p \in Elements(parents[y]) /\ p \in Modules
      BY <1>6, <2>5, <3>1
    <3>3. status[p] # "evaluated"
      BY <1>7, <1>8, <2>5, <3>2
    <3>4. p \in OnStack /\ stack[Place(p)].low <= Place(y)
      BY <3>1, <3>2, <3>3 DEF WaitInv, Walk
    <3>5. p \notin C
      <4>1. ASSUME p \in C PROVE FALSE
        <5>1. Closes /\ stack[Place(p)].low >= Place(f)
          BY <1>2, <4>1
        <5>2. Place(y) < Place(f)
          BY <1>1, <1>2, <3>1, <5>1
        <5>3. stack[Place(p)].low \in Nat /\ Place(y) \in Nat /\ Place(f) \in Nat
          BY <1>1, <1>2, <1>5, <3>1, <3>4 DEF WellPlaced
        <5> QED BY <3>4, <5>1, <5>2, <5>3
      <4> QED BY <4>1
    <3>6. p \in OnStack'
      BY <1>22, <3>4, <3>5
    <3>7. Place(p)' = Place(p) /\ stack'[Place(p)] = stack[Place(p)]
      BY <1>4, <3>6
    <3> QED BY <3>1, <3>4, <3>6, <3>7
  <2>6. \A i \in DOMAIN frames' : \A b \in DOMAIN stack' : Owns(i, b)' /\ flagged'[stack'[b].of] =>
             \/ frames'[i].at \in Condemned(stack[b].of)'
             \/ /\ i = Len(frames') /\ ~AllRequested' /\ Request' \in (OnStack \ Called)'
                /\ flagged'[Request'] /\ Request' \in Condemned(stack[b].of)'
    BY <1>4, <2>3, <2>4
  <2> HIDE <1>4, <1>5
  <2> QED BY <2>5, <2>6 DEF Walk
<1>25. \A x \in Modules : Dealt(x)' = Dealt(x)
  <2> SUFFICES ASSUME NEW x \in Modules PROVE Dealt(x)' = Dealt(x)
    OBVIOUS
  <2>1. ASSUME NEW j \in DOMAIN req[x]
        PROVE  (\A i \in DOMAIN frames' : frames'[i].at = x => j < frames'[i].next)
               <=> (\A i \in DOMAIN frames : frames[i].at = x => j < frames[i].next)
    <3>1. \A i \in DOMAIN frames : i \in DOMAIN frames' \/ i = k
      BY <1>4
    <3>2. \A i \in DOMAIN frames' : i \in DOMAIN frames /\ frames'[i] = frames[i]
      BY <1>4
    <3>3. frames[k].at = x => j < frames[k].next
      <4>1. AllRequested => \A h \in DOMAIN req[Frame.at] : h < Frame.next
        BY <1>1, Requested
      <4>2. \A h \in DOMAIN req[f] : h < Frame.next
        BY <4>1
      <4>3. frames[k] = Frame /\ Frame.at = f
        BY <1>4
      <4> QED BY <4>2, <4>3
    <3> QED BY <3>1, <3>2, <3>3
  <2> QED BY <2>1 DEF Dealt
<1>26. Ordered'
  <2> SUFFICES ASSUME NEW x \in Begun, ~failed[x], NEW d \in Dealt(x)
               PROVE  Stays(x, d)' \/ InCycle(x, d)' \/ Settled(d)' \/ WaitsFor(x, d)'
    <3>1. \A x \in Begun : x \in Modules
      BY DEF Begun
    <3> QED BY <1>3, <1>13, <1>25, <3>1 DEF Ordered
  <2>1. x \in Modules /\ d \in Modules
    BY DealtWith DEF Begun
  <2>2. Stays(x, d) \/ InCycle(x, d) \/ Settled(d) \/ WaitsFor(x, d)
    BY DEF WaitInv, Ordered
  <2>3. \A z \in Modules : Done(z) => /\ z \notin C /\ Done(z)' /\ root'[z] = root[z] /\ root[z] \in Modules
                                      /\ Done(root[z]) /\ root[z] \notin C /\ status'[root[z]] = status[root[z]]
    <3> SUFFICES ASSUME NEW z \in Modules, Done(z)
                 PROVE  /\ z \notin C /\ Done(z)' /\ root'[z] = root[z] /\ root[z] \in Modules
                        /\ Done(root[z]) /\ root[z] \notin C /\ status'[root[z]] = status[root[z]]
      OBVIOUS
    <3>1. root[z] \in Modules /\ Done(root[z])
      BY DEF Inv, Reached, WaitInv, Rooted
    <3>2. z \notin C /\ root[z] \notin C
      BY <1>7, <3>1
    <3> QED BY <1>8, <1>13, <3>1, <3>2
  <2>4. ASSUME Stays(x, d) PROVE Stays(x, d)' \/ InCycle(x, d)'
    <3>1. x \in OnStack /\ d \in OnStack /\ x \in Graph(d) /\ stack[Place(x)].low <= Place(d)
          /\ \A c \in Called : Place(c) > Place(x) => Place(d) < Place(c)
      BY <2>4 DEF Stays
    <3>2. Place(x) \in Nat /\ Place(d) \in Nat /\ Place(f) \in Nat /\ stack[Place(x)].low \in Nat
      BY <1>1, <1>2, <1>5, <3>1 DEF WellPlaced
    <3>3. x \in Graph(d)'
      BY <3>1, GraphStays
    <3>4. x \in C <=> d \in C
      <4>1. ASSUME x \in C, d \notin C PROVE FALSE
        <5>1. stack[Place(x)].low >= Place(f) /\ Place(d) < Place(f)
          BY <1>1, <1>2, <3>1, <3>2, <4>1
        <5> QED BY <3>1, <3>2, <5>1
      <4>2. ASSUME x \notin C, d \in C PROVE FALSE
        <5>1. Place(x) < Place(f) /\ Place(d) >= Place(f)
          BY <1>1, <1>2, <3>1, <3>2, <4>2
        <5> QED BY <1>1, <3>1, <3>2, <5>1
      <4> QED BY <4>1, <4>2
    <3>5. CASE x \in C
      <4>1. root'[x] = f /\ root'[d] = f /\ Done(x)' /\ Done(d)'
        BY <1>8, <1>13, <2>1, <3>4, <3>5
      <4> QED BY <3>3, <4>1 DEF InCycle
    <3>6. CASE x \notin C
      <4>1. x \in OnStack' /\ d \in OnStack'
        BY <1>22, <3>1, <3>4, <3>6
      <4>2. Place(x)' = Place(x) /\ Place(d)' = Place(d) /\ stack'[Place(x)] = stack[Place(x)]
        BY <1>4, <4>1
      <4>3. \A c \in Called' : Place(c)' > Place(x)' => Place(d)' < Place(c)'
        <5>1. \A c \in Called' : c \in Called /\ Place(c)' = Place(c)
          <6>1. \A c \in Called' : c \in OnStack'
            BY <1>5 DEF FactsHold
          <6> QED BY <1>4, <6>1
        <5> QED BY <3>1, <4>2, <5>1
      <4> HIDE <1>4, <1>5
      <4> QED BY <3>1, <3>3, <4>1, <4>2, <4>3 DEF Stays
    <3> QED BY <3>5, <3>6
  <2>5. InCycle(x, d) => InCycle(x, d)'
    BY <2>1, <2>3, GraphStays DEF InCycle
  <2>6. Settled(d) => Settled(d)'
    <3>1. ASSUME Settled(d) PROVE Settled(d)'
      <4>1. Done(d) /\ ~failed[d] /\ status[root[d]] = "evaluated" /\ ~failed[root[d]]
        BY <3>1 DEF Settled
      <4>2. Done(d)' /\ root'[d] = root[d] /\ status'[root[d]] = status[root[d]]
        BY <2>1, <2>3, <4>1
      <4> QED BY <1>3, <4>1, <4>2 DEF Settled
    <3> QED BY <3>1
  <2>7. WaitsFor(x, d) => WaitsFor(x, d)'
    <3>1. ASSUME WaitsFor(x, d) PROVE WaitsFor(x, d)'
      <4>1. Done(d) /\ status[root[d]] = "async" /\ x \in Elements(parents[root[d]])
        BY <3>1 DEF WaitsFor
      <4>2. Done(d)' /\ root'[d] = root[d] /\ status'[root[d]] = status[root[d]]
        BY <2>1, <2>3, <4>1
      <4> QED BY <4>1, <4>2 DEF WaitsFor, Elements
    <3> QED BY <3>1
  <2> QED BY <2>2, <2>4, <2>5, <2>6, <2>7
<1>27. Outcome'
  <2>1. \A x : Graph(x)' = Graph(x)
    BY GraphStays
  <2>2. ASSUME NEW x \in Modules, failed[x] PROVE \E d \in Graph(x) : body'[d] = "threw"
    <3>1. PICK d \in Graph(x) : body[d] = "threw"
      BY <2>2 DEF WaitInv, Outcome
    <3>2. d \in Modules /\ d # f
      BY <1>1, <3>1, GraphOn
    <3> QED BY <1>9, <3>1, <3>2
  <2>3. ASSUME NEW x \in Modules, Done(x)', ~failed'[x] PROVE root'[x] \in Graph(x)
    <3>1. CASE x \in C
      <4>1. f \in Graph(x)
        BY <1>1, <1>7, <3>1, ReachesCall DEF TreeInv
      <4> QED BY <1>8, <3>1, <4>1
    <3>2. CASE x \notin C
      <4>1. Done(x) /\ root'[x] = root[x]
        BY <1>8, <1>13, <2>3, <3>2
      <4> QED BY <1>3, <2>3, <4>1 DEF WaitInv, Outcome
    <3> QED BY <3>1, <3>2
  <2>4. \A y \in Modules : \A p \in Elements(parents[y])' : y \in Graph(p)
    BY <1>6 DEF WaitInv, Outcome
  <2> HIDE <1>4, <1>5
  <2> QED BY <1>3, <2>1, <2>2, <2>3, <2>4 DEF Outcome
<1> HIDE <1>4, <1>5
<1> QED BY <1>15, <1>16, <1>17, <1>19, <1>20, <1>21, <1>24, <1>26, <1>27 DEF WaitInv

LEMMA PostponeWaits == ASSUME Inv, TreeInv, WaitInv, Postpone PROVE WaitInv'
<1>1. Inv'
  BY PostponeKeeps
<1> QED BY <1>1, ReturnWaits DEF Postpone, graph, lists

LEMMA ExecuteWaits == ASSUME Inv, TreeInv, WaitInv, Execute PROVE WaitInv'
<1>1. Inv'
  BY ExecuteKeeps
<1> QED BY <1>1, ReturnWaits DEF Execute, graph, waits, lists

LEMMA StutteringWaits == ASSUME WaitInv, UNCHANGED vars PROVE WaitInv'
<1>1. /\ req' = req /\ tla' = tla /\ status' = status /\ root' = root /\ promise' = promise
      /\ failed' = failed /\ flagged' = flagged /\ stamp' = stamp /\ pending' = pending
      /\ parents' = parents /\ body' = body /\ turn' = turn /\ entry' = entry
      /\ frames' = frames /\ stack' = stack /\ gather' = gather /\ ready' = ready
  BY DEF vars, graph, results, waits, calls, lists
<1>2. /\ OnStack' = OnStack /\ Called' = Called /\ Begun' = Begun /\ Live' = Live
      /\ Unfinished' = Unfinished /\ LastStamp' = LastStamp
      /\ (AllRequested' <=> AllRequested) /\ Request' = Request
  BY <1>1 DEF OnStack, Called, Begun, Live, Unfinished, LastStamp, AllRequested, Request, Frame
<1>3. /\ \A x : Place(x)' = Place(x) /\ Graph(x)' = Graph(x)
      /\ \A x : Dealt(x)' = Dealt(x)
      /\ \A x : Condemned(x)' = Condemned(x)
      /\ \A y : Elements(parents[y])' = Elements(parents[y])
      /\ Elements(gather)' = Elements(gather)
  BY <1>1 DEF Place, Graph, Dealt, Elements, Condemned
<1>4. MoreTypes'
  BY <1>1 DEF WaitInv, MoreTypes
<1>5. Marked'
  BY <1>1, <1>2 DEF WaitInv, Marked
<1>6. Stamped'
  BY <1>1, <1>2, <1>3 DEF WaitInv, Stamped
<1>7. Rooted'
  BY <1>1 DEF WaitInv, Rooted, Done
<1>8. Counted'
  BY <1>1, <1>2 DEF WaitInv, Counted, Marks, Occurs
<1>9. Waiting'
  <2>1. \A p : Told(p)' <=> Told(p)
    BY <1>1 DEF Told
  <2>2. \A m : (root[m] \in Condemned(m))' <=> root[m] \in Condemned(m)
    BY <1>1, <1>3
  <2> QED BY <1>1, <1>2, <1>3, <2>1, <2>2 DEF WaitInv, Waiting
<1>10. Walk'
  <2>1. \A i : At(i)' = At(i)
    BY <1>1, <1>3 DEF At
  <2>2. \A i, b : Owns(i, b)' <=> Owns(i, b)
    BY <1>1, <2>1 DEF Owns
  <2>3. \A b, i : (frames[i].at \in Condemned(stack[b].of))' <=> frames[i].at \in Condemned(stack[b].of)
    BY <1>1, <1>3
  <2>4. \A b : (Request \in Condemned(stack[b].of))' <=> Request \in Condemned(stack[b].of)
    BY <1>1, <1>2, <1>3
  <2> QED BY <1>1, <1>2, <1>3, <2>2, <2>3, <2>4 DEF WaitInv, Walk
<1>11. Ordered'
  <2>1. \A x, d : Stays(x, d)' <=> Stays(x, d)
    BY <1>1, <1>2, <1>3 DEF Stays
  <2>2. \A x, d : InCycle(x, d)' <=> InCycle(x, d)
    BY <1>1, <1>3 DEF InCycle, Done
  <2>3. \A d : Settled(d)' <=> Settled(d)
    BY <1>1 DEF Settled, Done
  <2>4. \A x, d : WaitsFor(x, d)' <=> WaitsFor(x, d)
    BY <1>1 DEF WaitsFor, Done, Elements
  <2> QED BY <1>1, <1>2, <1>3, <2>1, <2>2, <2>3, <2>4 DEF WaitInv, Ordered
<1>12. Outcome'
  BY <1>1, <1>3 DEF WaitInv, Outcome, Done
<1> QED BY <1>4, <1>5, <1>6, <1>7, <1>8, <1>9, <1>10, <1>11, <1>12 DEF WaitInv

LEMMA WaitKeeps == Inv /\ TreeInv /\ WaitInv /\ [Next]_vars => WaitInv'
<1> SUFFICES ASSUME Inv, TreeInv, WaitInv, [Next]_vars PROVE WaitInv'
  OBVIOUS
<1>1. ASSUME NEW m \in Modules, Import(m) PROVE WaitInv'
  BY <1>1, ImportWaits
<1>2. CASE LinkRequest
  BY <1>2, LinkRequestWaits
<1>3. CASE LinkModule
  BY <1>3, LinkModuleWaits
<1>4. CASE LinkFails
  BY <1>4, LinkFailsWaits
<1>5. CASE Evaluate
  BY <1>5, EvaluateWaits
<1>6. CASE EvaluateRequest
  BY <1>6, EvaluateRequestWaits
<1>7. CASE RequestEvaluated
  BY <1>7, RequestEvaluatedWaits
<1>8. CASE RequestFails
  BY <1>8, RequestFailsWaits
<1>9. CASE Postpone
  BY <1>9, PostponeWaits
<1>10. CASE Execute
  BY <1>10, ExecuteWaits
<1>11. CASE Throws
  BY <1>11, ThrowsWaits
<1>12. CASE Gather
  BY <1>12, GatherWaits
<1>13. CASE Gathered \/ Ran
  BY <1>13, TurnsWait
<1>14. ASSUME NEW m \in Modules, Run(m) PROVE WaitInv'
  BY <1>14, RunWaits
<1>15. ASSUME NEW m \in Modules, BodyThrows(m) PROVE WaitInv'
  BY <1>15, BodyThrowsWaits
<1>16. ASSUME NEW m \in Modules, BodyEnds(m) PROVE WaitInv'
  BY <1>16, BodyEndsWaits
<1>17. CASE UNCHANGED vars
  BY <1>17, StutteringWaits
<1> QED BY <1>1, <1>2, <1>3, <1>4, <1>5, <1>6, <1>7, <1>8, <1>9, <1>10, <1>11, <1>12, <1>13,
           <1>14, <1>15, <1>16, <1>17 DEF Next, Engine, Settle

\* What no other part speaks of: the modules that are bad stay so, and imports are counted.
Rest == bad \subseteq Modules /\ imports \in Nat

LEMMA RestKeeps == (Init => Rest) /\ (Rest /\ [Next]_vars => Rest')
<1>1. Init => Rest
  BY DEF Init, Rest
<1>2. Rest /\ [Next]_vars => Rest'
  <2> SUFFICES ASSUME Rest, [Next]_vars PROVE Rest'
    OBVIOUS
  <2>1. CASE bad' = bad /\ imports' = imports
    BY <2>1 DEF Rest
  <2>2. ASSUME NEW m \in Modules, Import(m) PROVE Rest'
    BY <2>2 DEF Rest, Import, graph
  <2>3. ASSUME NEW m \in Modules, Settle(m) \/ Run(m) PROVE bad' = bad /\ imports' = imports
    BY <2>3 DEF Settle, BodyThrows, BodyEnds, Run, graph
  <2>4. CASE UNCHANGED vars
    BY <2>1, <2>4 DEF vars, graph
  <2> QED BY <2>1, <2>2, <2>3, <2>4
          DEF Next, Engine, LinkRequest, LinkModule, LinkFails, Evaluate, EvaluateRequest,
              RequestEvaluated, RequestFails, Postpone, Execute, Throws, Gather, Gathered, Ran, graph
<1> QED BY <1>1, <1>2

\* A module is counted down only by those that are still to do so.
LEMMA PendingIsCount == ASSUME Inv, WaitInv PROVE pending \in [Modules -> Nat]
<1>1. pending \in [Modules -> Int] /\ parents \in [Modules -> Seq(Modules)] /\ gather \in Seq(Modules)
      /\ Live \in SUBSET Modules
  BY Facts DEF Inv, Types
<1>2. ASSUME NEW m \in Modules PROVE pending[m] >= 0
  <2>1. CASE m \in Begun
    <3>1. Cardinality(Marks(Live, parents, m)) \in Nat /\ Cardinality(Occurs(gather, m)) \in Nat
      BY <1>1, MarksFinite, OccursIn
    <3>2. Cardinality(Marks(Live, parents, m)) + Cardinality(Occurs(gather, m)) <= pending[m]
      BY <2>1 DEF WaitInv, Counted
    <3> QED BY <1>1, <3>1, <3>2
  <2>2. CASE m \notin Begun
    BY <2>2 DEF WaitInv, Marked
  <2> QED BY <2>1, <2>2
<1> QED BY <1>1, <1>2

LEMMA TypesHold == ASSUME Inv, WaitInv, Rest PROVE TypeOK
BY PendingIsCount DEF Inv, Types, WaitInv, MoreTypes, Rest, TypeOK, CallOf, PlaceFor

\* A capability is that of the first module of a cycle.
LEMMA RootIsOwn ==
    ASSUME Inv, TreeInv, WaitInv, NEW m \in Modules, Done(m), promise[m] # "none"
    PROVE  root[m] = m
<1>1. (Done(m) /\ root[m] = m) \/ (turn = "evaluating" /\ m = entry)
  BY DEF WaitInv, Rooted
<1>2. ASSUME turn = "evaluating", m = entry PROVE FALSE
  <2>1. frames # <<>> /\ frames[1].at = m
    BY <1>2 DEF Inv, Stacked, CallsFollowStack, TreeInv, Linked
  <2>2. 1 \in DOMAIN frames
    BY <2>1, Listed DEF Inv
  <2>3. m \in OnStack
    BY <2>1, <2>2, Places DEF WellPlaced
  <2> QED BY <2>3, Facts
<1> QED BY <1>1, <1>2

LEMMA AssertionsFollow == ASSUME Inv, TreeInv, WaitInv PROVE AssertionsHold
<1>1. ASSUME NEW m \in Modules, body[m] = "running"
      PROVE  IF status[m] = "evaluated" THEN failed[m]
             ELSE turn \in {"evaluating"} \/ (status[m] = "async" /\ ~failed[m] /\ flagged[m])
  <2>1. flagged[m] /\ (status[m] = "evaluated" => failed[m]) /\ (failed[m] => status[m] = "evaluated")
    BY <1>1 DEF WaitInv, Marked
  <2>2. m \in Begun
    BY <1>1 DEF Inv, Reached
  <2>3. status[m] = "evaluating" => turn = "evaluating"
    BY Facts
  <2> QED BY <2>1, <2>2, <2>3 DEF Begun
<1>2. ASSUME gather # <<>>, NEW p, p = Head(gather), p \notin ready, ~failed[root[p]]
      PROVE  status[p] = "async" /\ ~failed[p] /\ flagged[p] /\ pending[p] > 0
  <2>1. p \in Elements(gather) /\ p \in Begun /\ p \in Modules
    <3>1. gather \in Seq(Modules) /\ 1 \in DOMAIN gather /\ p = gather[1]
      BY <1>2, Facts, LenProperties, EmptySeq
    <3>2. p \in Elements(gather)
      BY <3>1 DEF Elements
    <3> QED BY <3>2, Facts
  <2>2. turn = "gathering"
    BY <1>2 DEF WaitInv, Marked
  <2>3. Done(p)
    BY <2>1, <2>2, Facts
  <2>4. status[p] # "evaluated"
    BY <1>2, <2>1 DEF WaitInv, Waiting, Told
  <2>5. status[p] = "async" /\ ~failed[p] /\ flagged[p]
    BY <2>1, <2>3, <2>4 DEF Done, WaitInv, Marked
  <2>6. pending[p] > 0
    <3>1. pending[p] \in Int
      BY <2>1 DEF Inv, Types
    <3>2. ASSUME pending[p] <= 0 PROVE FALSE
      BY <2>1, <3>2, NothingAwaited
    <3> QED BY <3>1, <3>2
  <2> QED BY <2>5, <2>6
<1>3. ASSUME turn = "running", NEW m \in ready, status[m] = "evaluated" PROVE failed[m]
  BY <1>3 DEF WaitInv, Marked
<1>4. ASSUME turn = "idle"
      PROVE  stack = <<>> /\ \A m \in Modules : status[m] \notin {"linking", "evaluating"}
  <2>1. frames = <<>>
    BY <1>4, NoCall
  <2> QED BY <2>1, Resting DEF Inv
<1> QED BY <1>1, <1>2, <1>3, <1>4, RootIsOwn DEF AssertionsHold

\* What a module that waits for nothing more has requested is of its cycle or complete.
LEMMA NothingLeft ==
    ASSUME Inv, WaitInv, NEW m \in Begun, ~failed[m], Dealt(m) = Elements(req[m]),
           pending[m] <= 0, ready = {} \/ (First(m) /\ status[m] = "async"),
           NEW d \in Elements(req[m])
    PROVE  m \in Graph(d) \/ body[d] = "done"
<1>1. m \in Modules /\ d \in Modules
  BY FactsNow DEF FactsHold
<1>2. Stays(m, d) \/ InCycle(m, d) \/ Settled(d) \/ WaitsFor(m, d)
  BY DEF WaitInv, Ordered
<1>3. CASE Stays(m, d) \/ InCycle(m, d)
  BY <1>3 DEF Stays, InCycle
<1>4. CASE Settled(d)
  BY <1>1, <1>4, RootStands DEF Settled
<1>5. CASE WaitsFor(m, d)
  <2>1. status[root[d]] = "async" /\ m \in Elements(parents[root[d]]) /\ root[d] \in Modules
    BY <1>1, <1>5 DEF WaitsFor, Inv, Reached
  <2>2. root[d] \in Unfinished
    BY <2>1 DEF Unfinished
  <2> QED BY <2>1, <2>2, NobodyAwaited
<1> QED BY <1>2, <1>3, <1>4, <1>5

\* A call whose requests are all dealt with leaves none of its module's.
LEMMA AllDealtWith ==
    ASSUME Inv, frames # <<>>, AllRequested
    PROVE  Dealt(Frame.at) = Elements(req[Frame.at])
<1>1. WellPlaced
  BY Places
<1>2. \A i \in DOMAIN frames : frames[i].at = Frame.at => i = Len(frames)
  <2>1. Frame = frames[Len(frames)] /\ Len(frames) \in DOMAIN frames
    BY Requested
  <2> SUFFICES ASSUME NEW i \in DOMAIN frames, frames[i].at = frames[Len(frames)].at, i # Len(frames) PROVE FALSE
    BY <2>1
  <2>2. i < Len(frames)
    BY <1>1 DEF WellPlaced
  <2>3. At(i) < At(Len(frames)) /\ At(i) = At(Len(frames))
    BY <1>1, <2>1, <2>2 DEF WellPlaced, At
  <2>4. At(i) \in Nat
    BY <1>1 DEF WellPlaced
  <2> QED BY <2>3, <2>4
<1>3. \A j \in DOMAIN req[Frame.at] : j < Frame.next
  BY Requested
<1> QED BY <1>2, <1>3, Requested DEF Dealt, Elements

LEMMA StartsKeeps ==
    ASSUME Inv, TreeInv, WaitInv, StartsAfterItsRequests, [Next]_vars
    PROVE  StartsAfterItsRequests'
<1> SUFFICES ASSUME NEW m \in Modules, body'[m] # "new", NEW d \in Elements(req[m])'
             PROVE  m \in Graph(d)' \/ body'[d] = "done"
  BY DEF StartsAfterItsRequests
<1>1. req' = req
  <2>1. \A n \in Modules : Import(n) \/ Settle(n) \/ Run(n) => req' = req
    BY DEF Import, Settle, BodyThrows, BodyEnds, Run, graph
  <2> QED BY <2>1
          DEF Next, Engine, LinkRequest, LinkModule, LinkFails, Evaluate, EvaluateRequest,
              RequestEvaluated, RequestFails, Postpone, Execute, Throws, Gather, Gathered, Ran, graph, vars
<1>2. d \in Elements(req[m]) /\ d \in Modules /\ Graph(d)' = Graph(d)
  BY <1>1, GraphStays, FactsNow DEF FactsHold, Elements
<1>3. body[d] = "done" => body'[d] = "done"
  BY <1>2, CalledOnce DEF Onward
<1>4. m \in Graph(d) \/ body[d] = "done"
  <2>1. CASE body[m] # "new"
    BY <1>2, <2>1 DEF StartsAfterItsRequests
  <2>2. CASE body[m] = "new"
    <3>1. body' # body
      BY <2>2
    <3>2. CASE Postpone \/ Execute \/ Throws
      <4>1. turn = "evaluating" /\ AllRequested /\ frames # <<>>
        BY <3>2 DEF Postpone, Execute, Throws, Inv, Stacked, CallsFollowStack
      <4>2. Frame.at \in Modules /\ Frame.at \in OnStack
        BY <4>1, Requested
      <4>3. m = Frame.at /\ pending[m] <= 0
        <5>1. pending[m] \in Int
          BY DEF Inv, Types
        <5> QED BY <2>2, <3>2, <5>1 DEF Postpone, Execute, Throws, Inv, Types
      <4>4. ready = {} /\ m \in Begun /\ ~failed[m]
        <5>1. ready = {} /\ m \in Begun /\ ~Done(m)
          BY <4>1, <4>2, <4>3, Facts
        <5> QED BY <5>1 DEF WaitInv, Marked, Done
      <4>5. Dealt(m) = Elements(req[m])
        BY <4>1, <4>3, AllDealtWith
      <4> QED BY <1>2, <4>3, <4>4, <4>5, NothingLeft
    <3>3. CASE Run(m)
      <4>1. m \in ready /\ First(m) /\ status[m] # "evaluated" /\ turn = "running"
        BY <2>2, <3>3 DEF Run, First
      <4>2. status[m] = "async" /\ ~failed[m] /\ pending[m] <= 0 /\ m \in Begun
        BY <4>1 DEF WaitInv, Marked, Inv, NotStarted, Begun
      <4>3. m \notin Called
        BY <4>1, <4>2, Facts
      <4>4. Dealt(m) = Elements(req[m])
        BY <4>3, DealtWith
      <4> QED BY <1>2, <4>1, <4>2, <4>4, NothingLeft
    <3>4. ASSUME NEW n \in Modules, Run(n), n # m PROVE FALSE
      BY <2>2, <3>4 DEF Run, Inv, Types
    <3>5. ASSUME NEW n \in Modules, Settle(n) PROVE FALSE
      BY <2>2, <3>5 DEF Settle, BodyThrows, BodyEnds, Inv, Types
    <3>6. ~UNCHANGED vars
      BY <3>1 DEF vars, results
    <3> QED BY <3>1, <3>2, <3>3, <3>4, <3>5, <3>6
            DEF Next, Engine, Import, LinkRequest, LinkModule, LinkFails, Evaluate, EvaluateRequest,
                RequestEvaluated, RequestFails, Gather, Gathered, Ran, results
  <2> QED BY <2>1, <2>2
<1> QED BY <1>2, <1>3, <1>4

-----------------------------------------------------------------------------
(* What the imports are told.                                              *)

\* A module whose capability is settled has itself completed, or failed.
Answer(m) ==
    /\ promise[m] = "fulfilled" => status[m] = "evaluated" /\ ~failed[m]
    /\ promise[m] = "rejected" => failed[m]
Answered == \A m \in Modules : Answer(m)

\* How a step may change the capability of m, or leave it.
Answers(m) ==
    /\ promise'[m] = promise[m]
       \/ (promise'[m] = "fulfilled" /\ status'[m] = "evaluated" /\ ~failed'[m])
       \/ (promise'[m] = "rejected" /\ failed'[m])
       \/ promise'[m] = "pending"
    /\ failed[m] => failed'[m]
    /\ status[m] = "evaluated" => status'[m] = "evaluated" /\ failed'[m] = failed[m]

LEMMA OnlyAnswers == ASSUME NEW m, Answer(m), Answers(m) PROVE Answer(m)'
BY DEF Answer, Answers

LEMMA RejectAnswers ==
    ASSUME Inv, WaitInv, NEW n \in Modules, status[n] # "evaluated", Reject(n), NEW m \in Modules
    PROVE  Answers(m)
<1>1. /\ status' = [x \in Modules |-> IF x \in Condemned(n) THEN "evaluated" ELSE status[x]]
      /\ failed' = [x \in Modules |-> failed[x] \/ x \in Condemned(n)]
      /\ promise' = [x \in Modules |->
                       IF x \in Condemned(n) /\ promise[x] # "none" THEN "rejected" ELSE promise[x]]
  BY DEF Reject
<1>2. status[m] = "evaluated" => m \notin Condemned(n)
  <2>1. \A y \in Modules : Elements(parents[y]) \subseteq Modules
    BY FactsNow DEF FactsHold
  <2> QED BY <2>1, CondemnsUnfinished DEF Unfinished
<1>3. failed[m] \in BOOLEAN
  BY DEF WaitInv, MoreTypes
<1> QED BY <1>1, <1>2, <1>3 DEF Answers

LEMMA SetAnswers ==
    ASSUME Inv, WaitInv, NEW n \in Modules, status[n] # "evaluated", SetEvaluated(n), NEW m \in Modules
    PROVE  Answers(m)
<1>1. /\ status \in [Modules -> {"unlinked", "linking", "linked", "evaluating", "async", "evaluated"}]
      /\ promise \in [Modules -> {"none", "pending", "fulfilled", "rejected"}]
      /\ ~failed[n]
  BY DEF Inv, Types, WaitInv, MoreTypes, Marked
<1> QED BY <1>1 DEF SetEvaluated, Answers

LEMMA AbandonAnswers ==
    ASSUME Inv, TreeInv, WaitInv, turn = "evaluating", Abandon, NEW m \in Modules
    PROVE  Answers(m)
<1>1. entry \in OnStack
  <2>1. frames # <<>> /\ frames[1].at = entry
    BY DEF Inv, Stacked, CallsFollowStack, TreeInv, Linked
  <2>2. 1 \in DOMAIN frames
    BY <2>1, Listed DEF Inv
  <2> QED BY <2>1, <2>2, Places DEF WellPlaced
<1>2. /\ status' = [x \in Modules |-> IF x \in OnStack THEN "evaluated" ELSE status[x]]
      /\ failed' = [x \in Modules |-> failed[x] \/ x \in OnStack]
      /\ promise' = [promise EXCEPT ![entry] = "rejected"]
  BY DEF Abandon
<1>3. status[m] = "evaluated" => m \notin OnStack
  BY Facts
<1>4. /\ promise \in [Modules -> {"none", "pending", "fulfilled", "rejected"}]
      /\ failed[m] \in BOOLEAN
  BY DEF WaitInv, MoreTypes
<1> QED BY <1>1, <1>2, <1>3, <1>4 DEF Answers

LEMMA ReturnAnswers ==
    ASSUME Inv, TreeInv, WaitInv, Inv', turn = "evaluating", AllRequested, Return, NEW m \in Modules
    PROVE  Answers(m)
<1>1. /\ frames # <<>> /\ Frame.at \in OnStack /\ Frame.at \in Modules /\ status[Frame.at] = "evaluating"
      /\ frames[1].at = entry
  BY RequestLinked DEF TreeInv, Linked
<1>2. /\ promise \in [Modules -> {"none", "pending", "fulfilled", "rejected"}]
      /\ \A x \in Modules : failed[x] => status[x] = "evaluated"
  BY DEF WaitInv, MoreTypes, Marked
<1>3. failed' = failed
  BY DEF Return
<1>4. status[m] = "evaluated" => status'[m] = "evaluated"
  <2>1. CASE Closes
    <3>1. Cycle \subseteq OnStack
      BY <1>1, Below DEF Inv
    <3>2. status[m] = "evaluated" => m \notin Cycle
      BY <3>1, Facts
    <3> QED BY <2>1, <3>2 DEF Return
  <2>2. CASE ~Closes
    BY <2>2 DEF Return
  <2> QED BY <2>1, <2>2
<1>5. ASSUME promise'[m] # promise[m]
      PROVE  promise'[m] = "fulfilled" /\ status'[m] = "evaluated" /\ ~failed[m]
  <2>1. Len(frames) = 1 /\ ~flagged'[entry] /\ promise' = [promise EXCEPT ![entry] = "fulfilled"]
    BY <1>5 DEF Return
  <2>2. m = entry /\ promise'[m] = "fulfilled"
    BY <1>2, <1>5, <2>1
  <2>3. m = Frame.at
    BY <1>1, <2>1, <2>2 DEF Frame
  <2>4. Closes
    BY <1>1, <2>1, Returns DEF Return
  <2>5. m \in Cycle
    BY <1>1, <2>3, <2>4, CycleClosed
  <2>6. status'[m] = "evaluated"
    BY <2>1, <2>2, <2>4, <2>5 DEF Return
  <2> QED BY <1>1, <1>2, <2>2, <2>3, <2>6
<1> QED BY <1>3, <1>4, <1>5 DEF Answers

LEMMA EvaluateAnswers ==
    ASSUME Inv, WaitInv, Evaluate, NEW m \in Modules
    PROVE  Answers(m)
<1>1. /\ status \in [Modules -> {"unlinked", "linking", "linked", "evaluating", "async", "evaluated"}]
      /\ promise \in [Modules -> {"none", "pending", "fulfilled", "rejected"}]
      /\ failed' = failed
  BY DEF Inv, Types, WaitInv, MoreTypes, Evaluate
<1>2. \A x \in Modules : Done(x) => status'[x] = status[x]
  BY <1>1 DEF Evaluate, Unevaluated
<1>3. ASSUME promise'[m] # promise[m]
      PROVE  \/ promise'[m] = "pending"
             \/ promise'[m] = "rejected" /\ failed[m]
             \/ promise'[m] = "fulfilled" /\ Done(m) /\ ~failed[m] /\ ~flagged[m]
  BY <1>1, <1>3 DEF Evaluate
<1>4. Done(m) /\ ~flagged[m] => status[m] = "evaluated"
  BY DEF Done, WaitInv, Marked
<1> QED BY <1>1, <1>2, <1>3, <1>4 DEF Answers, Done

LEMMA LinksAnswer ==
    ASSUME Inv, promise' = promise, failed' = failed, NEW m \in Modules,
           status[m] = "evaluated" => status'[m] = "evaluated"
    PROVE  Answers(m)
BY DEF Answers

LEMMA AnswersOnly ==
    ASSUME Inv, TreeInv, WaitInv, [Next]_vars, NEW m \in Modules
    PROVE  Answers(m)
<1>0. Inv' /\ status \in [Modules -> {"unlinked", "linking", "linked", "evaluating", "async", "evaluated"}]
  BY NextKeeps DEF Inv, Types
<1>1. ASSUME NEW n \in Modules, Import(n) PROVE Answers(m)
  BY <1>0, <1>1, LinksAnswer DEF Import
<1>2. CASE LinkRequest
  BY <1>0, <1>2, LinksAnswer DEF LinkRequest
<1>3. CASE LinkModule
  <2>1. Cycle \subseteq OnStack
    BY <1>3, Below DEF LinkModule, Inv
  <2>2. status[m] = "evaluated" => m \notin OnStack
    BY Facts
  <2> QED BY <1>0, <1>3, <2>1, <2>2, LinksAnswer DEF LinkModule
<1>4. CASE LinkFails
  <2>1. status[m] = "evaluated" => m \notin OnStack
    BY Facts
  <2> QED BY <1>0, <1>4, <2>1, LinksAnswer DEF LinkFails, Unlink
<1>5. CASE Evaluate
  BY <1>5, EvaluateAnswers
<1>6. CASE EvaluateRequest
  BY <1>0, <1>6, LinksAnswer DEF EvaluateRequest
<1>7. CASE RequestEvaluated \/ Gather \/ Gathered \/ Ran \/ UNCHANGED vars
  BY <1>7, LinksAnswer DEF RequestEvaluated, Gather, Gathered, Ran, vars, results
<1>8. CASE RequestFails \/ Throws
  BY <1>8, AbandonAnswers DEF RequestFails, Throws
<1>9. CASE Postpone \/ Execute
  BY <1>0, <1>9, ReturnAnswers DEF Postpone, Execute
<1>10. ASSUME NEW n \in Modules, Run(n) PROVE Answers(m)
  BY <1>10, LinksAnswer, RejectAnswers, SetAnswers DEF Run
<1>11. ASSUME NEW n \in Modules, Settle(n) PROVE Answers(m)
  BY <1>11, LinksAnswer, RejectAnswers, SetAnswers DEF Settle, BodyThrows, BodyEnds
<1> QED BY <1>1, <1>2, <1>3, <1>4, <1>5, <1>6, <1>7, <1>8, <1>9, <1>10, <1>11 DEF Next, Engine

LEMMA AnsweredKeeps == (Init => Answered) /\ (Inv /\ TreeInv /\ WaitInv /\ Answered /\ [Next]_vars => Answered')
<1>1. Init => Answered
  BY DEF Init, Answered, Answer
<1>2. Inv /\ TreeInv /\ WaitInv /\ Answered /\ [Next]_vars => Answered'
  BY OnlyAnswers, AnswersOnly DEF Answered
<1> QED BY <1>1, <1>2

\* With a module that is settled, what it requests is.
LEMMA SettledOn ==
    ASSUME Inv, WaitInv, NEW x \in Modules, Settled(x), NEW d \in Elements(req[x])
    PROVE  d \in Modules /\ Settled(d)
<1>1. /\ Done(x) /\ ~failed[x] /\ ~failed[root[x]] /\ status[root[x]] = "evaluated"
      /\ status[x] = "evaluated"
  BY RootStands DEF Settled
<1>2. d \in Modules /\ x \in Begun /\ x \notin OnStack /\ x \notin Called
  BY <1>1, FactsNow DEF FactsHold
<1>3. d \in Dealt(x)
  BY <1>2, DealtWith
<1>4. Stays(x, d) \/ InCycle(x, d) \/ Settled(d) \/ WaitsFor(x, d)
  BY <1>1, <1>2, <1>3 DEF WaitInv, Ordered
<1>5. CASE InCycle(x, d)
  <2>1. failed[d] => failed[root[d]]
    BY <1>2 DEF WaitInv, Rooted
  <2> QED BY <1>1, <1>2, <1>5, <2>1 DEF InCycle, Settled
<1>6. CASE WaitsFor(x, d)
  <2>1. root[d] \in Unfinished /\ x \in Elements(parents[root[d]])
    BY <1>2, <1>6 DEF WaitsFor, Inv, Reached, Unfinished
  <2>2. Told(x)
    BY <2>1 DEF WaitInv, Waiting
  <2> QED BY <1>1, <2>2 DEF Told
<1> QED BY <1>2, <1>4, <1>5, <1>6 DEF Stays

LEMMA OutcomeTold == ASSUME Inv, TreeInv, WaitInv, Answered PROVE PromiseTellsOutcome
<1>1. ASSUME NEW m \in Modules, promise[m] = "fulfilled", NEW d \in Graph(m) PROVE body[d] = "done"
  <2> DEFINE S == {x \in Modules : Settled(x)}
  <2>1. status[m] = "evaluated" /\ ~failed[m] /\ Done(m)
    BY <1>1 DEF Answered, Answer, Done
  <2>2. root[m] = m
    BY <1>1, <2>1, RootIsOwn
  <2>3. m \in S /\ S \in SUBSET Modules
    BY <2>1, <2>2 DEF Settled
  <2>4. \A x \in S : Elements(req[x]) \subseteq S
    BY SettledOn
  <2> HIDE DEF S
  <2>5. d \in S
    BY <1>1, <2>3, <2>4, GraphOn
  <2>6. d \in Modules /\ Done(d) /\ ~failed[root[d]] /\ status[root[d]] = "evaluated"
    BY <2>5 DEF S, Settled
  <2> QED BY <2>6, RootStands
<1>2. ASSUME NEW m \in Modules, promise[m] = "rejected" PROVE \E d \in Graph(m) : body[d] = "threw"
  BY <1>2 DEF Answered, Answer, WaitInv, Outcome
<1> QED BY <1>1, <1>2 DEF PromiseTellsOutcome

LEMMA Invariance == Spec => [](Inv /\ TreeInv /\ WaitInv /\ Answered /\ Rest)
<1>1. Init => Inv /\ TreeInv /\ WaitInv /\ Answered /\ Rest
  BY Initially, TreeInitially, WaitInitially, AnsweredKeeps, RestKeeps
<1>2. Inv /\ TreeInv /\ WaitInv /\ Answered /\ Rest /\ [Next]_vars
          => (Inv /\ TreeInv /\ WaitInv /\ Answered /\ Rest)'
  BY NextKeeps, TreeKeeps, WaitKeeps, AnsweredKeeps, RestKeeps
<1> QED BY <1>1, <1>2, PTL DEF Spec

-----------------------------------------------------------------------------
(* Theorems.                                                               *)

\* Whatever the engine does with a graph of modules, its bookkeeping keeps its
\* types; what a module waits for, which is counted up and down in different
\* turns, is never counted below zero (the fields of JSModuleDef,
\* quickjs.c:1053-1104).
THEOREM TypeCorrect == Spec => []TypeOK
<1>1. Inv /\ WaitInv /\ Rest => TypeOK
  BY TypesHold
<1> QED BY <1>1, Invariance, PTL

\* Between two turns the stack is empty; in a turn it holds the modules that are
\* linked or evaluated, each once, and the calls follow it from its bottom: what
\* the assertions at quickjs.c:32576-32579 and 33284-33308 rest on.
THEOREM StackCorrect == Spec => []Stacked
<1>1. Inv => Stacked
  BY DEF Inv
<1> QED BY <1>1, Invariance, PTL

\* A module whose call has returned is of the cycle of its caller, and what it
\* requests is on the stack or done: what js_inner_module_linking and
\* js_inner_module_evaluation pop off the stack is a cycle of the graph.
THEOREM WalkCorrect == Spec => []Tree
<1>1. TreeInv => Tree
  BY DEF TreeInv
<1> QED BY <1>1, Invariance, PTL

\* What a module that awaits is told when it completes is told once: the modules
\* that wait for others are counted down at most as often as they were counted
\* up (pending_async_dependencies, quickjs.c:32959-32972).
THEOREM CountCorrect == Spec => []Counted
<1>1. WaitInv => Counted
  BY DEF WaitInv
<1> QED BY <1>1, Invariance, PTL

\* The assertions of the linker and of the evaluation hold for every graph of
\* modules, every order of the imports and every outcome of the bodies.
THEOREM AssertionsCorrect == Spec => []AssertionsHold
<1>1. Inv /\ TreeInv /\ WaitInv => AssertionsHold
  BY AssertionsFollow
<1> QED BY <1>1, Invariance, PTL

\* The body of a module starts after those of the modules it requests have ended,
\* unless they request it in turn, in whatever turn it starts.
THEOREM OrderCorrect == Spec => []StartsAfterItsRequests
<1>1. Init => StartsAfterItsRequests
  BY DEF Init, StartsAfterItsRequests
<1>2. Inv /\ TreeInv /\ WaitInv /\ StartsAfterItsRequests /\ [Next]_vars => StartsAfterItsRequests'
  BY StartsKeeps
<1> QED BY <1>1, <1>2, Invariance, PTL DEF Spec

\* An import that is told it succeeded has its whole graph executed to the end,
\* and one that is told it failed has a body that threw in its graph.
THEOREM OutcomeCorrect == Spec => []PromiseTellsOutcome
<1>1. Inv /\ TreeInv /\ WaitInv /\ Answered => PromiseTellsOutcome
  BY OutcomeTold
<1> QED BY <1>1, Invariance, PTL

\* The code of a module runs once, however often and from where it is imported,
\* for every graph of modules (js_execute_async_module, js_execute_sync_module).
THEOREM RunsOnceCorrect == Spec => RunsOnce
<1>1. Inv /\ [Next]_vars
          => [\A m \in Modules : body'[m] # body[m] =>
                 body[m] = "new" \/ (body[m] = "running" /\ body'[m] # "new")]_vars
  BY CalledOnce DEF Onward
<1> QED BY <1>1, Invariance, PTL DEF Spec, RunsOnce
=============================================================================
