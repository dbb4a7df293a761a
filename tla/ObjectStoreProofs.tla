-------------------------- MODULE ObjectStoreProofs --------------------------
EXTENDS ObjectStore, FiniteSetTheorems, WellFoundedInduction, TLAPS

-----------------------------------------------------------------------------
(* Types, in groups.                                                       *)

Jobs == [of : {"none", "answer", "break"}, group : Groups, left : 0..MaxAnswer \cup {1},
         ids : SUBSET (1..objSeq), from : 0..objSeq]

StoreOK ==
    /\ objSeq \in Nat
    /\ Live \subseteq 1..objSeq /\ store \in [Live -> Groups]
    /\ DOMAIN groups \subseteq Groups /\ groups \in [DOMAIN groups -> SUBSET (1..objSeq)]
HandlerOK == handler \in Jobs
AwaitingOK == awaiting \in [Groups -> 0..MaxAwaits]
PauseOK == paused \in BOOLEAN /\ scopes \in SUBSET (1..objSeq) /\ since \in 0..objSeq

\* The groups make up the type invariant.
LEMMA Parts == /\ TypeOK <=> StoreOK /\ HandlerOK /\ AwaitingOK /\ PauseOK
               /\ (TypeOK <=> StoreOK /\ HandlerOK /\ AwaitingOK /\ PauseOK)'
  BY DEF TypeOK, StoreOK, HandlerOK, AwaitingOK, PauseOK, Jobs

-----------------------------------------------------------------------------
(* The inductive invariant.                                                *)

\* The ids of an answer, and those of the frames shown, were minted after it
\* began.
MintedSince ==
    /\ \A id \in handler.ids : handler.from < id
    /\ \A id \in scopes : since < id

Inv == TypeOK /\ GroupsMatch /\ StoreBounded /\ MintedSince /\ RecentResolve

\* A set of numbers that is not empty has a least one.
LEMMA LeastNumber ==
    ASSUME NEW S \in SUBSET Nat, S # {}
    PROVE  \E x \in S : \A y \in S : x <= y
<1>1. IsWellFoundedOn(OpToRel(<, Nat), Nat)
  BY NatLessThanWellFounded
<1>2. PICK x \in S : \A y \in S : ~(<<y, x>> \in OpToRel(<, Nat))
  BY <1>1, WFMin
<1>3. \A y \in S : ~(y < x)
  BY <1>2 DEF OpToRel
<1> QED BY <1>3

\* The live ids are finitely many.
LEMMA LiveFinite == ASSUME TypeOK PROVE IsFiniteSet(Live) /\ Cardinality(Live) \in Nat
<1>1. IsFiniteSet(1..objSeq)
  BY FS_Interval DEF TypeOK
<1>2. Live \in SUBSET (1..objSeq)
  BY DEF TypeOK
<1>3. IsFiniteSet(Live)
  BY <1>1, <1>2, FS_Subset
<1> QED BY <1>3, FS_CardinalityType

\* A part of the store is no larger than it.
LEMMA PartIsBounded ==
    ASSUME TypeOK, StoreBounded, NEW S, S \subseteq Live
    PROVE  Cardinality(S) <= MaxStore
<1>1. IsFiniteSet(Live) /\ Cardinality(Live) \in Nat /\ Cardinality(Live) <= MaxStore
  BY LiveFinite DEF StoreBounded
<1>2. S \in SUBSET Live
  OBVIOUS
<1>3. IsFiniteSet(S) /\ Cardinality(S) <= Cardinality(Live)
  BY <1>1, <1>2, FS_Subset
<1>4. Cardinality(S) \in Nat
  BY <1>3, FS_CardinalityType
<1> QED BY <1>1, <1>3, <1>4, StoreAssumption

\* A full store has an oldest id.
LEMMA OldestIsLeast ==
    ASSUME TypeOK, Full
    PROVE  Oldest \in Live /\ \A other \in Live : Oldest <= other
<1>1. Live # {}
  BY LiveFinite, FS_EmptySet, StoreAssumption DEF Full
<1>2. Live \in SUBSET Nat
  BY DEF TypeOK
<1> QED BY <1>1, <1>2, LeastNumber DEF Oldest

\* What evictOldest takes is live.
LEMMA EvictedIsLive == ASSUME TypeOK PROVE Evicted \subseteq Live
  BY OldestIsLeast DEF Evicted

-----------------------------------------------------------------------------
(* The operations of the store.                                            *)

\* A release keeps the maps in step, never grows the store, and takes just ids.
LEMMA Releases ==
    ASSUME TypeOK, GroupsMatch, StoreBounded, NEW ids, Release(ids)
    PROVE  StoreOK' /\ GroupsMatch' /\ StoreBounded' /\ Live' = Live \ ids /\ objSeq' = objSeq
<1>1. Live' = Live \ ids /\ objSeq' = objSeq
  BY DEF Release, Live
<1>2. \A g \in DOMAIN groups : groups[g] = {id \in Live : store[id] = g}
  BY DEF GroupsMatch
<1>3. \A id \in Live' : store'[id] = store[id]
  BY DEF Release, Live
<1>4. /\ DOMAIN groups' = {g \in DOMAIN groups : ~(groups[g] \subseteq ids \cap Live)}
      /\ \A g \in DOMAIN groups' : groups'[g] = groups[g] \ (ids \cap Live)
      /\ groups' \in [DOMAIN groups' -> SUBSET (1..objSeq)]
  BY DEF Release, GroupsWithout, TypeOK
<1>5. StoreOK'
  <2>1. store' \in [Live' -> Groups]
    BY <1>1 DEF Release, TypeOK, Live
  <2> QED BY <1>1, <1>4, <2>1 DEF StoreOK, TypeOK
<1>6. GroupsMatch'
  <2>1. \A g \in DOMAIN groups' : groups'[g] = {id \in Live' : store'[id] = g}
    BY <1>1, <1>2, <1>3, <1>4
  <2>2. DOMAIN groups' = {store'[id] : id \in Live'}
    <3>1. ASSUME NEW id \in Live' PROVE store'[id] \in DOMAIN groups'
      BY <1>1, <1>2, <1>3, <1>4 DEF GroupsMatch
    <3>2. ASSUME NEW g \in DOMAIN groups' PROVE \E id \in Live' : store'[id] = g
      BY <1>1, <1>2, <1>3, <1>4
    <3> QED BY <3>1, <3>2
  <2> QED BY <2>1, <2>2 DEF GroupsMatch
<1>7. StoreBounded'
  <2>1. Live' \subseteq Live
    BY <1>1
  <2> QED BY <2>1, PartIsBounded DEF StoreBounded
<1> QED BY <1>1, <1>5, <1>6, <1>7

\* So does the release of a group, which takes its members.
LEMMA GroupReleases ==
    ASSUME TypeOK, GroupsMatch, StoreBounded, NEW g, ReleaseGroup(g)
    PROVE  /\ StoreOK' /\ GroupsMatch' /\ StoreBounded' /\ objSeq' = objSeq
           /\ Live' = IF g \in DOMAIN groups THEN Live \ groups[g] ELSE Live
<1>1. Live' = (IF g \in DOMAIN groups THEN Live \ groups[g] ELSE Live) /\ objSeq' = objSeq
  BY DEF ReleaseGroup, Live
<1>2. \A h \in DOMAIN groups : groups[h] = {id \in Live : store[id] = h}
  BY DEF GroupsMatch
<1>3. \A id \in Live' : store'[id] = store[id]
  BY DEF ReleaseGroup, Live
<1>4. /\ DOMAIN groups' = DOMAIN groups \ {g}
      /\ \A h \in DOMAIN groups' : groups'[h] = groups[h]
      /\ groups' \in [DOMAIN groups' -> SUBSET (1..objSeq)]
  BY DEF ReleaseGroup, TypeOK
<1>5. StoreOK'
  <2>1. store' \in [Live' -> Groups]
    BY <1>1 DEF ReleaseGroup, TypeOK, Live
  <2> QED BY <1>1, <1>4, <2>1 DEF StoreOK, TypeOK
<1>6. GroupsMatch'
  <2>1. \A h \in DOMAIN groups' : groups'[h] = {id \in Live' : store'[id] = h}
    BY <1>1, <1>2, <1>3, <1>4
  <2>2. DOMAIN groups' = {store'[id] : id \in Live'}
    <3>1. ASSUME NEW id \in Live' PROVE store'[id] \in DOMAIN groups'
      BY <1>1, <1>2, <1>3, <1>4 DEF GroupsMatch
    <3>2. ASSUME NEW h \in DOMAIN groups' PROVE \E id \in Live' : store'[id] = h
      <4>1. PICK id \in Live : store[id] = h
        BY <1>4 DEF GroupsMatch
      <4> QED BY <4>1, <1>1, <1>2, <1>3, <1>4
    <3> QED BY <3>1, <3>2
  <2> QED BY <2>1, <2>2 DEF GroupsMatch
<1>7. StoreBounded'
  <2>1. Live' \subseteq Live
    BY <1>1
  <2> QED BY <2>1, PartIsBounded DEF StoreBounded
<1> QED BY <1>1, <1>5, <1>6, <1>7

\* An add keeps the maps in step and the store within its cap: it gives a new
\* id, and takes the oldest one only from a full store.
LEMMA Adds ==
    ASSUME TypeOK, GroupsMatch, StoreBounded, NEW g \in Groups, Add(g)
    PROVE  /\ StoreOK' /\ GroupsMatch' /\ StoreBounded' /\ objSeq' = objSeq + 1
           /\ Live' = (Live \ Evicted) \cup {objSeq + 1}
<1>1. Live' = (Live \ Evicted) \cup {objSeq + 1} /\ objSeq' = objSeq + 1 /\ NewId = objSeq + 1
  BY DEF Add, Live, NewId
<1>2. NewId \notin Live /\ objSeq \in Nat
  BY <1>1 DEF TypeOK
<1>3. \A h \in DOMAIN groups : groups[h] = {id \in Live : store[id] = h}
  BY DEF GroupsMatch
<1>4. \A id \in Live' : store'[id] = IF id = NewId THEN g ELSE store[id]
  BY <1>1 DEF Add, Live
<1> DEFINE Left == GroupsWithout(Evicted)
<1>5. /\ DOMAIN Left = {h \in DOMAIN groups : ~(groups[h] \subseteq Evicted)}
      /\ \A h \in DOMAIN Left : Left[h] = groups[h] \ Evicted
  BY DEF GroupsWithout
<1>6. /\ DOMAIN groups' = DOMAIN Left \cup {g}
      /\ \A h \in DOMAIN groups' :
           groups'[h] = (IF h \in DOMAIN Left THEN Left[h] ELSE {}) \cup (IF h = g THEN {NewId} ELSE {})
      /\ groups' = [h \in DOMAIN groups' |-> groups'[h]]
  BY DEF Add
<1> HIDE DEF Left
<1>7. \A h \in DOMAIN groups' : groups'[h] = {id \in Live' : store'[id] = h}
  <2> TAKE h \in DOMAIN groups'
  <2>1. (IF h \in DOMAIN Left THEN Left[h] ELSE {}) = {id \in Live \ Evicted : store[id] = h}
    <3>1. CASE h \in DOMAIN Left
      BY <3>1, <1>3, <1>5
    <3>2. CASE h \notin DOMAIN Left
      <4>1. ASSUME NEW id \in Live \ Evicted, store[id] = h PROVE FALSE
        <5>1. h \in DOMAIN groups
          BY <4>1 DEF GroupsMatch
        <5>2. id \in groups[h]
          BY <4>1, <5>1, <1>3
        <5> QED BY <3>2, <4>1, <5>1, <5>2, <1>5
      <4> QED BY <3>2, <4>1
    <3> QED BY <3>1, <3>2
  <2>2. groups'[h] = {id \in Live \ Evicted : store[id] = h} \cup (IF h = g THEN {NewId} ELSE {})
    BY <2>1, <1>6
  <2> QED BY <2>2, <1>1, <1>2, <1>4
<1>8. GroupsMatch'
  <2>1. DOMAIN groups' = {store'[id] : id \in Live'}
    <3>1. ASSUME NEW id \in Live' PROVE store'[id] \in DOMAIN groups'
      <4>1. CASE id = NewId
        BY <4>1, <1>4, <1>6
      <4>2. CASE id # NewId
        <5>1. id \in Live \ Evicted /\ store'[id] = store[id] /\ store[id] \in DOMAIN groups
          BY <4>2, <1>1, <1>4 DEF GroupsMatch
        <5>2. id \in groups[store[id]]
          BY <5>1, <1>3
        <5> QED BY <5>1, <5>2, <1>5, <1>6
      <4> QED BY <4>1, <4>2
    <3>2. ASSUME NEW h \in DOMAIN groups' PROVE \E id \in Live' : store'[id] = h
      <4>1. groups'[h] # {}
        BY <1>5, <1>6
      <4> QED BY <4>1, <1>7
    <3> QED BY <3>1, <3>2
  <2> QED BY <2>1, <1>7 DEF GroupsMatch
<1>9. StoreOK'
  <2>1. Live' \subseteq 1..objSeq'
    BY <1>1, <1>2 DEF TypeOK
  <2>2. store' \in [Live' -> Groups]
    BY <1>1, <1>2 DEF Add, TypeOK, Live
  <2>3. DOMAIN groups' \subseteq Groups
    BY <1>5, <1>6 DEF TypeOK
  <2>4. \A h \in DOMAIN groups' : groups'[h] \in SUBSET (1..objSeq')
    BY <1>7, <2>1
  <2> QED BY <1>1, <1>2, <1>6, <2>1, <2>2, <2>3, <2>4 DEF StoreOK
<1>10. StoreBounded'
  <2>1. IsFiniteSet(Live) /\ Cardinality(Live) \in Nat
    BY LiveFinite
  <2>2. CASE Full
    <3>1. Oldest \in Live /\ Evicted = {Oldest} /\ Cardinality(Live) = MaxStore
      BY <2>1, <2>2, OldestIsLeast, StoreAssumption DEF Evicted, Full, StoreBounded
    <3>2. IsFiniteSet(Live \ {Oldest}) /\ Cardinality(Live \ {Oldest}) = MaxStore - 1
      BY <2>1, <3>1, FS_RemoveElement
    <3>3. Live' = (Live \ {Oldest}) \cup {NewId} /\ NewId \notin Live \ {Oldest}
      BY <3>1, <1>1, <1>2
    <3>4. Cardinality((Live \ {Oldest}) \cup {NewId}) = MaxStore - 1 + 1
      BY <3>2, <3>3, FS_AddElement
    <3> QED BY <3>3, <3>4, StoreAssumption DEF StoreBounded
  <2>3. CASE ~Full
    <3>1. Evicted = {} /\ Cardinality(Live) < MaxStore
      BY <2>1, <2>3, StoreAssumption DEF Evicted, Full
    <3>2. Cardinality(Live') = Cardinality(Live) + 1
      BY <2>1, <3>1, <1>1, <1>2, FS_AddElement
    <3> QED BY <2>1, <3>1, <3>2, StoreAssumption DEF StoreBounded
  <2> QED BY <2>2, <2>3
<1> QED BY <1>1, <1>8, <1>9, <1>10

\* Of the ids minted after number `from`, an add takes none before MaxStore
\* more were minted.
LEMMA RecentIsSpared ==
    ASSUME TypeOK, NEW from \in 0..objSeq, objSeq + 1 - from <= MaxStore,
           NEW id \in Live, from < id
    PROVE  id \notin Evicted
<1> SUFFICES ASSUME id \in Evicted PROVE FALSE
  OBVIOUS
<1>1. Full /\ id = Oldest
  BY DEF Evicted
<1>2. Live \subseteq (from + 1)..objSeq
  BY <1>1, OldestIsLeast DEF TypeOK
<1>3. IsFiniteSet((from + 1)..objSeq) /\ Cardinality((from + 1)..objSeq) <= objSeq - from
  <2>1. from + 1 \in Int /\ objSeq \in Int
    BY DEF TypeOK
  <2>2. IsFiniteSet((from + 1)..objSeq)
        /\ Cardinality((from + 1)..objSeq) = IF from + 1 > objSeq THEN 0 ELSE objSeq - (from + 1) + 1
    BY <2>1, FS_Interval
  <2> QED BY <2>2 DEF TypeOK
<1>4. Cardinality(Live) <= Cardinality((from + 1)..objSeq)
  BY <1>2, <1>3, FS_Subset
<1>5. Cardinality((from + 1)..objSeq) \in Nat
  BY <1>3, FS_CardinalityType
<1>6. Cardinality(Live) \in Nat /\ Cardinality(Live) >= MaxStore
  BY <1>1, LiveFinite DEF Full
<1>7. objSeq \in Nat /\ from \in Nat /\ MaxStore \in Nat
  BY StoreAssumption DEF TypeOK
<1> QED BY <1>3, <1>4, <1>5, <1>6, <1>7

-----------------------------------------------------------------------------
(* The invariant is inductive.                                             *)

\* A handler that begins has minted nothing yet.
LEMMA Begins ==
    ASSUME TypeOK, NEW of \in {"answer", "break"}, NEW g \in Groups,
           NEW n \in 0..MaxAnswer \cup {1}, Begin(of, g, n), objSeq' = objSeq
    PROVE  HandlerOK' /\ handler'.ids = {}
<1>1. handler' = [of |-> of, group |-> g, left |-> n, ids |-> {}, from |-> objSeq]
  BY DEF Begin
<1>2. objSeq \in 0..objSeq
  BY DEF TypeOK
<1> QED BY <1>1, <1>2 DEF HandlerOK, Jobs

\* Nothing is being serialized.
LEMMA IdleFits == ASSUME TypeOK, handler' = Idle, objSeq' = objSeq PROVE HandlerOK' /\ handler'.ids = {}
<1>1. 0 \in 0..objSeq /\ 0 \in 0..MaxAnswer
  BY AnswerAssumption DEF TypeOK
<1> QED BY <1>1 DEF HandlerOK, Jobs, Idle, Groups

\* A step that leaves the store alone, and starts or ends what is serialized.
LEMMA StoreUntouched ==
    ASSUME Inv, UNCHANGED <<storeVars, scopes, since>>, HandlerOK', handler' = handler \/ handler'.ids = {},
           AwaitingOK', paused' \in BOOLEAN
    PROVE  Inv'
<1>1. StoreOK' /\ GroupsMatch' /\ StoreBounded' /\ Live' = Live /\ objSeq' = objSeq
  BY DEF Inv, TypeOK, StoreOK, GroupsMatch, StoreBounded, storeVars, Live
<1>2. PauseOK'
  BY <1>1 DEF Inv, TypeOK, PauseOK
<1>3. TypeOK'
  BY <1>1, <1>2, Parts
<1>4. MintedSince' /\ RecentResolve'
  BY <1>1 DEF Inv, MintedSince, RecentResolve
<1> QED BY <1>1, <1>3, <1>4 DEF Inv

\* A step that adds an object, by a handler or beside it.
LEMMA AddKeeps ==
    ASSUME Inv, NEW g \in Groups, Add(g), UNCHANGED <<awaiting, pauseVars>>,
           handler' = handler \/ (handler.left > 0
             /\ handler' = [handler EXCEPT !.left = @ - 1, !.ids = @ \cup {NewId}])
    PROVE  Inv'
<1>1. /\ StoreOK' /\ GroupsMatch' /\ StoreBounded' /\ objSeq' = objSeq + 1
      /\ Live' = (Live \ Evicted) \cup {objSeq + 1}
  BY Adds DEF Inv
<1>2. objSeq \in Nat /\ 1..objSeq \subseteq 1..objSeq' /\ NewId = objSeq + 1 /\ NewId \in 1..objSeq'
  BY <1>1 DEF Inv, TypeOK, NewId
<1>3. handler \in Jobs /\ handler.from \in 0..objSeq /\ handler.ids \subseteq 1..objSeq
  BY DEF Inv, TypeOK, Jobs
<1>4. /\ handler'.from = handler.from
      /\ handler'.ids = handler.ids \/ handler'.ids = handler.ids \cup {NewId}
  BY <1>3 DEF Jobs
<1>5. HandlerOK'
  <2>1. CASE handler' = handler
    BY <2>1, <1>1, <1>2, <1>3 DEF HandlerOK, Jobs
  <2>2. CASE handler.left > 0 /\ handler' = [handler EXCEPT !.left = @ - 1, !.ids = @ \cup {NewId}]
    <3>1. handler.left \in 0..MaxAnswer \cup {1} /\ handler.left - 1 \in 0..MaxAnswer \cup {1}
      BY <2>2, <1>3, AnswerAssumption DEF Jobs
    <3>2. handler.ids \cup {NewId} \in SUBSET (1..objSeq') /\ handler.from \in 0..objSeq'
      BY <1>1, <1>2, <1>3
    <3> QED BY <2>2, <3>1, <3>2, <1>3 DEF HandlerOK, Jobs
  <2> QED BY <2>1, <2>2
<1>6. PauseOK'
  BY <1>1, <1>2 DEF Inv, TypeOK, PauseOK, pauseVars
<1>7. TypeOK'
  BY <1>1, <1>5, <1>6, Parts DEF Inv, AwaitingOK
<1>8. MintedSince'
  BY <1>2, <1>3, <1>4 DEF Inv, MintedSince, pauseVars
<1>9. ASSUME NEW from \in 0..objSeq, NEW ids \in SUBSET (1..objSeq), objSeq' - from <= MaxStore,
             objSeq - from <= MaxStore => ids \subseteq Live, \A id \in ids : from < id
      PROVE  ids \subseteq Live'
  <2>1. ids \subseteq Live
    BY <1>1, <1>2, <1>9, StoreAssumption
  <2>2. objSeq + 1 - from <= MaxStore
    <3>1. objSeq' = objSeq + 1
      BY <1>1
    <3>2. objSeq' - from <= MaxStore
      BY <1>9
    <3> QED BY <3>1, <3>2, <1>2, StoreAssumption
  <2>4. TypeOK
    BY DEF Inv
  <2>3. \A id \in ids : id \notin Evicted
    <3> SUFFICES ASSUME NEW id \in ids PROVE id \notin Evicted
      OBVIOUS
    <3>1. id \in Live /\ from < id
      BY <2>1, <1>9
    <3> QED BY <2>2, <2>4, <3>1, RecentIsSpared
  <2> QED BY <2>1, <2>3, <1>1
<1>10. objSeq' - handler'.from <= MaxStore => handler'.ids \subseteq Live'
  <2>1. objSeq' - handler.from <= MaxStore => handler.ids \subseteq Live'
    BY <1>3, <1>9 DEF Inv, MintedSince, RecentResolve
  <2> QED BY <2>1, <1>1, <1>2, <1>4
<1>11. objSeq' - since <= MaxStore => scopes \subseteq Live'
  BY <1>9 DEF Inv, TypeOK, MintedSince, RecentResolve
<1>12. RecentResolve'
  BY <1>10, <1>11 DEF RecentResolve, pauseVars
<1> QED BY <1>1, <1>7, <1>8, <1>12 DEF Inv

\* A step that releases ids of the store, and those of the scopes.
LEMMA ReleaseKeeps ==
    ASSUME Inv, StoreOK', GroupsMatch', StoreBounded', objSeq' = objSeq, HandlerOK', handler'.ids = {},
           UNCHANGED <<awaiting, since, paused>>, NEW ids, Live' = Live \ ids,
           scopes' \subseteq scopes, scopes' \cap ids = {}
    PROVE  Inv'
<1>1. PauseOK'
  BY DEF Inv, TypeOK, PauseOK
<1>2. TypeOK'
  BY <1>1, Parts DEF Inv, AwaitingOK
<1>3. MintedSince' /\ RecentResolve'
  BY DEF Inv, MintedSince, RecentResolve
<1> QED BY <1>2, <1>3 DEF Inv

-----------------------------------------------------------------------------
(* One step per action.                                                    *)

LEMMA InitHolds == ASSUME Init PROVE Inv
<1>1. Live = {} /\ DOMAIN groups = {} /\ objSeq = 0
  BY DEF Init, Live
<1>2. StoreOK
  BY <1>1 DEF Init, StoreOK, Live
<1>3. AwaitingOK
  BY AwaitsAssumption DEF Init, AwaitingOK
<1>4. HandlerOK
  BY <1>1, AnswerAssumption DEF Init, HandlerOK, Jobs, Idle, Groups
<1>7. PauseOK
  <2>1. paused \in BOOLEAN
    BY Zenon DEF Init
  <2> QED BY <1>1, <2>1 DEF Init, PauseOK
<1>5. GroupsMatch /\ StoreBounded
  BY <1>1, FS_EmptySet, StoreAssumption DEF GroupsMatch, StoreBounded
<1>6. MintedSince /\ RecentResolve
  BY DEF Init, MintedSince, RecentResolve, Idle
<1> QED BY <1>2, <1>3, <1>4, <1>5, <1>6, <1>7, Parts DEF Inv

\* The steps that only start or end what is serialized, or an evaluation.
LEMMA StoreIsKept ==
    ASSUME Inv,
           \/ Reply \/ NotShown
           \/ \E g \in Groups : Evaluate(g) \/ Settle(g) \/ EvaluateSync(g) \/ QueryObjects(g)
           \/ \E id \in 1..MaxIds : GetProperties(id)
    PROVE  Inv'
<1> USE DEF Inv
<1>0. /\ 1 \in 0..MaxAnswer \cup {1} /\ 0 \in 0..MaxAnswer /\ "runtime" \in Groups
      /\ HandlerOK /\ AwaitingOK /\ paused \in BOOLEAN
  BY AnswerAssumption, Parts DEF Groups, PauseOK
<1>1. CASE Reply \/ NotShown
  <2>1. UNCHANGED <<storeVars, awaiting, pauseVars>> /\ handler' = Idle /\ objSeq' = objSeq
    BY <1>1 DEF Reply, NotShown, storeVars
  <2>2. HandlerOK' /\ handler'.ids = {}
    BY <2>1, IdleFits
  <2> QED BY <1>0, <2>1, <2>2, StoreUntouched DEF AwaitingOK, pauseVars
<1>2. ASSUME NEW g \in Groups, Evaluate(g) PROVE Inv'
  <2>1. UNCHANGED <<storeVars, handler, pauseVars>> /\ objSeq' = objSeq
    BY <1>2 DEF Evaluate, storeVars
  <2>2. AwaitingOK'
    BY <1>2, <1>0, AwaitsAssumption DEF Evaluate, AwaitingOK
  <2>3. HandlerOK'
    BY <1>0, <2>1 DEF HandlerOK, Jobs
  <2> QED BY <1>0, <2>1, <2>2, <2>3, StoreUntouched DEF pauseVars
<1>3. ASSUME NEW g \in Groups, Settle(g) PROVE Inv'
  <2>1. UNCHANGED <<storeVars, pauseVars>> /\ objSeq' = objSeq
    BY <1>3 DEF Settle, storeVars
  <2>2. AwaitingOK'
    BY <1>3, <1>0, AwaitsAssumption DEF Settle, AwaitingOK
  <2>3. HandlerOK' /\ (handler' = handler \/ handler'.ids = {})
    <3>1. CASE UNCHANGED handler
      BY <1>0, <2>1, <3>1 DEF HandlerOK, Jobs
    <3>2. CASE \E h \in {g, "runtime"} : Begin("answer", h, 1)
      BY <1>0, <2>1, <3>2, Begins
    <3> QED BY <1>3, <3>1, <3>2 DEF Settle
  <2> QED BY <1>0, <2>1, <2>2, <2>3, StoreUntouched DEF pauseVars
<1>4. ASSUME NEW g \in Groups, NEW n \in 0..MaxAnswer \cup {1}, Begin("answer", g, n),
             UNCHANGED <<storeVars, awaiting, pauseVars>>
      PROVE  Inv'
  <2>1. HandlerOK' /\ handler'.ids = {}
    BY <1>4, Begins DEF storeVars
  <2> QED BY <1>0, <1>4, <2>1, StoreUntouched DEF AwaitingOK, pauseVars
<1>5. ASSUME NEW g \in Groups, EvaluateSync(g) \/ QueryObjects(g) PROVE Inv'
  BY <1>0, <1>4, <1>5 DEF EvaluateSync, QueryObjects
<1>6. ASSUME NEW id \in 1..MaxIds, GetProperties(id) PROVE Inv'
  <2>1. PICK n \in 0..MaxAnswer :
          Begin("answer", IF id \in Live THEN store[id] ELSE "runtime", IF id \in Live THEN n ELSE 0)
    BY <1>6 DEF GetProperties
  <2>2. (IF id \in Live THEN store[id] ELSE "runtime") \in Groups
    BY <1>0 DEF TypeOK
  <2>3. (IF id \in Live THEN n ELSE 0) \in 0..MaxAnswer \cup {1}
    BY <1>0
  <2> QED BY <1>4, <1>6, <2>1, <2>2, <2>3 DEF GetProperties
<1> QED BY <1>1, <1>2, <1>3, <1>5, <1>6

LEMMA SerializeStep == ASSUME Inv, Serialize PROVE Inv'
  BY AddKeeps DEF Serialize, Inv, TypeOK

LEMMA LogStep == ASSUME Inv, Log PROVE Inv'
  BY AddKeeps DEF Log, Groups

LEMMA ReleaseObjectStep == ASSUME Inv, NEW id \in 1..MaxIds, ReleaseObject(id) PROVE Inv'
<1>1. /\ StoreOK' /\ GroupsMatch' /\ StoreBounded' /\ Live' = Live \ {id} /\ objSeq' = objSeq
  BY Releases DEF Inv, ReleaseObject
<1>2. handler = Idle /\ handler' = Idle /\ scopes' = scopes \ {id} /\ UNCHANGED <<awaiting, paused, since>>
  BY DEF ReleaseObject
<1>3. HandlerOK' /\ handler'.ids = {}
  BY <1>1, <1>2, IdleFits DEF Inv
<1>4. scopes' \subseteq scopes /\ scopes' \cap {id} = {}
  BY <1>2
<1> QED BY <1>1, <1>2, <1>3, <1>4, ReleaseKeeps

LEMMA ReleaseObjectGroupStep == ASSUME Inv, NEW g \in Groups, ReleaseObjectGroup(g) PROVE Inv'
<1> DEFINE ids == IF g \in DOMAIN groups THEN groups[g] ELSE {}
<1>1. /\ StoreOK' /\ GroupsMatch' /\ StoreBounded' /\ Live' = Live \ ids /\ objSeq' = objSeq
  BY GroupReleases DEF Inv, ReleaseObjectGroup
<1>2. handler = Idle /\ handler' = Idle /\ UNCHANGED <<awaiting, paused, since>> /\ scopes' = scopes \ ids
  BY DEF ReleaseObjectGroup
<1>3. HandlerOK' /\ handler'.ids = {}
  BY <1>1, <1>2, IdleFits DEF Inv
<1>4. scopes' \subseteq scopes /\ scopes' \cap ids = {}
  BY <1>2
<1> QED BY <1>1, <1>2, <1>3, <1>4, ReleaseKeeps

\* A running program shows no frames.
RunningShowsNone == ~paused => scopes = {}

LEMMA BreakStep == ASSUME Inv, RunningShowsNone, Break PROVE Inv'
<1> DEFINE ids == IF "backtrace" \in DOMAIN groups THEN groups["backtrace"] ELSE {}
<1>1. /\ StoreOK' /\ GroupsMatch' /\ StoreBounded' /\ Live' = Live \ ids /\ objSeq' = objSeq
  BY GroupReleases DEF Inv, Break
<1>2. UNCHANGED <<awaiting, paused, since, scopes>> /\ scopes = {}
  BY DEF Break, pauseVars, RunningShowsNone
<1>3. HandlerOK' /\ handler'.ids = {}
  <2>1. PICK n \in 2..MaxAnswer : Begin("break", "backtrace", n)
    BY DEF Break
  <2>2. n \in 0..MaxAnswer \cup {1} /\ "backtrace" \in Groups
    BY AnswerAssumption DEF Groups
  <2> QED BY <1>1, <2>1, <2>2, Begins DEF Inv
<1>4. scopes' \subseteq scopes /\ scopes' \cap ids = {}
  BY <1>2
<1> QED BY <1>1, <1>2, <1>3, <1>4, ReleaseKeeps

\* The frames shown are those the handler built.
LEMMA ShownStep == ASSUME Inv, Shown PROVE Inv'
<1>1. /\ StoreOK' /\ GroupsMatch' /\ StoreBounded' /\ Live' = Live /\ objSeq' = objSeq
  BY DEF Shown, Inv, TypeOK, StoreOK, GroupsMatch, StoreBounded, storeVars, Live
<1>2. HandlerOK' /\ handler'.ids = {}
  BY <1>1, IdleFits DEF Shown, Inv
<1>3. handler \in Jobs /\ AwaitingOK'
  BY DEF Inv, TypeOK, Jobs, Shown, AwaitingOK
<1>4. paused' = TRUE /\ scopes' = handler.ids /\ since' = handler.from
  BY DEF Shown
<1>5. PauseOK'
  <2>1. paused' \in BOOLEAN
    BY <1>4, Zenon
  <2> QED BY <1>1, <1>3, <1>4, <2>1 DEF PauseOK, Jobs
<1>6. TypeOK'
  BY <1>1, <1>2, <1>3, <1>5, Parts
<1>7. MintedSince' /\ RecentResolve'
  BY <1>1, <1>2, <1>4 DEF Inv, MintedSince, RecentResolve
<1> QED BY <1>1, <1>6, <1>7 DEF Inv

LEMMA ResumeStep == ASSUME Inv, Resume PROVE Inv'
<1>1. /\ StoreOK' /\ GroupsMatch' /\ StoreBounded' /\ Live' = Live /\ objSeq' = objSeq
  BY DEF Resume, Inv, TypeOK, StoreOK, GroupsMatch, StoreBounded, storeVars, Live
<1>2. HandlerOK' /\ AwaitingOK' /\ handler' = handler
  BY <1>1 DEF Resume, Inv, TypeOK, HandlerOK, AwaitingOK, Jobs
<1>3. PauseOK'
  <2>1. paused' \in BOOLEAN
    BY Zenon DEF Resume
  <2> QED BY <1>1, <2>1 DEF Resume, PauseOK, Inv, TypeOK
<1>4. TypeOK'
  BY <1>1, <1>2, <1>3, Parts
<1>5. MintedSince' /\ RecentResolve'
  BY <1>1, <1>2 DEF Inv, MintedSince, RecentResolve, Resume
<1> QED BY <1>1, <1>4, <1>5 DEF Inv

LEMMA StutterStep == ASSUME Inv, UNCHANGED vars PROVE Inv'
<1>1. HandlerOK' /\ AwaitingOK' /\ handler' = handler /\ paused' \in BOOLEAN
      /\ UNCHANGED <<storeVars, scopes, since>>
  BY DEF vars, storeVars, pauseVars, Inv, TypeOK, HandlerOK, AwaitingOK, Jobs
<1> QED BY <1>1, StoreUntouched

-----------------------------------------------------------------------------
(* The theorems.                                                           *)

LEMMA RunningShowsNoneKept ==
    ASSUME RunningShowsNone, [Next]_vars PROVE RunningShowsNone'
<1> USE DEF RunningShowsNone, pauseVars
<1>1. CASE Serialize \/ Log \/ Reply \/ NotShown \/ Break
  BY <1>1 DEF Serialize, Log, Reply, NotShown, Break
<1>2. CASE Shown \/ Resume
  BY <1>2 DEF Shown, Resume
<1>3. ASSUME NEW g \in Groups, Evaluate(g) \/ Settle(g) \/ EvaluateSync(g) \/ QueryObjects(g)
      PROVE  RunningShowsNone'
  BY <1>3 DEF Evaluate, Settle, EvaluateSync, QueryObjects
<1>4. ASSUME NEW g \in Groups, ReleaseObjectGroup(g) PROVE RunningShowsNone'
  BY <1>4 DEF ReleaseObjectGroup
<1>5. ASSUME NEW id \in 1..MaxIds, GetProperties(id) \/ ReleaseObject(id) PROVE RunningShowsNone'
  BY <1>5 DEF GetProperties, ReleaseObject
<1>6. CASE UNCHANGED vars
  BY <1>6 DEF vars
<1> QED BY <1>1, <1>2, <1>3, <1>4, <1>5, <1>6 DEF Next

\* Every reachable state satisfies the inductive invariant.
THEOREM Invariance == Spec => [](Inv /\ RunningShowsNone)
<1>1. Init => Inv /\ RunningShowsNone
  BY InitHolds DEF Init, RunningShowsNone
<1>2. Inv /\ RunningShowsNone /\ [Next]_vars => (Inv /\ RunningShowsNone)'
  <2> SUFFICES ASSUME Inv, RunningShowsNone, [Next]_vars PROVE Inv' /\ RunningShowsNone'
    OBVIOUS
  <2>1. Inv'
    BY StoreIsKept, SerializeStep, LogStep, ReleaseObjectStep, ReleaseObjectGroupStep, BreakStep,
       ShownStep, ResumeStep, StutterStep DEF Next
  <2> QED BY <2>1, RunningShowsNoneKept
<1> QED BY <1>1, <1>2, PTL DEF Spec

\* Every variable keeps its shape, for every cap and every bound.
THEOREM TypeCorrect == Spec => []TypeOK
  BY Invariance, PTL DEF Inv

\* The groups partition the store exactly, whatever the cap and the groups.
THEOREM GroupsCorrect == Spec => []GroupsMatch
  BY Invariance, PTL DEF Inv

\* The store never outgrows MAX_STORE_SIZE.
THEOREM Bounded == Spec => []StoreBounded
  BY Invariance, PTL DEF Inv

\* No answer of up to MaxStore objects hands out an id that is already stale.
THEOREM RecentCorrect == Spec => []RecentResolve
  BY Invariance, PTL DEF Inv

\* An id that is gone stays gone: ids are given once.
THEOREM StaleCorrect == Spec => StaleStaysStale
<1> DEFINE Stays == \A id \in 1..objSeq : id \notin Live => id \notin DOMAIN store'
<1>1. Inv /\ [Next]_vars => [Stays]_vars
  <2> SUFFICES ASSUME Inv, Next PROVE Stays
    BY DEF vars
  <2>1. ASSUME UNCHANGED store PROVE Stays
    BY <2>1 DEF Live
  <2>2. ASSUME NEW g \in Groups, Add(g) PROVE Stays
    <3>1. Live' = (Live \ Evicted) \cup {objSeq + 1} /\ objSeq + 1 \notin 1..objSeq
      BY <2>2, Adds DEF Inv, TypeOK
    <3> QED BY <3>1 DEF Live
  <2>3. ASSUME NEW ids, Release(ids) PROVE Stays
    BY <2>3 DEF Release, Live
  <2>4. ASSUME NEW g, ReleaseGroup(g) PROVE Stays
    BY <2>4 DEF ReleaseGroup, Live
  <2>5. CASE Serialize \/ Log
    BY <2>2, <2>5 DEF Serialize, Log, Groups, Inv, TypeOK
  <2>6. CASE Reply \/ NotShown \/ Shown \/ Resume
    BY <2>1, <2>6 DEF Reply, NotShown, Shown, Resume, storeVars
  <2>7. CASE Break
    BY <2>4, <2>7 DEF Break
  <2>8. ASSUME NEW g \in Groups, Evaluate(g) \/ Settle(g) \/ EvaluateSync(g) \/ QueryObjects(g) PROVE Stays
    BY <2>1, <2>8 DEF Evaluate, Settle, EvaluateSync, QueryObjects, storeVars
  <2>9. ASSUME NEW g \in Groups, ReleaseObjectGroup(g) PROVE Stays
    BY <2>4, <2>9 DEF ReleaseObjectGroup
  <2>10. ASSUME NEW id \in 1..MaxIds, GetProperties(id) \/ ReleaseObject(id) PROVE Stays
    BY <2>1, <2>3, <2>10 DEF GetProperties, ReleaseObject, storeVars
  <2> QED BY <2>5, <2>6, <2>7, <2>8, <2>9, <2>10 DEF Next
<1>2. Spec => [][Inv /\ [Next]_vars]_vars
  BY Invariance, PTL DEF Spec
<1> QED BY <1>1, <1>2, Invariance, PTL DEF Spec, StaleStaysStale
=============================================================================
