-------------------------- MODULE CycleCollectorProofs --------------------------
EXTENDS CycleCollector, FiniteSetTheorems, TLAPS

-----------------------------------------------------------------------------
(* The inductive invariant.                                                *)

\* References to an object from outside the heap.
Held(o) == One(o \in local) + One(o \in kept) + jobs[o]

Finite == IsFiniteSet(edges) /\ IsFiniteSet(records)

\* A WeakRef holds no value, an entry does, and only a live object owns anything.
Shape ==
    /\ \A r \in records : r.kind = "ref" => r.value = None
    /\ \A r \in records : r.kind = "map" => r.value # None
    /\ \A e \in edges : mem[e[1]] = "live"

\* While the collector looks for what is held from outside, counts are of that alone.
Counts ==
    \A o \in Objects :
        rc[o] = Held(o) + (IF turn = "scan" THEN 0 ELSE Refs(edges, records, o))

\* Nothing refers to memory that was freed.
Gone ==
    \A o \in Objects : mem[o] = "free" =>
        /\ o \notin local \cup kept /\ jobs[o] = 0
        /\ \A e \in edges : e[2] # o
        /\ \A r \in records : r.value # o

\* What no collection will take from the program: once the garbage is known, the rest.
Safe == IF turn = "scan" THEN Live ELSE Live \ tmp

\* Nothing outside of it is held by the program or by what is safe.
Closed ==
    /\ Rooted \subseteq Safe
    /\ \A e \in edges : e[1] \in Safe => e[2] \in Safe
    /\ \A r \in records :
           (r.kind = "fin" /\ r.owner \in Safe) \/ (r.kind = "map" /\ r.target \in Safe)
           => r.value \in Safe \cup {None}

\* What the lists of objects hold in each pass of the collector.
Passes ==
    /\ \A o \in zero : mem[o] = "live" /\ rc[o] = 0
    /\ zero # {} => turn \in {"program", "clear"}
    /\ turn \in {"program", "clear"} => tmp = {}
    /\ turn = "scan" => tmp = {o \in Live : rc[o] = 0}
    /\ tmp \subseteq Live
    /\ turn # "sweep" => \A o \in Objects : mem[o] # "zombie"
    /\ quitting => local = {} /\ kept = {} /\ \A v \in Values : jobs[v] = 0

Inv == TypeOK /\ Finite /\ Shape /\ WeakNeverDangles /\ Counts /\ Gone /\ Closed /\ Passes

-----------------------------------------------------------------------------
(* Counting references.                                                    *)

\* A set is as large as its two parts.
LEMMA SplitSize ==
    ASSUME NEW S, IsFiniteSet(S), NEW T \in SUBSET S
    PROVE  /\ Cardinality(S) = Cardinality(S \ T) + Cardinality(T)
           /\ Cardinality(S \ T) \in Nat /\ Cardinality(T) \in Nat
<1>1. IsFiniteSet(T) /\ IsFiniteSet(S \ T)
  BY FS_Subset
<1>2. S = (S \ T) \cup T /\ (S \ T) \cap T = {}
  OBVIOUS
<1>3. Cardinality(S) = Cardinality(S \ T) + Cardinality(T) - Cardinality({})
  BY <1>1, <1>2, FS_Union
<1> QED BY <1>1, <1>3, FS_EmptySet, FS_CardinalityType

\* References are a number.
LEMMA RefsNat ==
    ASSUME NEW es, NEW rs, IsFiniteSet(es), IsFiniteSet(rs), NEW o
    PROVE  Refs(es, rs, o) \in Nat
<1>1. IsFiniteSet({e \in es : e[2] = o}) /\ IsFiniteSet({r \in rs : r.value = o})
  BY FS_Subset
<1> QED BY <1>1, FS_CardinalityType DEF Refs

\* There are none if nothing refers to the object.
LEMMA NoRefs ==
    ASSUME NEW es, NEW rs, IsFiniteSet(es), IsFiniteSet(rs), NEW o
    PROVE  Refs(es, rs, o) = 0 <=> (\A e \in es : e[2] # o) /\ (\A r \in rs : r.value # o)
<1>1. IsFiniteSet({e \in es : e[2] = o}) /\ IsFiniteSet({r \in rs : r.value = o})
  BY FS_Subset
<1>2. /\ Cardinality({e \in es : e[2] = o}) \in Nat
      /\ Cardinality({r \in rs : r.value = o}) \in Nat
  BY <1>1, FS_CardinalityType
<1>3. /\ Cardinality({e \in es : e[2] = o}) = 0 <=> {e \in es : e[2] = o} = {}
      /\ Cardinality({r \in rs : r.value = o}) = 0 <=> {r \in rs : r.value = o} = {}
  BY <1>1, FS_EmptySet
<1> QED BY <1>2, <1>3 DEF Refs

\* References from part of the heap and from the rest add up.
LEMMA RefsSplit ==
    ASSUME NEW es, NEW rs, IsFiniteSet(es), IsFiniteSet(rs), NEW o,
           NEW E \in SUBSET es, NEW R \in SUBSET rs
    PROVE  /\ Refs(es, rs, o) = Refs(es \ E, rs \ R, o) + Refs(E, R, o)
           /\ Refs(es \ E, rs \ R, o) \in Nat /\ Refs(E, R, o) \in Nat
<1> DEFINE A == {e \in es : e[2] = o}
<1> DEFINE B == {r \in rs : r.value = o}
<1> DEFINE A1 == {e \in E : e[2] = o}
<1> DEFINE B1 == {r \in R : r.value = o}
<1>1. IsFiniteSet(A) /\ IsFiniteSet(B)
  BY FS_Subset
<1>2. A1 \in SUBSET A /\ B1 \in SUBSET B
  OBVIOUS
<1>3. A \ A1 = {e \in es \ E : e[2] = o} /\ B \ B1 = {r \in rs \ R : r.value = o}
  OBVIOUS
<1>4. /\ Cardinality(A) = Cardinality(A \ A1) + Cardinality(A1)
      /\ Cardinality(A \ A1) \in Nat /\ Cardinality(A1) \in Nat
  <2> HIDE DEF A, A1
  <2> QED BY <1>1, <1>2, SplitSize
<1>5. /\ Cardinality(B) = Cardinality(B \ B1) + Cardinality(B1)
      /\ Cardinality(B \ B1) \in Nat /\ Cardinality(B1) \in Nat
  <2> HIDE DEF B, B1
  <2> QED BY <1>1, <1>2, SplitSize
<1>6. /\ Refs(es, rs, o) = Cardinality(A) + Cardinality(B)
      /\ Refs(E, R, o) = Cardinality(A1) + Cardinality(B1)
  BY DEF Refs
<1>7. Refs(es \ E, rs \ R, o) = Cardinality(A \ A1) + Cardinality(B \ B1)
  <2>1. Refs(es \ E, rs \ R, o) =
            Cardinality({e \in es \ E : e[2] = o}) + Cardinality({r \in rs \ R : r.value = o})
    BY DEF Refs
  <2> HIDE DEF A, B, A1, B1
  <2> QED BY <2>1, <1>3
<1> HIDE DEF A, B, A1, B1
<1> QED BY <1>4, <1>5, <1>6, <1>7

\* One property,
LEMMA OneEdge == ASSUME NEW e, NEW o PROVE Refs({e}, {}, o) = One(e[2] = o)
<1>1. {r \in {} : r.value = o} = {}
  OBVIOUS
<1>2. {d \in {e} : d[2] = o} = IF e[2] = o THEN {e} ELSE {}
  OBVIOUS
<1>3. Cardinality({}) = 0 /\ Cardinality({e}) = 1
  BY FS_EmptySet, FS_Singleton
<1>4. Refs({e}, {}, o) = Cardinality({d \in {e} : d[2] = o}) + Cardinality({r \in {} : r.value = o})
  BY DEF Refs
<1> QED BY <1>1, <1>2, <1>3, <1>4 DEF One

\* and one record.
LEMMA OneRecord == ASSUME NEW r, NEW o PROVE Refs({}, {r}, o) = One(r.value = o)
<1>1. {e \in {} : e[2] = o} = {}
  OBVIOUS
<1>2. {d \in {r} : d.value = o} = IF r.value = o THEN {r} ELSE {}
  OBVIOUS
<1>3. Cardinality({}) = 0 /\ Cardinality({r}) = 1
  BY FS_EmptySet, FS_Singleton
<1>4. Refs({}, {r}, o) = Cardinality({e \in {} : e[2] = o}) + Cardinality({d \in {r} : d.value = o})
  BY DEF Refs
<1> QED BY <1>1, <1>2, <1>3, <1>4 DEF One

\* A property more or less.
LEMMA EdgeAdded ==
    ASSUME NEW es, NEW rs, IsFiniteSet(es), IsFiniteSet(rs), NEW o, NEW e, e \notin es
    PROVE  /\ Refs(es \cup {e}, rs, o) = Refs(es, rs, o) + One(e[2] = o)
           /\ IsFiniteSet(es \cup {e})
<1>1. IsFiniteSet(es \cup {e})
  BY FS_AddElement
<1>2. (es \cup {e}) \ {e} = es /\ rs \ {} = rs /\ {e} \in SUBSET (es \cup {e}) /\ {} \in SUBSET rs
  OBVIOUS
<1>3. Refs(es \cup {e}, rs, o) = Refs((es \cup {e}) \ {e}, rs \ {}, o) + Refs({e}, {}, o)
  <2> DEFINE all == es \cup {e}
  <2> DEFINE E == {e}
  <2> DEFINE R == {}
  <2>1. IsFiniteSet(all) /\ E \in SUBSET all /\ R \in SUBSET rs
    BY <1>1, <1>2
  <2> HIDE DEF all, E, R
  <2>2. Refs(all, rs, o) = Refs(all \ E, rs \ R, o) + Refs(E, R, o)
    BY <2>1, RefsSplit
  <2> QED BY <2>2 DEF all, E, R
<1> QED BY <1>1, <1>2, <1>3, OneEdge

LEMMA EdgeRemoved ==
    ASSUME NEW es, NEW rs, IsFiniteSet(es), IsFiniteSet(rs), NEW o, NEW e \in es
    PROVE  /\ Refs(es, rs, o) = Refs(es \ {e}, rs, o) + One(e[2] = o)
           /\ Refs(es \ {e}, rs, o) \in Nat /\ IsFiniteSet(es \ {e})
<1> DEFINE less == es \ {e}
<1>1. IsFiniteSet(less) /\ e \notin less /\ es = less \cup {e}
  BY FS_RemoveElement
<1> HIDE DEF less
<1>2. Refs(less \cup {e}, rs, o) = Refs(less, rs, o) + One(e[2] = o)
  BY <1>1, EdgeAdded
<1>3. Refs(less, rs, o) \in Nat
  BY <1>1, RefsNat
<1> QED BY <1>1, <1>2, <1>3 DEF less

\* A record more or less.
LEMMA RecordAdded ==
    ASSUME NEW es, NEW rs, IsFiniteSet(es), IsFiniteSet(rs), NEW o, NEW r, r \notin rs
    PROVE  /\ Refs(es, rs \cup {r}, o) = Refs(es, rs, o) + One(r.value = o)
           /\ IsFiniteSet(rs \cup {r})
<1>1. IsFiniteSet(rs \cup {r})
  BY FS_AddElement
<1>2. (rs \cup {r}) \ {r} = rs /\ es \ {} = es /\ {r} \in SUBSET (rs \cup {r}) /\ {} \in SUBSET es
  OBVIOUS
<1>3. Refs(es, rs \cup {r}, o) = Refs(es \ {}, (rs \cup {r}) \ {r}, o) + Refs({}, {r}, o)
  BY <1>1, <1>2, RefsSplit
<1> QED BY <1>1, <1>2, <1>3, OneRecord

LEMMA RecordRemoved ==
    ASSUME NEW es, NEW rs, IsFiniteSet(es), IsFiniteSet(rs), NEW o, NEW r \in rs
    PROVE  /\ Refs(es, rs, o) = Refs(es, rs \ {r}, o) + One(r.value = o)
           /\ Refs(es, rs \ {r}, o) \in Nat /\ IsFiniteSet(rs \ {r})
<1> DEFINE less == rs \ {r}
<1>1. IsFiniteSet(less) /\ r \notin less /\ rs = less \cup {r}
  BY FS_RemoveElement
<1> HIDE DEF less
<1>2. Refs(es, less \cup {r}, o) = Refs(es, less, o) + One(r.value = o)
  BY <1>1, RecordAdded
<1>3. Refs(es, less, o) \in Nat
  BY <1>1, RefsNat
<1> QED BY <1>1, <1>2, <1>3 DEF less

-----------------------------------------------------------------------------
(* Steps of the program.                                                   *)

RcOK == rc \in [Objects -> Nat]

\* The type invariant without the counts.
Types ==
    /\ mem \in [Objects -> {"free", "live", "zombie"}]
    /\ edges \subseteq Objects \X Objects
    /\ records \subseteq [kind : Kinds, owner : Objects, target : Objects, value : Values]
    /\ local \subseteq Objects /\ kept \subseteq Objects /\ jobs \in [Values -> Nat]
    /\ turn \in {"program", "clear", "scan", "sweep"}
    /\ zero \subseteq Objects /\ tmp \subseteq Objects
    /\ quitting \in BOOLEAN

LEMMA TypeParts == (TypeOK <=> Types /\ RcOK) /\ (TypeOK <=> Types /\ RcOK)'
  BY DEF TypeOK, Types, RcOK

\* The counts are numbers if they are exact.
LEMMA RcIsNat ==
    ASSUME Types', Finite', Counts', NEW f, rc' = [o \in Objects |-> f[o]]
    PROVE  RcOK'
<1>1. ASSUME NEW o \in Objects PROVE rc'[o] \in Nat
  <2>1. Refs(edges', records', o) \in Nat
    BY RefsNat DEF Finite
  <2>2. jobs'[o] \in Nat
    BY DEF Types, Values
  <2>3. rc'[o] = Held(o)' + (IF turn' = "scan" THEN 0 ELSE Refs(edges', records', o))
    BY DEF Counts
  <2> QED BY <2>1, <2>2, <2>3 DEF Held, One
<1> QED BY <1>1 DEF RcOK

\* What the program finds: nothing is being freed, and all it holds is live.
LEMMA Ready ==
    ASSUME Inv, Program
    PROVE  /\ turn = "program" /\ zero = {} /\ quitting = FALSE /\ tmp = {} /\ Safe = Live
           /\ \A o \in local \cup kept : o \in Objects /\ mem[o] = "live"
           /\ \A o \in Objects : jobs[o] > 0 => mem[o] = "live"
           /\ \A e \in edges : mem[e[1]] = "live" /\ mem[e[2]] = "live" /\ e[1] \in Objects /\ e[2] \in Objects
           /\ \A r \in records :
                /\ r.owner \in Objects /\ r.target \in Objects
                /\ mem[r.owner] = "live" /\ mem[r.target] = "live"
                /\ r.value # None => r.value \in Objects /\ mem[r.value] = "live"
           /\ \A o \in Objects : rc[o] = Held(o) + Refs(edges, records, o)
           /\ \A o \in Objects : Refs(edges, records, o) \in Nat /\ jobs[o] \in Nat /\ Held(o) \in Nat
<1>1. turn = "program" /\ zero = {} /\ quitting = FALSE /\ tmp = {} /\ Safe = Live
  BY DEF Inv, TypeOK, Program, Passes, Safe
<1>2. \A o \in local \cup kept : o \in Objects /\ mem[o] = "live"
  BY <1>1 DEF Inv, TypeOK, Closed, Rooted, Live
<1>3. \A o \in Objects : jobs[o] > 0 => mem[o] = "live"
  BY <1>1 DEF Inv, TypeOK, Closed, Rooted, Live
<1>4. \A e \in edges : mem[e[1]] = "live" /\ mem[e[2]] = "live" /\ e[1] \in Objects /\ e[2] \in Objects
  BY <1>1 DEF Inv, TypeOK, Closed, Shape, Live
<1>5. ASSUME NEW r \in records
      PROVE  /\ r.owner \in Objects /\ r.target \in Objects
             /\ mem[r.owner] = "live" /\ mem[r.target] = "live"
             /\ r.value # None => r.value \in Objects /\ mem[r.value] = "live"
  <2>1. r.kind \in Kinds /\ r.owner \in Objects /\ r.target \in Objects /\ r.value \in Values
    BY DEF Inv, TypeOK
  <2>2. mem[r.owner] = "live" /\ mem[r.target] = "live"
    BY DEF Inv, WeakNeverDangles, Live
  <2>3. r.kind = "ref" => r.value = None
    BY DEF Inv, Shape
  <2>4. r.kind = "map" \/ r.kind = "fin" => r.value \in Live \cup {None}
    BY <1>1, <2>1, <2>2 DEF Inv, Closed, Live
  <2> QED BY <2>1, <2>2, <2>3, <2>4 DEF Kinds, Values, Live
<1>6. \A o \in Objects : Refs(edges, records, o) \in Nat /\ jobs[o] \in Nat /\ Held(o) \in Nat
  BY RefsNat DEF Inv, Finite, TypeOK, Values, Held, One
<1>7. \A o \in Objects : rc[o] = Held(o) + Refs(edges, records, o)
  BY <1>1, <1>6 DEF Inv, Counts
<1> QED BY <1>1, <1>2, <1>3, <1>4, <1>5, <1>6, <1>7

\* The parts of the invariant, after a step of the program.
LEMMA Assembled ==
    ASSUME Types', Finite', Shape', WeakNeverDangles', Counts', Gone', Closed', Passes',
           NEW f, rc' = [o \in Objects |-> f[o]]
    PROVE  Inv'
<1>1. RcOK'
  BY RcIsNat
<1>2. TypeOK'
  BY <1>1, TypeParts
<1> QED BY <1>2 DEF Inv

LEMMA Initially == Init => Inv
<1> SUFFICES ASSUME Init PROVE Inv
  OBVIOUS
<1>1. TypeOK /\ Shape /\ WeakNeverDangles /\ Gone
  BY DEF Init, TypeOK, Shape, WeakNeverDangles, Gone, Values, Kinds
<1>2. Finite
  BY FS_EmptySet DEF Init, Finite
<1>3. ASSUME NEW o \in Objects PROVE Refs(edges, records, o) = 0 /\ Held(o) = 0
  BY <1>2, NoRefs DEF Init, Finite, Held, One, Values
<1>4. Counts
  BY <1>3 DEF Init, Counts
<1>5. Closed
  BY DEF Init, Closed, Rooted, Safe, Live, Values
<1>6. Passes
  BY DEF Init, Passes, Live
<1> QED BY <1>1, <1>2, <1>4, <1>5, <1>6 DEF Inv

LEMMA NewKeeps == ASSUME Inv, NEW o \in Objects, New(o) PROVE Inv'
<1> USE NoneAssumption
<1>1. Program
  BY DEF New
<1>2. turn = "program" /\ zero = {} /\ quitting = FALSE /\ tmp = {}
  BY <1>1, Ready
<1>3. /\ \A p \in local \cup kept : p \in Objects /\ mem[p] = "live"
      /\ \A p \in Objects : jobs[p] > 0 => mem[p] = "live"
  BY <1>1, Ready
<1>4. \A e \in edges : mem[e[1]] = "live" /\ mem[e[2]] = "live" /\ e[1] \in Objects /\ e[2] \in Objects
  BY <1>1, Ready
<1>5. \A d \in records :
          /\ d.owner \in Objects /\ d.target \in Objects
          /\ mem[d.owner] = "live" /\ mem[d.target] = "live"
          /\ d.value # None => d.value \in Objects /\ mem[d.value] = "live"
  BY <1>1, Ready
<1>6. \A p \in Objects : /\ rc[p] = Held(p) + Refs(edges, records, p)
                         /\ Refs(edges, records, p) \in Nat /\ jobs[p] \in Nat
  BY <1>1, Ready
<1>7. Types /\ RcOK
  BY TypeParts DEF Inv
<1>8. edges' = edges /\ records' = records /\ Finite'
  BY DEF New, heap, roots, collector, Inv, Finite
<1>9. \A p \in Objects : Refs(edges', records', p) = Refs(edges, records, p)
  BY <1>8
<1>10. rc' = [p \in Objects |-> IF p = o THEN 1 ELSE rc[p]]
  BY <1>7 DEF New, heap, roots, collector, Types, RcOK
<1>11. Types'
  BY <1>3, <1>4, <1>5, <1>7 DEF New, heap, roots, collector, Types, Kinds, Values
<1>12. Shape' /\ WeakNeverDangles'
  BY <1>3, <1>4, <1>5, <1>7 DEF New, heap, roots, collector, Types, Inv, Shape, WeakNeverDangles, Live
<1>13. Counts'
  <2>1. turn' = "program"
    BY <1>2 DEF New, heap, roots, collector
  <2>2. ASSUME NEW p \in Objects
        PROVE  rc'[p] = Held(p)' + Refs(edges', records', p)
    <3>1. mem[o] = "free" /\ o \notin local \cup kept /\ jobs[o] = 0
      BY DEF New, Inv, Gone
    <3>2. Refs(edges, records, o) = 0
      <4>1. (\A e \in edges : e[2] # o) /\ (\A d \in records : d.value # o)
        BY <3>1 DEF Inv, Gone
      <4>2. IsFiniteSet(edges) /\ IsFiniteSet(records)
        BY DEF Inv, Finite
      <4> QED BY <4>1, <4>2, NoRefs
    <3>3. Held(p)' = IF p = o THEN 1 ELSE Held(p)
      BY <1>7, <3>1 DEF New, heap, roots, collector, Held, One, Types, Values
    <3> QED BY <1>6, <1>9, <1>10, <3>2, <3>3
  <2> QED BY <2>1, <2>2 DEF Counts
<1>14. Gone'
  BY <1>3, <1>4, <1>5, <1>7 DEF New, heap, roots, collector, Types, Inv, Gone, Values
<1>15. Closed'
  <2>1. Live' \subseteq Safe'
    BY <1>2 DEF New, heap, roots, collector, Safe, Live
  <2>2. Rooted' \subseteq Live'
    BY <1>3, <1>4, <1>5, <1>7 DEF New, heap, roots, collector, Types, Rooted, Live, Values
  <2>3. \A e \in edges' : e[2] \in Live'
    BY <1>3, <1>4, <1>7 DEF New, heap, roots, collector, Types, Live
  <2>4. \A d \in records' : d.value \in Live' \cup {None}
    BY <1>3, <1>5, <1>7 DEF New, heap, roots, collector, Types, Live, Values
  <2> QED BY <2>1, <2>2, <2>3, <2>4 DEF Closed
<1>16. Passes'
  BY <1>2, <1>7 DEF New, heap, roots, collector, Types, Inv, Passes
<1> HIDE NoneAssumption
<1> QED BY <1>8, <1>10, <1>11, <1>12, <1>13, <1>14, <1>15, <1>16, Assembled

LEMMA GetPropertyKeeps == ASSUME Inv, NEW o \in Objects, NEW v \in Objects, GetProperty(o, v) PROVE Inv'
<1> USE NoneAssumption
<1>1. Program
  BY DEF GetProperty
<1>2. turn = "program" /\ zero = {} /\ quitting = FALSE /\ tmp = {}
  BY <1>1, Ready
<1>3. /\ \A p \in local \cup kept : p \in Objects /\ mem[p] = "live"
      /\ \A p \in Objects : jobs[p] > 0 => mem[p] = "live"
  BY <1>1, Ready
<1>4. \A e \in edges : mem[e[1]] = "live" /\ mem[e[2]] = "live" /\ e[1] \in Objects /\ e[2] \in Objects
  BY <1>1, Ready
<1>5. \A d \in records :
          /\ d.owner \in Objects /\ d.target \in Objects
          /\ mem[d.owner] = "live" /\ mem[d.target] = "live"
          /\ d.value # None => d.value \in Objects /\ mem[d.value] = "live"
  BY <1>1, Ready
<1>6. \A p \in Objects : /\ rc[p] = Held(p) + Refs(edges, records, p)
                         /\ Refs(edges, records, p) \in Nat /\ jobs[p] \in Nat
  BY <1>1, Ready
<1>7. Types /\ RcOK
  BY TypeParts DEF Inv
<1>8. edges' = edges /\ records' = records /\ Finite'
  BY DEF GetProperty, Dup, heap, roots, collector, Inv, Finite
<1>9. \A p \in Objects : Refs(edges', records', p) = Refs(edges, records, p)
  BY <1>8
<1>10. rc' = [p \in Objects |-> rc[p] + One(p = v)]
  BY <1>7 DEF GetProperty, Dup, heap, roots, collector, Types, RcOK
<1>11. Types'
  BY <1>3, <1>4, <1>5, <1>7 DEF GetProperty, Dup, heap, roots, collector, Types, Kinds, Values
<1>12. Shape' /\ WeakNeverDangles'
  BY <1>3, <1>4, <1>5, <1>7 DEF GetProperty, Dup, heap, roots, collector, Types, Inv, Shape, WeakNeverDangles, Live
<1>13. Counts'
  <2>1. turn' = "program"
    BY <1>2 DEF GetProperty, Dup, heap, roots, collector
  <2>2. ASSUME NEW p \in Objects
        PROVE  rc'[p] = Held(p)' + Refs(edges', records', p)
    BY <1>3, <1>6, <1>7, <1>9, <1>10 DEF GetProperty, heap, roots, collector, Held, One, Types, Values
  <2> QED BY <2>1, <2>2 DEF Counts
<1>14. Gone'
  BY <1>3, <1>4, <1>5, <1>7 DEF GetProperty, Dup, heap, roots, collector, Types, Inv, Gone, Values
<1>15. Closed'
  <2>1. Live' \subseteq Safe'
    BY <1>2 DEF GetProperty, Dup, heap, roots, collector, Safe, Live
  <2>2. Rooted' \subseteq Live'
    BY <1>3, <1>4, <1>5, <1>7 DEF GetProperty, Dup, heap, roots, collector, Types, Rooted, Live, Values
  <2>3. \A e \in edges' : e[2] \in Live'
    BY <1>3, <1>4, <1>7 DEF GetProperty, Dup, heap, roots, collector, Types, Live
  <2>4. \A d \in records' : d.value \in Live' \cup {None}
    BY <1>3, <1>5, <1>7 DEF GetProperty, Dup, heap, roots, collector, Types, Live, Values
  <2> QED BY <2>1, <2>2, <2>3, <2>4 DEF Closed
<1>16. Passes'
  BY <1>2, <1>7 DEF GetProperty, Dup, heap, roots, collector, Types, Inv, Passes
<1> HIDE NoneAssumption
<1> QED BY <1>8, <1>10, <1>11, <1>12, <1>13, <1>14, <1>15, <1>16, Assembled

LEMMA LookupKeeps == ASSUME Inv, NEW r \in records, Lookup(r) PROVE Inv'
<1> USE NoneAssumption
<1>1. Program
  BY DEF Lookup
<1>2. turn = "program" /\ zero = {} /\ quitting = FALSE /\ tmp = {}
  BY <1>1, Ready
<1>3. /\ \A p \in local \cup kept : p \in Objects /\ mem[p] = "live"
      /\ \A p \in Objects : jobs[p] > 0 => mem[p] = "live"
  BY <1>1, Ready
<1>4. \A e \in edges : mem[e[1]] = "live" /\ mem[e[2]] = "live" /\ e[1] \in Objects /\ e[2] \in Objects
  BY <1>1, Ready
<1>5. \A d \in records :
          /\ d.owner \in Objects /\ d.target \in Objects
          /\ mem[d.owner] = "live" /\ mem[d.target] = "live"
          /\ d.value # None => d.value \in Objects /\ mem[d.value] = "live"
  BY <1>1, Ready
<1>6. \A p \in Objects : /\ rc[p] = Held(p) + Refs(edges, records, p)
                         /\ Refs(edges, records, p) \in Nat /\ jobs[p] \in Nat
  BY <1>1, Ready
<1>7. Types /\ RcOK
  BY TypeParts DEF Inv
<1>8. edges' = edges /\ records' = records /\ Finite'
  BY DEF Lookup, Dup, heap, roots, collector, Inv, Finite
<1>9. \A p \in Objects : Refs(edges', records', p) = Refs(edges, records, p)
  BY <1>8
<1>17. PICK v \in Objects : mem[v] = "live" /\ local' = local \cup {v}
  <2>1. r.kind = "ref" \/ (r.kind = "map" /\ r.value # None)
    BY DEF Lookup, Inv, Shape
  <2> QED BY <1>5, <2>1 DEF Lookup
<1>10. rc' = [p \in Objects |-> rc[p] + One(p = (IF r.kind = "ref" THEN r.target ELSE r.value))]
  BY <1>7 DEF Lookup, Dup, heap, roots, collector, Types, RcOK
<1>11. Types'
  BY <1>3, <1>4, <1>5, <1>7, <1>17 DEF Lookup, Dup, heap, roots, collector, Types, Kinds, Values
<1>12. Shape' /\ WeakNeverDangles'
  BY <1>3, <1>4, <1>5, <1>7 DEF Lookup, Dup, heap, roots, collector, Types, Inv, Shape, WeakNeverDangles, Live
<1>13. Counts'
  <2>1. turn' = "program"
    BY <1>2 DEF Lookup, Dup, heap, roots, collector
  <2>2. ASSUME NEW p \in Objects
        PROVE  rc'[p] = Held(p)' + Refs(edges', records', p)
    BY <1>3, <1>6, <1>7, <1>9, <1>10 DEF Lookup, heap, roots, collector, Held, One, Types, Values
  <2> QED BY <2>1, <2>2 DEF Counts
<1>14. Gone'
  BY <1>3, <1>4, <1>5, <1>7 DEF Lookup, Dup, heap, roots, collector, Types, Inv, Gone, Values
<1>15. Closed'
  <2>1. Live' \subseteq Safe'
    BY <1>2 DEF Lookup, Dup, heap, roots, collector, Safe, Live
  <2>2. Rooted' \subseteq Live'
    BY <1>3, <1>4, <1>5, <1>7, <1>17 DEF Lookup, Dup, heap, roots, collector, Types, Rooted, Live, Values
  <2>3. \A e \in edges' : e[2] \in Live'
    BY <1>3, <1>4, <1>7 DEF Lookup, Dup, heap, roots, collector, Types, Live
  <2>4. \A d \in records' : d.value \in Live' \cup {None}
    BY <1>3, <1>5, <1>7 DEF Lookup, Dup, heap, roots, collector, Types, Live, Values
  <2> QED BY <2>1, <2>2, <2>3, <2>4 DEF Closed
<1>16. Passes'
  BY <1>2, <1>7 DEF Lookup, Dup, heap, roots, collector, Types, Inv, Passes
<1> HIDE NoneAssumption
<1> QED BY <1>8, <1>10, <1>11, <1>12, <1>13, <1>14, <1>15, <1>16, Assembled

LEMMA SetPropertyKeeps == ASSUME Inv, NEW o \in Objects, NEW v \in Objects, SetProperty(o, v) PROVE Inv'
<1> USE NoneAssumption
<1>1. Program
  BY DEF SetProperty
<1>2. turn = "program" /\ zero = {} /\ quitting = FALSE /\ tmp = {}
  BY <1>1, Ready
<1>3. /\ \A p \in local \cup kept : p \in Objects /\ mem[p] = "live"
      /\ \A p \in Objects : jobs[p] > 0 => mem[p] = "live"
  BY <1>1, Ready
<1>4. \A e \in edges : mem[e[1]] = "live" /\ mem[e[2]] = "live" /\ e[1] \in Objects /\ e[2] \in Objects
  BY <1>1, Ready
<1>5. \A d \in records :
          /\ d.owner \in Objects /\ d.target \in Objects
          /\ mem[d.owner] = "live" /\ mem[d.target] = "live"
          /\ d.value # None => d.value \in Objects /\ mem[d.value] = "live"
  BY <1>1, Ready
<1>6. \A p \in Objects : /\ rc[p] = Held(p) + Refs(edges, records, p)
                         /\ Refs(edges, records, p) \in Nat /\ jobs[p] \in Nat
  BY <1>1, Ready
<1>7. Types /\ RcOK
  BY TypeParts DEF Inv
<1>8. Finite' /\ \A p \in Objects : Refs(edges', records', p) = Refs(edges, records, p) + One(p = v)
  <2>1. <<o, v>> \notin edges /\ edges' = edges \cup {<<o, v>>} /\ records' = records
    BY DEF SetProperty, Dup, heap, roots, collector
  <2>2. IsFiniteSet(edges) /\ IsFiniteSet(records)
    BY DEF Inv, Finite
  <2>3. IsFiniteSet(edges \cup {<<o, v>>})
    BY <2>2, FS_AddElement
  <2>4. ASSUME NEW p \in Objects
        PROVE  Refs(edges', records', p) = Refs(edges, records, p) + One(p = v)
    <3> DEFINE e == <<o, v>>
    <3>1. e[2] = v
      OBVIOUS
    <3> HIDE DEF e
    <3>2. Refs(edges \cup {e}, records, p) = Refs(edges, records, p) + One(e[2] = p)
      BY <2>1, <2>2, EdgeAdded DEF e
    <3> QED BY <2>1, <3>1, <3>2 DEF e, One
  <2> QED BY <2>1, <2>2, <2>3, <2>4 DEF Finite
<1>9. \A p \in Objects : Refs(edges', records', p) = Refs(edges, records, p) + One(p = v)
  BY <1>8
<1>10. rc' = [p \in Objects |-> rc[p] + One(p = v)]
  BY <1>7 DEF SetProperty, Dup, heap, roots, collector, Types, RcOK
<1>11. Types'
  BY <1>3, <1>4, <1>5, <1>7 DEF SetProperty, Dup, heap, roots, collector, Types, Kinds, Values
<1>12. Shape' /\ WeakNeverDangles'
  BY <1>3, <1>4, <1>5, <1>7 DEF SetProperty, Dup, heap, roots, collector, Types, Inv, Shape, WeakNeverDangles, Live
<1>13. Counts'
  <2>1. turn' = "program"
    BY <1>2 DEF SetProperty, Dup, heap, roots, collector
  <2>2. ASSUME NEW p \in Objects
        PROVE  rc'[p] = Held(p)' + Refs(edges', records', p)
    <3>1. Held(p)' = Held(p) /\ Held(p) \in Nat
      BY <1>7 DEF SetProperty, heap, roots, collector, Held, One, Types, Values
    <3> QED BY <1>6, <1>9, <1>10, <3>1 DEF One
  <2> QED BY <2>1, <2>2 DEF Counts
<1>14. Gone'
  BY <1>3, <1>4, <1>5, <1>7 DEF SetProperty, Dup, heap, roots, collector, Types, Inv, Gone, Values
<1>15. Closed'
  <2>1. Live' \subseteq Safe'
    BY <1>2 DEF SetProperty, Dup, heap, roots, collector, Safe, Live
  <2>2. Rooted' \subseteq Live'
    BY <1>3, <1>4, <1>5, <1>7 DEF SetProperty, Dup, heap, roots, collector, Types, Rooted, Live, Values
  <2>3. \A e \in edges' : e[2] \in Live'
    BY <1>3, <1>4, <1>7 DEF SetProperty, Dup, heap, roots, collector, Types, Live
  <2>4. \A d \in records' : d.value \in Live' \cup {None}
    BY <1>3, <1>5, <1>7 DEF SetProperty, Dup, heap, roots, collector, Types, Live, Values
  <2> QED BY <2>1, <2>2, <2>3, <2>4 DEF Closed
<1>16. Passes'
  BY <1>2, <1>7 DEF SetProperty, Dup, heap, roots, collector, Types, Inv, Passes
<1> HIDE NoneAssumption
<1> QED BY <1>8, <1>10, <1>11, <1>12, <1>13, <1>14, <1>15, <1>16, Assembled

LEMMA SetEntryKeeps == ASSUME Inv, NEW m \in Objects, NEW k \in Objects, NEW v \in Objects, SetEntry(m, k, v) PROVE Inv'
<1> USE NoneAssumption
<1>1. Program
  BY DEF SetEntry
<1>2. turn = "program" /\ zero = {} /\ quitting = FALSE /\ tmp = {}
  BY <1>1, Ready
<1>3. /\ \A p \in local \cup kept : p \in Objects /\ mem[p] = "live"
      /\ \A p \in Objects : jobs[p] > 0 => mem[p] = "live"
  BY <1>1, Ready
<1>4. \A e \in edges : mem[e[1]] = "live" /\ mem[e[2]] = "live" /\ e[1] \in Objects /\ e[2] \in Objects
  BY <1>1, Ready
<1>5. \A d \in records :
          /\ d.owner \in Objects /\ d.target \in Objects
          /\ mem[d.owner] = "live" /\ mem[d.target] = "live"
          /\ d.value # None => d.value \in Objects /\ mem[d.value] = "live"
  BY <1>1, Ready
<1>6. \A p \in Objects : /\ rc[p] = Held(p) + Refs(edges, records, p)
                         /\ Refs(edges, records, p) \in Nat /\ jobs[p] \in Nat
  BY <1>1, Ready
<1>7. Types /\ RcOK
  BY TypeParts DEF Inv
<1>8. Finite' /\ \A p \in Objects : Refs(edges', records', p) = Refs(edges, records, p) + One(p = v)
  <2> DEFINE d == [kind |-> "map", owner |-> m, target |-> k, value |-> v]
  <2>1. d \notin records /\ records' = records \cup {d} /\ edges' = edges
    BY DEF SetEntry, Dup, heap, roots, collector
  <2>2. IsFiniteSet(edges) /\ IsFiniteSet(records)
    BY DEF Inv, Finite
  <2>3. d.value = v
    OBVIOUS
  <2> HIDE DEF d
  <2>4. IsFiniteSet(records \cup {d})
    BY <2>2, FS_AddElement
  <2>5. ASSUME NEW p \in Objects
        PROVE  Refs(edges', records', p) = Refs(edges, records, p) + One(p = v)
    <3>1. Refs(edges, records \cup {d}, p) = Refs(edges, records, p) + One(d.value = p)
      BY <2>1, <2>2, RecordAdded
    <3> QED BY <2>1, <2>3, <3>1 DEF One
  <2> QED BY <2>1, <2>2, <2>4, <2>5 DEF Finite
<1>9. \A p \in Objects : Refs(edges', records', p) = Refs(edges, records, p) + One(p = v)
  BY <1>8
<1>10. rc' = [p \in Objects |-> rc[p] + One(p = v)]
  BY <1>7 DEF SetEntry, Dup, heap, roots, collector, Types, RcOK
<1>11. Types'
  BY <1>3, <1>4, <1>5, <1>7 DEF SetEntry, Dup, heap, roots, collector, Types, Kinds, Values
<1>12. Shape' /\ WeakNeverDangles'
  BY <1>3, <1>4, <1>5, <1>7 DEF SetEntry, Dup, heap, roots, collector, Types, Inv, Shape, WeakNeverDangles, Live
<1>13. Counts'
  <2>1. turn' = "program"
    BY <1>2 DEF SetEntry, Dup, heap, roots, collector
  <2>2. ASSUME NEW p \in Objects
        PROVE  rc'[p] = Held(p)' + Refs(edges', records', p)
    <3>1. Held(p)' = Held(p) /\ Held(p) \in Nat
      BY <1>7 DEF SetEntry, heap, roots, collector, Held, One, Types, Values
    <3> QED BY <1>6, <1>9, <1>10, <3>1 DEF One
  <2> QED BY <2>1, <2>2 DEF Counts
<1>14. Gone'
  BY <1>3, <1>4, <1>5, <1>7 DEF SetEntry, Dup, heap, roots, collector, Types, Inv, Gone, Values
<1>15. Closed'
  <2>1. Live' \subseteq Safe'
    BY <1>2 DEF SetEntry, Dup, heap, roots, collector, Safe, Live
  <2>2. Rooted' \subseteq Live'
    BY <1>3, <1>4, <1>5, <1>7 DEF SetEntry, Dup, heap, roots, collector, Types, Rooted, Live, Values
  <2>3. \A e \in edges' : e[2] \in Live'
    BY <1>3, <1>4, <1>7 DEF SetEntry, Dup, heap, roots, collector, Types, Live
  <2>4. \A d \in records' : d.value \in Live' \cup {None}
    BY <1>3, <1>5, <1>7 DEF SetEntry, Dup, heap, roots, collector, Types, Live, Values
  <2> QED BY <2>1, <2>2, <2>3, <2>4 DEF Closed
<1>16. Passes'
  BY <1>2, <1>7 DEF SetEntry, Dup, heap, roots, collector, Types, Inv, Passes
<1> HIDE NoneAssumption
<1> QED BY <1>8, <1>10, <1>11, <1>12, <1>13, <1>14, <1>15, <1>16, Assembled

LEMMA NewWeakRefKeeps == ASSUME Inv, NEW w \in Objects, NEW t \in Objects, NewWeakRef(w, t) PROVE Inv'
<1> USE NoneAssumption
<1>1. Program
  BY DEF NewWeakRef
<1>2. turn = "program" /\ zero = {} /\ quitting = FALSE /\ tmp = {}
  BY <1>1, Ready
<1>3. /\ \A p \in local \cup kept : p \in Objects /\ mem[p] = "live"
      /\ \A p \in Objects : jobs[p] > 0 => mem[p] = "live"
  BY <1>1, Ready
<1>4. \A e \in edges : mem[e[1]] = "live" /\ mem[e[2]] = "live" /\ e[1] \in Objects /\ e[2] \in Objects
  BY <1>1, Ready
<1>5. \A d \in records :
          /\ d.owner \in Objects /\ d.target \in Objects
          /\ mem[d.owner] = "live" /\ mem[d.target] = "live"
          /\ d.value # None => d.value \in Objects /\ mem[d.value] = "live"
  BY <1>1, Ready
<1>6. \A p \in Objects : /\ rc[p] = Held(p) + Refs(edges, records, p)
                         /\ Refs(edges, records, p) \in Nat /\ jobs[p] \in Nat
  BY <1>1, Ready
<1>7. Types /\ RcOK
  BY TypeParts DEF Inv
<1>8. Finite' /\ \A p \in Objects : Refs(edges', records', p) = Refs(edges, records, p) + One(p = None)
  <2> DEFINE d == [kind |-> "ref", owner |-> w, target |-> t, value |-> None]
  <2>1. d \notin records /\ records' = records \cup {d} /\ edges' = edges
    BY DEF NewWeakRef, heap, roots, collector
  <2>2. IsFiniteSet(edges) /\ IsFiniteSet(records)
    BY DEF Inv, Finite
  <2>3. d.value = None
    OBVIOUS
  <2> HIDE DEF d
  <2>4. IsFiniteSet(records \cup {d})
    BY <2>2, FS_AddElement
  <2>5. ASSUME NEW p \in Objects
        PROVE  Refs(edges', records', p) = Refs(edges, records, p) + One(p = None)
    <3>1. Refs(edges, records \cup {d}, p) = Refs(edges, records, p) + One(d.value = p)
      BY <2>1, <2>2, RecordAdded
    <3> QED BY <2>1, <2>3, <3>1 DEF One
  <2> QED BY <2>1, <2>2, <2>4, <2>5 DEF Finite
<1>9. \A p \in Objects : Refs(edges', records', p) = Refs(edges, records, p) + One(p = None)
  BY <1>8
<1>10. rc' = [p \in Objects |-> IF p = t THEN rc[t] + One(t \notin kept) ELSE rc[p]]
  <2> DEFINE n == One(t \notin kept)
  <2>1. n \in {0, 1} /\ rc' = [rc EXCEPT ![t] = rc[t] + n]
    BY DEF NewWeakRef, One
  <2> HIDE DEF n
  <2>2. rc' = [p \in Objects |-> IF p = t THEN rc[t] + n ELSE rc[p]]
    BY <1>7, <2>1 DEF RcOK
  <2> QED BY <2>2 DEF n
<1>11. Types'
  BY <1>3, <1>4, <1>5, <1>7 DEF NewWeakRef, heap, roots, collector, Types, Kinds, Values
<1>12. Shape' /\ WeakNeverDangles'
  BY <1>3, <1>4, <1>5, <1>7 DEF NewWeakRef, heap, roots, collector, Types, Inv, Shape, WeakNeverDangles, Live
<1>13. Counts'
  <2>1. turn' = "program"
    BY <1>2 DEF NewWeakRef, heap, roots, collector
  <2>2. ASSUME NEW p \in Objects
        PROVE  rc'[p] = Held(p)' + Refs(edges', records', p)
    <3>1. Held(p)' = Held(p) + (IF p = t THEN One(t \notin kept) ELSE 0) /\ Held(p) \in Nat
      BY <1>7 DEF NewWeakRef, heap, roots, collector, Held, One, Types, Values
    <3>2. Refs(edges', records', p) = Refs(edges, records, p)
      BY <1>6, <1>9 DEF One
    <3> QED BY <1>6, <1>10, <3>1, <3>2 DEF One
  <2> QED BY <2>1, <2>2 DEF Counts
<1>14. Gone'
  BY <1>3, <1>4, <1>5, <1>7 DEF NewWeakRef, heap, roots, collector, Types, Inv, Gone, Values
<1>15. Closed'
  <2>1. Live' \subseteq Safe'
    BY <1>2 DEF NewWeakRef, heap, roots, collector, Safe, Live
  <2>2. Rooted' \subseteq Live'
    BY <1>3, <1>4, <1>5, <1>7 DEF NewWeakRef, heap, roots, collector, Types, Rooted, Live, Values
  <2>3. \A e \in edges' : e[2] \in Live'
    BY <1>3, <1>4, <1>7 DEF NewWeakRef, heap, roots, collector, Types, Live
  <2>4. \A d \in records' : d.value \in Live' \cup {None}
    BY <1>3, <1>5, <1>7 DEF NewWeakRef, heap, roots, collector, Types, Live, Values
  <2> QED BY <2>1, <2>2, <2>3, <2>4 DEF Closed
<1>16. Passes'
  BY <1>2, <1>7 DEF NewWeakRef, heap, roots, collector, Types, Inv, Passes
<1> HIDE NoneAssumption
<1> QED BY <1>8, <1>10, <1>11, <1>12, <1>13, <1>14, <1>15, <1>16, Assembled

LEMMA RegisterKeeps == ASSUME Inv, NEW f \in Objects, NEW t \in Objects, NEW v \in Values, Register(f, t, v) PROVE Inv'
<1> USE NoneAssumption
<1>1. Program
  BY DEF Register
<1>2. turn = "program" /\ zero = {} /\ quitting = FALSE /\ tmp = {}
  BY <1>1, Ready
<1>3. /\ \A p \in local \cup kept : p \in Objects /\ mem[p] = "live"
      /\ \A p \in Objects : jobs[p] > 0 => mem[p] = "live"
  BY <1>1, Ready
<1>4. \A e \in edges : mem[e[1]] = "live" /\ mem[e[2]] = "live" /\ e[1] \in Objects /\ e[2] \in Objects
  BY <1>1, Ready
<1>5. \A d \in records :
          /\ d.owner \in Objects /\ d.target \in Objects
          /\ mem[d.owner] = "live" /\ mem[d.target] = "live"
          /\ d.value # None => d.value \in Objects /\ mem[d.value] = "live"
  BY <1>1, Ready
<1>6. \A p \in Objects : /\ rc[p] = Held(p) + Refs(edges, records, p)
                         /\ Refs(edges, records, p) \in Nat /\ jobs[p] \in Nat
  BY <1>1, Ready
<1>7. Types /\ RcOK
  BY TypeParts DEF Inv
<1>8. Finite' /\ \A p \in Objects : Refs(edges', records', p) = Refs(edges, records, p) + One(p = v)
  <2> DEFINE d == [kind |-> "fin", owner |-> f, target |-> t, value |-> v]
  <2>1. d \notin records /\ records' = records \cup {d} /\ edges' = edges
    BY DEF Register, Dup, heap, roots, collector
  <2>2. IsFiniteSet(edges) /\ IsFiniteSet(records)
    BY DEF Inv, Finite
  <2>3. d.value = v
    OBVIOUS
  <2> HIDE DEF d
  <2>4. IsFiniteSet(records \cup {d})
    BY <2>2, FS_AddElement
  <2>5. ASSUME NEW p \in Objects
        PROVE  Refs(edges', records', p) = Refs(edges, records, p) + One(p = v)
    <3>1. Refs(edges, records \cup {d}, p) = Refs(edges, records, p) + One(d.value = p)
      BY <2>1, <2>2, RecordAdded
    <3> QED BY <2>1, <2>3, <3>1 DEF One
  <2> QED BY <2>1, <2>2, <2>4, <2>5 DEF Finite
<1>9. \A p \in Objects : Refs(edges', records', p) = Refs(edges, records, p) + One(p = v)
  BY <1>8
<1>10. rc' = [p \in Objects |-> rc[p] + One(p = v)]
  BY <1>7 DEF Register, Dup, heap, roots, collector, Types, RcOK
<1>11. Types'
  BY <1>3, <1>4, <1>5, <1>7 DEF Register, Dup, heap, roots, collector, Types, Kinds, Values
<1>12. Shape' /\ WeakNeverDangles'
  BY <1>3, <1>4, <1>5, <1>7 DEF Register, Dup, heap, roots, collector, Types, Inv, Shape, WeakNeverDangles, Live
<1>13. Counts'
  <2>1. turn' = "program"
    BY <1>2 DEF Register, Dup, heap, roots, collector
  <2>2. ASSUME NEW p \in Objects
        PROVE  rc'[p] = Held(p)' + Refs(edges', records', p)
    <3>1. Held(p)' = Held(p) /\ Held(p) \in Nat
      BY <1>7 DEF Register, heap, roots, collector, Held, One, Types, Values
    <3> QED BY <1>6, <1>9, <1>10, <3>1 DEF One
  <2> QED BY <2>1, <2>2 DEF Counts
<1>14. Gone'
  BY <1>3, <1>4, <1>5, <1>7 DEF Register, Dup, heap, roots, collector, Types, Inv, Gone, Values
<1>15. Closed'
  <2>1. Live' \subseteq Safe'
    BY <1>2 DEF Register, Dup, heap, roots, collector, Safe, Live
  <2>2. Rooted' \subseteq Live'
    BY <1>3, <1>4, <1>5, <1>7 DEF Register, Dup, heap, roots, collector, Types, Rooted, Live, Values
  <2>3. \A e \in edges' : e[2] \in Live'
    BY <1>3, <1>4, <1>7 DEF Register, Dup, heap, roots, collector, Types, Live
  <2>4. \A d \in records' : d.value \in Live' \cup {None}
    BY <1>3, <1>5, <1>7 DEF Register, Dup, heap, roots, collector, Types, Live, Values
  <2> QED BY <2>1, <2>2, <2>3, <2>4 DEF Closed
<1>16. Passes'
  BY <1>2, <1>7 DEF Register, Dup, heap, roots, collector, Types, Inv, Passes
<1> HIDE NoneAssumption
<1> QED BY <1>8, <1>10, <1>11, <1>12, <1>13, <1>14, <1>15, <1>16, Assembled

LEMMA CallKeeps == ASSUME Inv, NEW v \in Values, Call(v) PROVE Inv'
<1> USE NoneAssumption
<1>1. Program
  BY DEF Call
<1>2. turn = "program" /\ zero = {} /\ quitting = FALSE /\ tmp = {}
  BY <1>1, Ready
<1>3. /\ \A p \in local \cup kept : p \in Objects /\ mem[p] = "live"
      /\ \A p \in Objects : jobs[p] > 0 => mem[p] = "live"
  BY <1>1, Ready
<1>4. \A e \in edges : mem[e[1]] = "live" /\ mem[e[2]] = "live" /\ e[1] \in Objects /\ e[2] \in Objects
  BY <1>1, Ready
<1>5. \A d \in records :
          /\ d.owner \in Objects /\ d.target \in Objects
          /\ mem[d.owner] = "live" /\ mem[d.target] = "live"
          /\ d.value # None => d.value \in Objects /\ mem[d.value] = "live"
  BY <1>1, Ready
<1>6. \A p \in Objects : /\ rc[p] = Held(p) + Refs(edges, records, p)
                         /\ Refs(edges, records, p) \in Nat /\ jobs[p] \in Nat
  BY <1>1, Ready
<1>7. Types /\ RcOK
  BY TypeParts DEF Inv
<1>8. edges' = edges /\ records' = records /\ Finite'
  BY DEF Call, heap, roots, collector, Inv, Finite
<1>9. \A p \in Objects : Refs(edges', records', p) = Refs(edges, records, p)
  BY <1>8
<1>10. rc' = [p \in Objects |-> rc[p] - One(p = v /\ v \in local)]
  BY <1>7 DEF Call, heap, roots, collector, Types, RcOK
<1>11. Types'
  BY <1>3, <1>4, <1>5, <1>7 DEF Call, heap, roots, collector, Types, Kinds, Values
<1>12. Shape' /\ WeakNeverDangles'
  BY <1>3, <1>4, <1>5, <1>7 DEF Call, heap, roots, collector, Types, Inv, Shape, WeakNeverDangles, Live
<1>13. Counts'
  <2>1. turn' = "program"
    BY <1>2 DEF Call, heap, roots, collector
  <2>2. ASSUME NEW p \in Objects
        PROVE  rc'[p] = Held(p)' + Refs(edges', records', p)
    BY <1>3, <1>6, <1>7, <1>9, <1>10 DEF Call, heap, roots, collector, Held, One, Types, Values
  <2> QED BY <2>1, <2>2 DEF Counts
<1>14. Gone'
  BY <1>3, <1>4, <1>5, <1>7 DEF Call, heap, roots, collector, Types, Inv, Gone, Values
<1>15. Closed'
  <2>1. Live' \subseteq Safe'
    BY <1>2 DEF Call, heap, roots, collector, Safe, Live
  <2>2. Rooted' \subseteq Live'
    BY <1>3, <1>4, <1>5, <1>7 DEF Call, heap, roots, collector, Types, Rooted, Live, Values
  <2>3. \A e \in edges' : e[2] \in Live'
    BY <1>3, <1>4, <1>7 DEF Call, heap, roots, collector, Types, Live
  <2>4. \A d \in records' : d.value \in Live' \cup {None}
    BY <1>3, <1>5, <1>7 DEF Call, heap, roots, collector, Types, Live, Values
  <2> QED BY <2>1, <2>2, <2>3, <2>4 DEF Closed
<1>16. Passes'
  BY <1>2, <1>7 DEF Call, heap, roots, collector, Types, Inv, Passes
<1> HIDE NoneAssumption
<1> QED BY <1>8, <1>10, <1>11, <1>12, <1>13, <1>14, <1>15, <1>16, Assembled

-----------------------------------------------------------------------------
(* Steps of the program that drop references.                              *)

LEMMA ForgetKeeps == ASSUME Inv, NEW o \in Objects, Forget(o) PROVE Inv'
<1> USE NoneAssumption
<1>1. Program
  BY DEF Forget
<1>2. turn = "program" /\ zero = {} /\ quitting = FALSE /\ tmp = {}
  BY <1>1, Ready
<1>3. /\ \A p \in local \cup kept : p \in Objects /\ mem[p] = "live"
      /\ \A p \in Objects : jobs[p] > 0 => mem[p] = "live"
  BY <1>1, Ready
<1>4. \A e \in edges : mem[e[1]] = "live" /\ mem[e[2]] = "live" /\ e[1] \in Objects /\ e[2] \in Objects
  BY <1>1, Ready
<1>5. \A d \in records :
          /\ d.owner \in Objects /\ d.target \in Objects
          /\ mem[d.owner] = "live" /\ mem[d.target] = "live"
          /\ d.value # None => d.value \in Objects /\ mem[d.value] = "live"
  BY <1>1, Ready
<1>6. \A p \in Objects : /\ rc[p] = Held(p) + Refs(edges, records, p)
                         /\ Refs(edges, records, p) \in Nat /\ jobs[p] \in Nat
                         /\ Held(p) \in Nat
  BY <1>1, Ready
<1>7. Types /\ RcOK
  BY TypeParts DEF Inv
<1>8. edges' = edges /\ records' = records /\ Finite'
  BY DEF Forget, Free, heap, roots, collector, Inv, Finite
<1>9. \A p \in Objects : Refs(edges', records', p) = Refs(edges, records, p)
  BY <1>8
<1>10. rc' = [p \in Objects |-> rc[p] - One(p = o)]
  BY <1>7 DEF Forget, Free, heap, roots, collector
<1>11. Types'
  BY <1>7 DEF Forget, Free, heap, roots, collector, Types
<1>12. Shape' /\ WeakNeverDangles'
  BY <1>7 DEF Forget, Free, heap, roots, collector, Types, Inv, Shape, WeakNeverDangles, Live
<1>13. \A p \in Objects : rc'[p] = Held(p)' + Refs(edges', records', p) /\ rc'[p] \in Nat
  <2>1. ASSUME NEW p \in Objects
        PROVE  rc'[p] = Held(p)' + Refs(edges', records', p) /\ rc'[p] \in Nat
    <3>1. Held(p) = Held(p)' + One(p = o) /\ Held(p)' \in Nat
      BY <1>7 DEF Forget, Free, heap, roots, collector, Held, One, Types, Values
    <3> QED BY <1>6, <1>9, <1>10, <3>1 DEF One
  <2> QED BY <2>1
<1>14. Counts'
  <2>1. turn' # "scan"
    BY <1>2 DEF Forget, Free, heap, roots, collector
  <2> QED BY <1>13, <2>1 DEF Counts
<1>15. Gone'
  BY <1>7 DEF Forget, Free, heap, roots, collector, Types, Inv, Gone, Values
<1>16. Closed'
  <2>1. Live' \subseteq Safe' /\ Live' = Live
    BY <1>2 DEF Forget, Free, heap, roots, collector, Safe, Live
  <2>2. Rooted' \subseteq Live'
    BY <1>3, <1>7 DEF Forget, Free, heap, roots, collector, Types, Rooted, Live, Values
  <2>3. \A e \in edges' : e[2] \in Live'
    BY <1>4, <2>1 DEF Forget, Free, heap, roots, collector, Live
  <2>4. \A d \in records' : d.value \in Live' \cup {None}
    BY <1>5, <2>1 DEF Forget, Free, heap, roots, collector, Live
  <2> QED BY <2>1, <2>2, <2>3, <2>4 DEF Closed
<1>17. Passes'
  <2>1. \A p \in zero' : mem'[p] = "live" /\ rc'[p] = 0
    BY <1>3, <1>4, <1>5, <1>7, <1>10 DEF Forget, Free, heap, roots, collector, Types, RcOK, One
  <2>2. turn' \in {"program", "clear"} /\ tmp' = {} /\ quitting' = FALSE /\ mem' = mem
    BY <1>2 DEF Forget, Free, heap, roots, collector
  <2> QED BY <1>2, <2>1, <2>2 DEF Inv, Passes
<1> HIDE NoneAssumption
<1>18. Finite'
  BY <1>8
<1> QED BY <1>10, <1>11, <1>12, <1>14, <1>15, <1>16, <1>17, <1>18, Assembled

LEMMA DeletePropertyKeeps == ASSUME Inv, NEW o \in Objects, NEW v \in Objects, DeleteProperty(o, v) PROVE Inv'
<1> USE NoneAssumption
<1>1. Program
  BY DEF DeleteProperty
<1>2. turn = "program" /\ zero = {} /\ quitting = FALSE /\ tmp = {}
  BY <1>1, Ready
<1>3. /\ \A p \in local \cup kept : p \in Objects /\ mem[p] = "live"
      /\ \A p \in Objects : jobs[p] > 0 => mem[p] = "live"
  BY <1>1, Ready
<1>4. \A e \in edges : mem[e[1]] = "live" /\ mem[e[2]] = "live" /\ e[1] \in Objects /\ e[2] \in Objects
  BY <1>1, Ready
<1>5. \A d \in records :
          /\ d.owner \in Objects /\ d.target \in Objects
          /\ mem[d.owner] = "live" /\ mem[d.target] = "live"
          /\ d.value # None => d.value \in Objects /\ mem[d.value] = "live"
  BY <1>1, Ready
<1>6. \A p \in Objects : /\ rc[p] = Held(p) + Refs(edges, records, p)
                         /\ Refs(edges, records, p) \in Nat /\ jobs[p] \in Nat
                         /\ Held(p) \in Nat
  BY <1>1, Ready
<1>7. Types /\ RcOK
  BY TypeParts DEF Inv
<1>8. Finite' /\ \A p \in Objects : /\ Refs(edges, records, p) = Refs(edges', records', p) + One(p = v)
                                   /\ Refs(edges', records', p) \in Nat
  <2> DEFINE e == <<o, v>>
  <2>1. e[2] = v
    OBVIOUS
  <2>2. e \in edges /\ edges' = edges \ {e} /\ records' = records
    BY DEF DeleteProperty, Free, heap, roots, collector
  <2>3. IsFiniteSet(edges) /\ IsFiniteSet(records)
    BY DEF Inv, Finite
  <2> HIDE DEF e
  <2>4. IsFiniteSet(edges \ {e})
    BY <2>3, FS_RemoveElement
  <2>5. ASSUME NEW p \in Objects
        PROVE  /\ Refs(edges, records, p) = Refs(edges', records', p) + One(p = v)
               /\ Refs(edges', records', p) \in Nat
    <3>1. /\ Refs(edges, records, p) = Refs(edges \ {e}, records, p) + One(e[2] = p)
          /\ Refs(edges \ {e}, records, p) \in Nat
      BY <2>2, <2>3, EdgeRemoved
    <3> QED BY <2>1, <2>2, <3>1 DEF One
  <2> QED BY <2>2, <2>3, <2>4, <2>5 DEF Finite
<1>9. \A p \in Objects : /\ Refs(edges, records, p) = Refs(edges', records', p) + One(p = v)
                         /\ Refs(edges', records', p) \in Nat
  BY <1>8
<1>10. rc' = [p \in Objects |-> rc[p] - One(p = v)]
  BY <1>7 DEF DeleteProperty, Free, heap, roots, collector
<1>11. Types'
  BY <1>7 DEF DeleteProperty, Free, heap, roots, collector, Types
<1>12. Shape' /\ WeakNeverDangles'
  BY <1>7 DEF DeleteProperty, Free, heap, roots, collector, Types, Inv, Shape, WeakNeverDangles, Live
<1>13. \A p \in Objects : rc'[p] = Held(p)' + Refs(edges', records', p) /\ rc'[p] \in Nat
  <2>1. ASSUME NEW p \in Objects
        PROVE  rc'[p] = Held(p)' + Refs(edges', records', p) /\ rc'[p] \in Nat
    <3>1. Held(p) = Held(p)' /\ Held(p)' \in Nat
      BY <1>7 DEF DeleteProperty, Free, heap, roots, collector, Held, One, Types, Values
    <3> QED BY <1>6, <1>9, <1>10, <3>1 DEF One
  <2> QED BY <2>1
<1>14. Counts'
  <2>1. turn' # "scan"
    BY <1>2 DEF DeleteProperty, Free, heap, roots, collector
  <2> QED BY <1>13, <2>1 DEF Counts
<1>15. Gone'
  BY <1>7 DEF DeleteProperty, Free, heap, roots, collector, Types, Inv, Gone, Values
<1>16. Closed'
  <2>1. Live' \subseteq Safe' /\ Live' = Live
    BY <1>2 DEF DeleteProperty, Free, heap, roots, collector, Safe, Live
  <2>2. Rooted' \subseteq Live'
    BY <1>3, <1>7 DEF DeleteProperty, Free, heap, roots, collector, Types, Rooted, Live, Values
  <2>3. \A e \in edges' : e[2] \in Live'
    BY <1>4, <2>1 DEF DeleteProperty, Free, heap, roots, collector, Live
  <2>4. \A d \in records' : d.value \in Live' \cup {None}
    BY <1>5, <2>1 DEF DeleteProperty, Free, heap, roots, collector, Live
  <2> QED BY <2>1, <2>2, <2>3, <2>4 DEF Closed
<1>17. Passes'
  <2>1. \A p \in zero' : mem'[p] = "live" /\ rc'[p] = 0
    BY <1>3, <1>4, <1>5, <1>7, <1>10 DEF DeleteProperty, Free, heap, roots, collector, Types, RcOK, One
  <2>2. turn' \in {"program", "clear"} /\ tmp' = {} /\ quitting' = FALSE /\ mem' = mem
    BY <1>2 DEF DeleteProperty, Free, heap, roots, collector
  <2> QED BY <1>2, <2>1, <2>2 DEF Inv, Passes
<1> HIDE NoneAssumption
<1>18. Finite'
  BY <1>8
<1> QED BY <1>10, <1>11, <1>12, <1>14, <1>15, <1>16, <1>17, <1>18, Assembled

LEMMA RemoveKeeps == ASSUME Inv, NEW r \in records, Remove(r) PROVE Inv'
<1> USE NoneAssumption
<1>1. Program
  BY DEF Remove
<1>2. turn = "program" /\ zero = {} /\ quitting = FALSE /\ tmp = {}
  BY <1>1, Ready
<1>3. /\ \A p \in local \cup kept : p \in Objects /\ mem[p] = "live"
      /\ \A p \in Objects : jobs[p] > 0 => mem[p] = "live"
  BY <1>1, Ready
<1>4. \A e \in edges : mem[e[1]] = "live" /\ mem[e[2]] = "live" /\ e[1] \in Objects /\ e[2] \in Objects
  BY <1>1, Ready
<1>5. \A d \in records :
          /\ d.owner \in Objects /\ d.target \in Objects
          /\ mem[d.owner] = "live" /\ mem[d.target] = "live"
          /\ d.value # None => d.value \in Objects /\ mem[d.value] = "live"
  BY <1>1, Ready
<1>6. \A p \in Objects : /\ rc[p] = Held(p) + Refs(edges, records, p)
                         /\ Refs(edges, records, p) \in Nat /\ jobs[p] \in Nat
                         /\ Held(p) \in Nat
  BY <1>1, Ready
<1>7. Types /\ RcOK
  BY TypeParts DEF Inv
<1>8. Finite' /\ \A p \in Objects : /\ Refs(edges, records, p) = Refs(edges', records', p) + One(p = r.value)
                                   /\ Refs(edges', records', p) \in Nat
  <2>1. records' = records \ {r} /\ edges' = edges
    BY DEF Remove, Free, heap, roots, collector
  <2>2. IsFiniteSet(edges) /\ IsFiniteSet(records)
    BY DEF Inv, Finite
  <2>3. IsFiniteSet(records \ {r})
    BY <2>2, FS_RemoveElement
  <2>4. ASSUME NEW p \in Objects
        PROVE  /\ Refs(edges, records, p) = Refs(edges', records', p) + One(p = r.value)
               /\ Refs(edges', records', p) \in Nat
    <3>1. /\ Refs(edges, records, p) = Refs(edges, records \ {r}, p) + One(r.value = p)
          /\ Refs(edges, records \ {r}, p) \in Nat
      BY <2>2, RecordRemoved
    <3> QED BY <2>1, <3>1 DEF One
  <2> QED BY <2>1, <2>2, <2>3, <2>4 DEF Finite
<1>9. \A p \in Objects : /\ Refs(edges, records, p) = Refs(edges', records', p) + One(p = r.value)
                         /\ Refs(edges', records', p) \in Nat
  BY <1>8
<1>10. rc' = [p \in Objects |-> rc[p] - One(p = r.value)]
  BY <1>7 DEF Remove, Free, heap, roots, collector
<1>11. Types'
  BY <1>7 DEF Remove, Free, heap, roots, collector, Types
<1>12. Shape' /\ WeakNeverDangles'
  BY <1>7 DEF Remove, Free, heap, roots, collector, Types, Inv, Shape, WeakNeverDangles, Live
<1>13. \A p \in Objects : rc'[p] = Held(p)' + Refs(edges', records', p) /\ rc'[p] \in Nat
  <2>1. ASSUME NEW p \in Objects
        PROVE  rc'[p] = Held(p)' + Refs(edges', records', p) /\ rc'[p] \in Nat
    <3>1. Held(p) = Held(p)' /\ Held(p)' \in Nat
      BY <1>7 DEF Remove, Free, heap, roots, collector, Held, One, Types, Values
    <3> QED BY <1>6, <1>9, <1>10, <3>1 DEF One
  <2> QED BY <2>1
<1>14. Counts'
  <2>1. turn' # "scan"
    BY <1>2 DEF Remove, Free, heap, roots, collector
  <2> QED BY <1>13, <2>1 DEF Counts
<1>15. Gone'
  BY <1>7 DEF Remove, Free, heap, roots, collector, Types, Inv, Gone, Values
<1>16. Closed'
  <2>1. Live' \subseteq Safe' /\ Live' = Live
    BY <1>2 DEF Remove, Free, heap, roots, collector, Safe, Live
  <2>2. Rooted' \subseteq Live'
    BY <1>3, <1>7 DEF Remove, Free, heap, roots, collector, Types, Rooted, Live, Values
  <2>3. \A e \in edges' : e[2] \in Live'
    BY <1>4, <2>1 DEF Remove, Free, heap, roots, collector, Live
  <2>4. \A d \in records' : d.value \in Live' \cup {None}
    BY <1>5, <2>1 DEF Remove, Free, heap, roots, collector, Live
  <2> QED BY <2>1, <2>2, <2>3, <2>4 DEF Closed
<1>17. Passes'
  <2>1. \A p \in zero' : mem'[p] = "live" /\ rc'[p] = 0
    BY <1>3, <1>4, <1>5, <1>7, <1>10 DEF Remove, Free, heap, roots, collector, Types, RcOK, One
  <2>2. turn' \in {"program", "clear"} /\ tmp' = {} /\ quitting' = FALSE /\ mem' = mem
    BY <1>2 DEF Remove, Free, heap, roots, collector
  <2> QED BY <1>2, <2>1, <2>2 DEF Inv, Passes
<1> HIDE NoneAssumption
<1>18. Finite'
  BY <1>8
<1> QED BY <1>10, <1>11, <1>12, <1>14, <1>15, <1>16, <1>17, <1>18, Assembled

LEMMA EndJobKeeps == ASSUME Inv, EndJob PROVE Inv'
<1> USE NoneAssumption
<1>1. Program
  BY DEF EndJob
<1>2. turn = "program" /\ zero = {} /\ quitting = FALSE /\ tmp = {}
  BY <1>1, Ready
<1>3. /\ \A p \in local \cup kept : p \in Objects /\ mem[p] = "live"
      /\ \A p \in Objects : jobs[p] > 0 => mem[p] = "live"
  BY <1>1, Ready
<1>4. \A e \in edges : mem[e[1]] = "live" /\ mem[e[2]] = "live" /\ e[1] \in Objects /\ e[2] \in Objects
  BY <1>1, Ready
<1>5. \A d \in records :
          /\ d.owner \in Objects /\ d.target \in Objects
          /\ mem[d.owner] = "live" /\ mem[d.target] = "live"
          /\ d.value # None => d.value \in Objects /\ mem[d.value] = "live"
  BY <1>1, Ready
<1>6. \A p \in Objects : /\ rc[p] = Held(p) + Refs(edges, records, p)
                         /\ Refs(edges, records, p) \in Nat /\ jobs[p] \in Nat
                         /\ Held(p) \in Nat
  BY <1>1, Ready
<1>7. Types /\ RcOK
  BY TypeParts DEF Inv
<1>8. edges' = edges /\ records' = records /\ Finite'
  BY DEF EndJob, ClearKept, heap, roots, collector, Inv, Finite
<1>9. \A p \in Objects : Refs(edges', records', p) = Refs(edges, records, p)
  BY <1>8
<1>10. rc' = [p \in Objects |-> rc[p] - One(p \in kept)]
  BY <1>7 DEF EndJob, ClearKept, heap, roots, collector
<1>11. Types'
  BY <1>7 DEF EndJob, ClearKept, heap, roots, collector, Types
<1>12. Shape' /\ WeakNeverDangles'
  BY <1>7 DEF EndJob, ClearKept, heap, roots, collector, Types, Inv, Shape, WeakNeverDangles, Live
<1>13. \A p \in Objects : rc'[p] = Held(p)' + Refs(edges', records', p) /\ rc'[p] \in Nat
  <2>1. ASSUME NEW p \in Objects
        PROVE  rc'[p] = Held(p)' + Refs(edges', records', p) /\ rc'[p] \in Nat
    <3>1. Held(p) = Held(p)' + One(p \in kept) /\ Held(p)' \in Nat
      BY <1>7 DEF EndJob, ClearKept, heap, roots, collector, Held, One, Types, Values
    <3> QED BY <1>6, <1>9, <1>10, <3>1 DEF One
  <2> QED BY <2>1
<1>14. Counts'
  <2>1. turn' # "scan"
    BY <1>2 DEF EndJob, ClearKept, heap, roots, collector
  <2> QED BY <1>13, <2>1 DEF Counts
<1>15. Gone'
  BY <1>7 DEF EndJob, ClearKept, heap, roots, collector, Types, Inv, Gone, Values
<1>16. Closed'
  <2>1. Live' \subseteq Safe' /\ Live' = Live
    BY <1>2 DEF EndJob, ClearKept, heap, roots, collector, Safe, Live
  <2>2. Rooted' \subseteq Live'
    BY <1>3, <1>7 DEF EndJob, ClearKept, heap, roots, collector, Types, Rooted, Live, Values
  <2>3. \A e \in edges' : e[2] \in Live'
    BY <1>4, <2>1 DEF EndJob, ClearKept, heap, roots, collector, Live
  <2>4. \A d \in records' : d.value \in Live' \cup {None}
    BY <1>5, <2>1 DEF EndJob, ClearKept, heap, roots, collector, Live
  <2> QED BY <2>1, <2>2, <2>3, <2>4 DEF Closed
<1>17. Passes'
  <2>1. \A p \in zero' : mem'[p] = "live" /\ rc'[p] = 0
    BY <1>3, <1>4, <1>5, <1>7, <1>10 DEF EndJob, ClearKept, heap, roots, collector, Types, RcOK, One
  <2>2. turn' \in {"program", "clear"} /\ tmp' = {} /\ quitting' = FALSE /\ mem' = mem
    BY <1>2 DEF EndJob, ClearKept, heap, roots, collector
  <2> QED BY <1>2, <2>1, <2>2 DEF Inv, Passes
<1> HIDE NoneAssumption
<1>18. Finite'
  BY <1>8
<1> QED BY <1>10, <1>11, <1>12, <1>14, <1>15, <1>16, <1>17, <1>18, Assembled

LEMMA RunGCKeeps == ASSUME Inv, RunGC PROVE Inv'
<1> USE NoneAssumption
<1>1. Program
  BY DEF RunGC
<1>2. turn = "program" /\ zero = {} /\ quitting = FALSE /\ tmp = {}
  BY <1>1, Ready
<1>3. /\ \A p \in local \cup kept : p \in Objects /\ mem[p] = "live"
      /\ \A p \in Objects : jobs[p] > 0 => mem[p] = "live"
  BY <1>1, Ready
<1>4. \A e \in edges : mem[e[1]] = "live" /\ mem[e[2]] = "live" /\ e[1] \in Objects /\ e[2] \in Objects
  BY <1>1, Ready
<1>5. \A d \in records :
          /\ d.owner \in Objects /\ d.target \in Objects
          /\ mem[d.owner] = "live" /\ mem[d.target] = "live"
          /\ d.value # None => d.value \in Objects /\ mem[d.value] = "live"
  BY <1>1, Ready
<1>6. \A p \in Objects : /\ rc[p] = Held(p) + Refs(edges, records, p)
                         /\ Refs(edges, records, p) \in Nat /\ jobs[p] \in Nat
                         /\ Held(p) \in Nat
  BY <1>1, Ready
<1>7. Types /\ RcOK
  BY TypeParts DEF Inv
<1>8. edges' = edges /\ records' = records /\ Finite'
  BY DEF RunGC, ClearKept, heap, roots, collector, Inv, Finite
<1>9. \A p \in Objects : Refs(edges', records', p) = Refs(edges, records, p)
  BY <1>8
<1>10. rc' = [p \in Objects |-> rc[p] - One(p \in kept)]
  BY <1>7 DEF RunGC, ClearKept, heap, roots, collector
<1>11. Types'
  BY <1>7 DEF RunGC, ClearKept, heap, roots, collector, Types
<1>12. Shape' /\ WeakNeverDangles'
  BY <1>7 DEF RunGC, ClearKept, heap, roots, collector, Types, Inv, Shape, WeakNeverDangles, Live
<1>13. \A p \in Objects : rc'[p] = Held(p)' + Refs(edges', records', p) /\ rc'[p] \in Nat
  <2>1. ASSUME NEW p \in Objects
        PROVE  rc'[p] = Held(p)' + Refs(edges', records', p) /\ rc'[p] \in Nat
    <3>1. Held(p) = Held(p)' + One(p \in kept) /\ Held(p)' \in Nat
      BY <1>7 DEF RunGC, ClearKept, heap, roots, collector, Held, One, Types, Values
    <3> QED BY <1>6, <1>9, <1>10, <3>1 DEF One
  <2> QED BY <2>1
<1>14. Counts'
  <2>1. turn' # "scan"
    BY <1>2 DEF RunGC, ClearKept, heap, roots, collector
  <2> QED BY <1>13, <2>1 DEF Counts
<1>15. Gone'
  BY <1>7 DEF RunGC, ClearKept, heap, roots, collector, Types, Inv, Gone, Values
<1>16. Closed'
  <2>1. Live' \subseteq Safe' /\ Live' = Live
    BY <1>2 DEF RunGC, ClearKept, heap, roots, collector, Safe, Live
  <2>2. Rooted' \subseteq Live'
    BY <1>3, <1>7 DEF RunGC, ClearKept, heap, roots, collector, Types, Rooted, Live, Values
  <2>3. \A e \in edges' : e[2] \in Live'
    BY <1>4, <2>1 DEF RunGC, ClearKept, heap, roots, collector, Live
  <2>4. \A d \in records' : d.value \in Live' \cup {None}
    BY <1>5, <2>1 DEF RunGC, ClearKept, heap, roots, collector, Live
  <2> QED BY <2>1, <2>2, <2>3, <2>4 DEF Closed
<1>17. Passes'
  <2>1. \A p \in zero' : mem'[p] = "live" /\ rc'[p] = 0
    BY <1>3, <1>4, <1>5, <1>7, <1>10 DEF RunGC, ClearKept, heap, roots, collector, Types, RcOK, One
  <2>2. turn' \in {"program", "clear"} /\ tmp' = {} /\ quitting' = FALSE /\ mem' = mem
    BY <1>2 DEF RunGC, ClearKept, heap, roots, collector
  <2> QED BY <1>2, <2>1, <2>2 DEF Inv, Passes
<1> HIDE NoneAssumption
<1>18. Finite'
  BY <1>8
<1> QED BY <1>10, <1>11, <1>12, <1>14, <1>15, <1>16, <1>17, <1>18, Assembled

-----------------------------------------------------------------------------
(* Freeing objects.                                                        *)

\* Nothing counts for memory that was freed.
LEMMA FreedHasNoCount ==
    ASSUME Inv, turn # "scan", NEW o \in Objects, mem[o] = "free"
    PROVE  rc[o] = 0
<1>1. /\ o \notin local \cup kept /\ jobs[o] = 0
      /\ (\A e \in edges : e[2] # o) /\ (\A r \in records : r.value # o)
  BY DEF Inv, Gone
<1>2. Refs(edges, records, o) = 0
  BY <1>1, NoRefs DEF Inv, Finite
<1> QED BY <1>1, <1>2 DEF Inv, Counts, Held, One

\* And what nothing counts for has no references.
LEMMA NoCountNoReference ==
    ASSUME Types', Finite', NEW o \in Objects,
           Held(o)' + Refs(edges', records', o) = 0
    PROVE  /\ o \notin local' \cup kept' /\ jobs'[o] = 0
           /\ (\A e \in edges' : e[2] # o) /\ (\A r \in records' : r.value # o)
<1>1. Refs(edges', records', o) \in Nat
  BY RefsNat DEF Finite
<1>2. Held(o)' \in Nat /\ (Held(o)' = 0 => o \notin local' \cup kept' /\ jobs'[o] = 0)
  BY DEF Types, Held, One, Values
<1>3. Held(o)' = 0 /\ Refs(edges', records', o) = 0
  BY <1>1, <1>2
<1> QED BY <1>2, <1>3, NoRefs DEF Finite

\* free_object takes along what the object owns and the weak records on it; what
\* these referred to is counted down, but for the values of callbacks.
LEMMA ObjectFreed ==
    ASSUME Inv, turn # "scan", NEW o \in Objects, mem[o] = "live", FreeObject(o),
           local' = local, kept' = kept
    PROVE  /\ jobs' \in [Values -> Nat]
           /\ Finite'
           /\ edges' \subseteq edges /\ \A e \in edges' : e[1] # o
           /\ records' \subseteq records /\ \A r \in records' : r.owner # o /\ r.target # o
           /\ \A p \in Objects :
                /\ rc'[p] = Held(p)' + Refs(edges', records', p)
                /\ rc'[p] \in Nat /\ rc'[p] <= rc[p]
           /\ \A v \in Values : jobs'[v] > 0 =>
                  jobs[v] > 0 \/ v = None \/ (mem[v] = "live" /\ v \notin tmp)
           /\ quitting => \A v \in Values : jobs'[v] = jobs[v]
           /\ rc' = [p \in Objects |-> rc[p] - Refs(Owned(o), Dying(o) \ CalledBack(o), p)]
<1> DEFINE calls(v) == {r \in CalledBack(o) : r.value = v}
<1>1. Types
  BY TypeParts DEF Inv
<1>2. IsFiniteSet(edges) /\ IsFiniteSet(records)
  BY DEF Inv, Finite
<1>3. Owned(o) \in SUBSET edges /\ Dying(o) \in SUBSET records /\ CalledBack(o) \in SUBSET Dying(o)
  BY DEF Owned, Dying, CalledBack
<1>4. edges' = edges \ Owned(o) /\ records' = records \ Dying(o)
  BY DEF FreeObject
<1>5. IsFiniteSet(edges') /\ IsFiniteSet(records') /\ IsFiniteSet(Owned(o)) /\ IsFiniteSet(Dying(o))
      /\ IsFiniteSet(CalledBack(o))
  BY <1>2, <1>3, <1>4, FS_Subset
<1>6. \A v \in Values : calls(v) \in SUBSET CalledBack(o) /\ IsFiniteSet(calls(v))
  BY <1>5, FS_Subset
<1>7. \A v \in Values : Cardinality(calls(v)) \in Nat
  BY <1>6, FS_CardinalityType
<1>8. \A v \in Values : Cardinality(calls(v)) # 0 => calls(v) # {}
  BY FS_EmptySet
<1>9. /\ rc' = [p \in Objects |-> rc[p] - Refs(Owned(o), Dying(o) \ CalledBack(o), p)]
      /\ jobs' = [v \in Values |-> jobs[v] + Cardinality(calls(v))]
  BY DEF FreeObject
<1>10. \A p \in Objects : Cardinality(calls(p)) = Refs({}, CalledBack(o), p)
  <2>1. ASSUME NEW p \in Objects PROVE Cardinality(calls(p)) = Refs({}, CalledBack(o), p)
    <3>1. {e \in {} : e[2] = p} = {}
      OBVIOUS
    <3>2. Refs({}, CalledBack(o), p) = Cardinality({e \in {} : e[2] = p}) + Cardinality(calls(p))
      BY DEF Refs
    <3>3. Cardinality(calls(p)) \in Nat
      BY <1>7 DEF Values
    <3> HIDE DEF calls
    <3>4. Refs({}, CalledBack(o), p) = 0 + Cardinality(calls(p))
      BY <3>1, <3>2, FS_EmptySet
    <3> QED BY <3>3, <3>4
  <2> QED BY <2>1
<1> HIDE DEF calls
<1>11. jobs' \in [Values -> Nat]
  BY <1>1, <1>7, <1>9 DEF Types
<1>12. edges' \subseteq edges /\ (\A e \in edges' : e[1] # o)
  BY <1>4 DEF Owned
<1>13. records' \subseteq records /\ (\A r \in records' : r.owner # o /\ r.target # o)
  BY <1>4 DEF Dying
<1>14. ASSUME NEW p \in Objects
       PROVE  /\ rc'[p] = Held(p)' + Refs(edges', records', p)
              /\ rc'[p] \in Nat /\ rc'[p] <= rc[p]
  <2>1. /\ Refs(edges, records, p) = Refs(edges', records', p) + Refs(Owned(o), Dying(o), p)
        /\ Refs(edges', records', p) \in Nat /\ Refs(Owned(o), Dying(o), p) \in Nat
    BY <1>2, <1>3, <1>4, RefsSplit
  <2>2. /\ Refs(Owned(o), Dying(o), p) =
               Refs(Owned(o) \ {}, Dying(o) \ CalledBack(o), p) + Refs({}, CalledBack(o), p)
        /\ Refs(Owned(o) \ {}, Dying(o) \ CalledBack(o), p) \in Nat
    <3> DEFINE none == {}
    <3>1. none \in SUBSET Owned(o)
      OBVIOUS
    <3> HIDE DEF none
    <3>2. /\ Refs(Owned(o), Dying(o), p) =
                 Refs(Owned(o) \ none, Dying(o) \ CalledBack(o), p) + Refs(none, CalledBack(o), p)
          /\ Refs(Owned(o) \ none, Dying(o) \ CalledBack(o), p) \in Nat
      BY <1>3, <1>5, <3>1, RefsSplit
    <3> QED BY <3>2 DEF none
  <2>3. Owned(o) \ {} = Owned(o)
    OBVIOUS
  <2>4. rc[p] = Held(p) + Refs(edges, records, p) /\ Held(p) \in Nat
    BY <1>1 DEF Inv, Counts, Held, One, Types, Values
  <2>5. Held(p)' = Held(p) + Refs({}, CalledBack(o), p) /\ Refs({}, CalledBack(o), p) \in Nat
    <3>1. jobs'[p] = jobs[p] + Cardinality(calls(p)) /\ jobs[p] \in Nat /\ Cardinality(calls(p)) \in Nat
      BY <1>1, <1>7, <1>9 DEF Types, Values
    <3> QED BY <1>10, <3>1 DEF Held, One
  <2>6. rc'[p] = rc[p] - Refs(Owned(o), Dying(o) \ CalledBack(o), p)
    BY <1>9
  <2> QED BY <2>1, <2>2, <2>3, <2>4, <2>5, <2>6
<1>15. ASSUME NEW v \in Values, jobs'[v] > 0, ~(jobs[v] > 0)
       PROVE  v = None \/ (mem[v] = "live" /\ v \notin tmp)
  <2>1. Cardinality(calls(v)) # 0
    BY <1>1, <1>7, <1>9, <1>15 DEF Types
  <2>2. PICK r \in CalledBack(o) : r.value = v
    BY <1>8, <2>1 DEF calls
  <2> QED BY <2>2 DEF CalledBack, Enqueued
<1>16. ASSUME quitting, NEW v \in Values PROVE jobs'[v] = jobs[v]
  <2>1. calls(v) = {}
    BY <1>16 DEF calls, CalledBack, Enqueued
  <2>2. Cardinality(calls(v)) = 0
    BY <2>1, FS_EmptySet
  <2> QED BY <1>1, <1>9, <2>2 DEF Types
<1>17. Finite'
  BY <1>5 DEF Finite
<1> QED BY <1>9, <1>11, <1>12, <1>13, <1>14, <1>15, <1>16, <1>17

LEMMA FreeZeroKeeps == ASSUME Inv, NEW o \in Objects, FreeZero(o) PROVE Inv'
<1>1. /\ o \in zero /\ mem[o] = "live" /\ rc[o] = 0 /\ turn \in {"program", "clear"} /\ tmp = {}
      /\ Safe = Live
  BY DEF FreeZero, Inv, Passes, Safe
<1>2. /\ FreeObject(o) /\ mem' = [mem EXCEPT ![o] = "free"]
      /\ zero' = (zero \ {o}) \cup {p \in Objects : rc[p] # 0 /\ rc'[p] = 0}
      /\ local' = local /\ kept' = kept /\ turn' = turn /\ tmp' = tmp /\ quitting' = quitting
  BY DEF FreeZero
<1>3. Types /\ RcOK
  BY TypeParts DEF Inv
<1>4. turn # "scan"
  BY <1>1
<1>5. jobs' \in [Values -> Nat] /\ Finite'
  BY <1>1, <1>2, <1>4, ObjectFreed
<1>6. edges' \subseteq edges /\ (\A e \in edges' : e[1] # o)
  BY <1>1, <1>2, <1>4, ObjectFreed
<1>7. records' \subseteq records /\ (\A r \in records' : r.owner # o /\ r.target # o)
  BY <1>1, <1>2, <1>4, ObjectFreed
<1>8. \A p \in Objects : /\ rc'[p] = Held(p)' + Refs(edges', records', p)
                         /\ rc'[p] \in Nat /\ rc'[p] <= rc[p]
  BY <1>1, <1>2, <1>4, ObjectFreed
<1>9. \A v \in Values : jobs'[v] > 0 => jobs[v] > 0 \/ v = None \/ mem[v] = "live"
  BY <1>1, <1>2, <1>4, ObjectFreed
<1>10. quitting => \A v \in Values : jobs'[v] = jobs[v]
  BY <1>1, <1>2, <1>4, ObjectFreed
<1>11. rc' = [p \in Objects |-> rc[p] - Refs(Owned(o), Dying(o) \ CalledBack(o), p)]
  BY <1>1, <1>2, <1>4, ObjectFreed
<1>12. Types'
  BY <1>2, <1>3, <1>5, <1>6, <1>7 DEF Types
<1>13. Shape' /\ WeakNeverDangles'
  BY <1>2, <1>3, <1>6, <1>7 DEF Types, Inv, Shape, WeakNeverDangles, Live
<1>14. Counts'
  BY <1>2, <1>4, <1>8 DEF Counts
<1>15. \A p \in Objects : mem'[p] = "free" => rc'[p] = 0
  <2>1. \A p \in Objects : mem'[p] = "free" => rc[p] = 0
    BY <1>1, <1>2, <1>3, <1>4, FreedHasNoCount DEF Types
  <2> QED BY <1>8, <2>1
<1>16. \A p \in Objects : rc'[p] = 0 =>
           /\ p \notin local' \cup kept' /\ jobs'[p] = 0
           /\ (\A e \in edges' : e[2] # p) /\ (\A r \in records' : r.value # p)
  BY <1>5, <1>8, <1>12, NoCountNoReference
<1>17. Gone'
  BY <1>15, <1>16 DEF Gone
<1>18. Closed'
  <2>1. Live' = Live \ {o} /\ Safe' = Live \ {o}
    BY <1>1, <1>2, <1>3 DEF Safe, Live, Types
  <2>2. rc'[o] = 0
    BY <1>2, <1>3, <1>15 DEF Types
  <2>3. Rooted' \subseteq Live'
    <3>1. \A p \in Rooted' : p \in Objects /\ p # o
      BY <1>12, <1>16, <2>2 DEF Rooted, Types
    <3>2. \A p \in Rooted' : p \in Live
      BY <1>1, <1>2, <1>3, <1>9, NoneAssumption DEF Rooted, Live, Inv, Closed, Types, Values
    <3> QED BY <2>1, <3>1, <3>2
  <2>4. \A e \in edges' : e[2] \in Live'
    BY <1>1, <1>6, <1>16, <2>1, <2>2 DEF Inv, Closed, Shape, Live, Types, TypeOK
  <2>5. \A r \in records' : (r.kind = "fin" \/ r.kind = "map") => r.value \in Live' \cup {None}
    BY <1>1, <1>7, <1>16, <2>1, <2>2 DEF Inv, Closed, WeakNeverDangles
  <2> QED BY <2>1, <2>3, <2>4, <2>5 DEF Closed
<1>19. Passes'
  <2>1. \A p \in zero' : mem'[p] = "live" /\ rc'[p] = 0
    <3>1. \A p \in zero \ {o} : mem'[p] = "live" /\ rc'[p] = 0
      BY <1>2, <1>3, <1>8 DEF Inv, Passes, Types
    <3>2. ASSUME NEW p \in Objects, rc[p] # 0, rc'[p] = 0 PROVE mem'[p] = "live"
      <4>1. mem[p] # "free"
        BY <1>4, <3>2, FreedHasNoCount
      <4>2. mem[p] # "zombie" /\ p # o
        BY <1>1, <3>2 DEF Inv, Passes
      <4> QED BY <1>2, <1>3, <4>1, <4>2 DEF Types
    <3> QED BY <1>2, <3>1, <3>2
  <2>2. \A p \in Objects : mem'[p] # "zombie"
    BY <1>1, <1>2, <1>3 DEF Inv, Passes, Types
  <2> QED BY <1>1, <1>2, <1>10, <2>1, <2>2 DEF Inv, Passes
<1> QED BY <1>5, <1>11, <1>12, <1>13, <1>14, <1>17, <1>18, <1>19, Assembled

LEMMA FreeCycleKeeps == ASSUME Inv, NEW o \in Objects, FreeCycle(o) PROVE Inv'
<1>1. /\ turn = "sweep" /\ o \in tmp /\ mem[o] = "live" /\ zero = {} /\ Safe = Live \ tmp
  BY DEF FreeCycle, Inv, Passes, Safe, Live
<1>2. /\ FreeObject(o) /\ mem' = [mem EXCEPT ![o] = IF rc'[o] # 0 THEN "zombie" ELSE "free"]
      /\ tmp' = tmp \ {o}
      /\ local' = local /\ kept' = kept /\ turn' = turn /\ zero' = zero /\ quitting' = quitting
  BY DEF FreeCycle, Remains
<1>3. Types /\ RcOK
  BY TypeParts DEF Inv
<1>4. turn # "scan"
  BY <1>1
<1>5. jobs' \in [Values -> Nat] /\ Finite'
  BY <1>1, <1>2, <1>4, ObjectFreed
<1>6. edges' \subseteq edges /\ (\A e \in edges' : e[1] # o)
  BY <1>1, <1>2, <1>4, ObjectFreed
<1>7. records' \subseteq records /\ (\A r \in records' : r.owner # o /\ r.target # o)
  BY <1>1, <1>2, <1>4, ObjectFreed
<1>8. \A p \in Objects : /\ rc'[p] = Held(p)' + Refs(edges', records', p)
                         /\ rc'[p] \in Nat /\ rc'[p] <= rc[p]
  BY <1>1, <1>2, <1>4, ObjectFreed
<1>9. \A v \in Values : jobs'[v] > 0 =>
          jobs[v] > 0 \/ v = None \/ (mem[v] = "live" /\ v \notin tmp)
  BY <1>1, <1>2, <1>4, ObjectFreed
<1>10. quitting => \A v \in Values : jobs'[v] = jobs[v]
  BY <1>1, <1>2, <1>4, ObjectFreed
<1>11. rc' = [p \in Objects |-> rc[p] - Refs(Owned(o), Dying(o) \ CalledBack(o), p)]
  BY <1>1, <1>2, <1>4, ObjectFreed
<1>12. Types'
  BY <1>2, <1>3, <1>5, <1>6, <1>7 DEF Types
<1>13. Shape' /\ WeakNeverDangles'
  BY <1>2, <1>3, <1>6, <1>7 DEF Types, Inv, Shape, WeakNeverDangles, Live
<1>14. Counts'
  BY <1>2, <1>4, <1>8 DEF Counts
<1>15. \A p \in Objects : mem'[p] = "free" => rc'[p] = 0
  <2>1. \A p \in Objects : mem'[p] = "free" => p = o \/ rc[p] = 0
    BY <1>2, <1>3, <1>4, FreedHasNoCount DEF Types
  <2>2. mem'[o] = "free" => rc'[o] = 0
    BY <1>2, <1>3 DEF Types
  <2> QED BY <1>3, <1>8, <2>1, <2>2 DEF RcOK
<1>16. \A p \in Objects : rc'[p] = 0 =>
           /\ p \notin local' \cup kept' /\ jobs'[p] = 0
           /\ (\A e \in edges' : e[2] # p) /\ (\A r \in records' : r.value # p)
  BY <1>5, <1>8, <1>12, NoCountNoReference
<1>17. Gone'
  BY <1>15, <1>16 DEF Gone
<1>18. Closed'
  <2>1. Live' = Live \ {o} /\ Safe' = Safe
    BY <1>1, <1>2, <1>3 DEF Safe, Live, Types
  <2>2. \A p \in Rooted' : p \in Safe
    BY <1>1, <1>2, <1>3, <1>9, NoneAssumption DEF Rooted, Live, Inv, Closed, Types, Values
  <2>3. \A e \in edges' : e[1] \in Safe => e[2] \in Safe
    BY <1>6 DEF Inv, Closed
  <2>4. \A r \in records' : (r.kind = "fin" /\ r.owner \in Safe) \/ (r.kind = "map" /\ r.target \in Safe)
                            => r.value \in Safe \cup {None}
    BY <1>7 DEF Inv, Closed
  <2> QED BY <2>1, <2>2, <2>3, <2>4 DEF Closed
<1>19. Passes'
  <2>1. tmp' \subseteq Live'
    BY <1>2, <1>3 DEF Inv, Passes, Live, Types
  <2> QED BY <1>1, <1>2, <1>10, <2>1 DEF Inv, Passes
<1> QED BY <1>5, <1>11, <1>12, <1>13, <1>14, <1>17, <1>18, <1>19, Assembled

-----------------------------------------------------------------------------
(* The end of the runtime and the passes of the collector.                 *)

LEMMA FreeRuntimeKeeps == ASSUME Inv, FreeRuntime PROVE Inv'
<1>1. Program
  BY DEF FreeRuntime
<1>2. turn = "program" /\ zero = {} /\ quitting = FALSE /\ tmp = {} /\ Safe = Live
  BY <1>1, Ready
<1>3. /\ turn' = "clear" /\ quitting' = TRUE /\ local' = {} /\ kept' = {}
      /\ jobs' = [v \in Values |-> 0]
      /\ rc' = [o \in Objects |-> rc[o] - One(o \in local) - One(o \in kept) - jobs[o]]
      /\ zero' = {o \in Objects : rc[o] # 0 /\ rc'[o] = 0}
      /\ mem' = mem /\ edges' = edges /\ records' = records /\ tmp' = tmp
  BY DEF FreeRuntime
<1>4. Types /\ RcOK
  BY TypeParts DEF Inv
<1>5. Types'
  BY <1>3, <1>4 DEF Types
<1>6. Finite' /\ Shape' /\ WeakNeverDangles'
  BY <1>3 DEF Inv, Finite, Shape, WeakNeverDangles, Live
<1>7. Counts'
  <2>1. ASSUME NEW o \in Objects PROVE rc'[o] = Held(o)' + Refs(edges', records', o)
    <3>1. rc[o] = Held(o) + Refs(edges, records, o) /\ Refs(edges, records, o) \in Nat /\ jobs[o] \in Nat
      BY <1>1, Ready
    <3>2. Held(o)' = 0
      BY <1>3 DEF Held, One, Values
    <3> QED BY <1>3, <3>1, <3>2 DEF Held, One
  <2> QED BY <1>3, <2>1 DEF Counts
<1>8. Gone'
  BY <1>3 DEF Inv, Gone, Values
<1>9. Closed'
  <2>1. Safe' = Safe /\ Rooted' = {}
    BY <1>2, <1>3 DEF Safe, Rooted, Live, Values
  <2> QED BY <1>3, <2>1 DEF Inv, Closed
<1>10. Passes'
  <2>1. ASSUME NEW o \in zero' PROVE mem'[o] = "live" /\ rc'[o] = 0
    <3>1. mem[o] # "free"
      BY <1>2, <1>3, FreedHasNoCount
    <3> QED BY <1>2, <1>3, <1>4, <3>1 DEF Inv, Passes, Types
  <2> QED BY <1>2, <1>3, <2>1 DEF Inv, Passes, Live
<1> QED BY <1>3, <1>5, <1>6, <1>7, <1>8, <1>9, <1>10, Assembled

\* Every record with a value hangs on a live object as a child.
LEMMA AllMarked ==
    ASSUME Inv, NEW o \in Objects
    PROVE  Refs(edges, UNION {MarkedBy(p) : p \in Live}, o) = Refs(edges, records, o)
<1> DEFINE marked == UNION {MarkedBy(p) : p \in Live}
<1>1. marked \subseteq records
  BY DEF MarkedBy
<1>2. ASSUME NEW r \in records, r.value = o PROVE r \in marked
  <2>1. r.kind \in Kinds /\ r.owner \in Live /\ r.target \in Live
    BY DEF Inv, TypeOK, WeakNeverDangles
  <2>2. r.kind # "ref"
    BY <1>2, NoneAssumption DEF Inv, Shape
  <2>3. r \in MarkedBy(r.target) \/ r \in MarkedBy(r.owner)
    BY <2>1, <2>2 DEF MarkedBy, Kinds
  <2> QED BY <2>1, <2>3
<1> HIDE DEF marked
<1>3. {r \in marked : r.value = o} = {r \in records : r.value = o}
  BY <1>1, <1>2
<1>4. Refs(edges, marked, o) = Refs(edges, records, o)
  BY <1>3 DEF Refs
<1> QED BY <1>4 DEF marked

LEMMA GcDecrefKeeps == ASSUME Inv, GcDecref PROVE Inv'
<1>1. /\ turn = "clear" /\ zero = {} /\ turn' = "scan" /\ rc' = [o \in Objects |-> External(o)]
      /\ tmp' = {o \in Live : External(o) = 0}
      /\ mem' = mem /\ edges' = edges /\ records' = records
      /\ local' = local /\ kept' = kept /\ jobs' = jobs /\ zero' = zero /\ quitting' = quitting
  BY DEF GcDecref, roots
<1>2. Types
  BY TypeParts DEF Inv
<1>3. \A o \in Objects : External(o) = Held(o)
  <2>1. ASSUME NEW o \in Objects PROVE External(o) = Held(o)
    <3>1. rc[o] = Held(o) + Refs(edges, records, o)
      BY <1>1 DEF Inv, Counts
    <3>2. Refs(edges, records, o) \in Nat /\ Held(o) \in Nat
      BY <1>2, RefsNat DEF Inv, Finite, Types, Values, Held, One
    <3> QED BY <3>1, <3>2, AllMarked DEF External
  <2> QED BY <2>1
<1>4. Types'
  BY <1>1, <1>2 DEF Types, Live
<1>5. Finite' /\ Shape' /\ WeakNeverDangles'
  BY <1>1 DEF Inv, Finite, Shape, WeakNeverDangles, Live
<1>6. Counts'
  <2>1. ASSUME NEW o \in Objects PROVE rc'[o] = Held(o)' + 0
    BY <1>1, <1>2, <1>3 DEF Held, One, Types, Values
  <2> QED BY <1>1, <2>1 DEF Counts
<1>7. Gone'
  BY <1>1 DEF Inv, Gone
<1>8. Closed'
  <2>1. Safe = Live /\ Safe' = Live /\ Rooted' = Rooted
    BY <1>1 DEF Inv, Passes, Safe, Live, Rooted
  <2> QED BY <1>1, <2>1 DEF Inv, Closed
<1>9. Passes'
  <2>1. tmp' = {o \in Live' : rc'[o] = 0}
    BY <1>1 DEF Live
  <2> QED BY <1>1, <2>1 DEF Inv, Passes, Live
<1> QED BY <1>1, <1>4, <1>5, <1>6, <1>7, <1>8, <1>9, Assembled

\* What gc_scan finds is closed, and part of any closed set that holds the rest.
LEMMA RescuedClosed ==
    ASSUME Inv, turn = "scan"
    PROVE  /\ Rescued \subseteq Live /\ Live \ tmp \subseteq Rescued
           /\ \A p \in Rescued : Children(p) \subseteq Rescued
<1>1. Rescued \subseteq Live /\ Live \ tmp \subseteq Rescued
  BY DEF Rescued
<1>2. \A p \in Live : Children(p) \subseteq Live
  <2>1. ASSUME NEW p \in Live, NEW c \in Children(p) PROVE c \in Live
    <3>1. CASE \E e \in edges : e[1] = p /\ e[2] = c
      BY <3>1 DEF Inv, Closed, Safe, Live
    <3>2. CASE \E r \in MarkedBy(p) : r.value = c /\ c # None
      BY <3>2 DEF MarkedBy, Inv, Closed, Safe
    <3> QED BY <2>1, <3>1, <3>2 DEF Children, Owned
  <2> QED BY <2>1
<1>3. ASSUME NEW p \in Rescued, NEW c \in Children(p) PROVE c \in Rescued
  <2>1. c \in Live
    BY <1>1, <1>2
  <2>2. ASSUME NEW S \in SUBSET Live, Live \ tmp \subseteq S, \A q \in S : Children(q) \subseteq S
        PROVE  c \in S
    BY <2>2 DEF Rescued
  <2> QED BY <2>1, <2>2 DEF Rescued
<1> QED BY <1>1, <1>3

LEMMA GcScanKeeps == ASSUME Inv, GcScan PROVE Inv'
<1>1. /\ turn = "scan" /\ turn' = "sweep" /\ tmp' = Live \ Rescued
      /\ rc' = [o \in Objects |-> rc[o] + Refs(edges, Restored, o)]
      /\ mem' = mem /\ edges' = edges /\ records' = records
      /\ local' = local /\ kept' = kept /\ jobs' = jobs /\ zero' = zero /\ quitting' = quitting
  BY DEF GcScan, roots
<1>2. Types
  BY TypeParts DEF Inv
<1>3. Types'
  BY <1>1, <1>2 DEF Types, Live
<1>4. Finite' /\ Shape' /\ WeakNeverDangles'
  BY <1>1 DEF Inv, Finite, Shape, WeakNeverDangles, Live
<1>5. Counts'
  <2>1. ASSUME NEW o \in Objects PROVE rc'[o] = Held(o)' + Refs(edges', records', o)
    <3>1. rc[o] = Held(o) + 0 /\ Held(o) \in Nat
      BY <1>1, <1>2 DEF Inv, Counts, Held, One, Types, Values
    <3>2. Held(o)' = Held(o)
      BY <1>1 DEF Held
    <3>3. Refs(edges, Restored, o) = Refs(edges, records, o)
      BY AllMarked DEF Restored
    <3> QED BY <1>1, <3>1, <3>2, <3>3
  <2> QED BY <1>1, <2>1 DEF Counts
<1>6. Gone'
  BY <1>1 DEF Inv, Gone
<1>7. Closed'
  <2>1. /\ Rescued \subseteq Live /\ Live \ tmp \subseteq Rescued
        /\ \A p \in Rescued : Children(p) \subseteq Rescued
    BY <1>1, RescuedClosed
  <2>2. Safe' = Rescued /\ Rooted' = Rooted
    BY <1>1, <2>1 DEF Safe, Live, Rooted
  <2>3. Rooted \subseteq Rescued
    <3>1. ASSUME NEW o \in Rooted PROVE o \in Live /\ rc[o] # 0
      <4>1. o \in Live /\ o \in Objects
        BY <1>1, <1>2, <3>1 DEF Inv, Closed, Safe, Live
      <4>2. rc[o] = Held(o) + 0
        BY <1>1, <4>1 DEF Inv, Counts
      <4> QED BY <1>2, <3>1, <4>1, <4>2 DEF Rooted, Held, One, Types, Values
    <3> QED BY <1>1, <2>1, <3>1 DEF Inv, Passes
  <2>4. \A e \in edges : e[1] \in Rescued => e[2] \in Rescued
    BY <2>1 DEF Children, Owned
  <2>5. \A r \in records : (r.kind = "fin" /\ r.owner \in Rescued) \/ (r.kind = "map" /\ r.target \in Rescued)
                           => r.value \in Rescued \cup {None}
    <3>1. ASSUME NEW r \in records, NEW p \in Rescued, r \in MarkedBy(p) PROVE r.value \in Rescued \cup {None}
      BY <2>1, <3>1 DEF Children
    <3> QED BY <3>1 DEF MarkedBy
  <2> QED BY <1>1, <2>2, <2>3, <2>4, <2>5 DEF Closed
<1>8. Passes'
  BY <1>1 DEF Inv, Passes, Live
<1> QED BY <1>1, <1>3, <1>4, <1>5, <1>6, <1>7, <1>8, Assembled

LEMMA EndGCKeeps == ASSUME Inv, EndGC PROVE Inv'
<1>1. /\ turn = "sweep" /\ tmp = {} /\ turn' = "program" /\ tmp' = tmp /\ zero' = zero /\ quitting' = quitting
      /\ mem' = [o \in Objects |-> IF mem[o] = "zombie" THEN "free" ELSE mem[o]]
      /\ rc' = rc /\ edges' = edges /\ records' = records
      /\ local' = local /\ kept' = kept /\ jobs' = jobs
  BY DEF EndGC, roots
<1>2. Types /\ RcOK
  BY TypeParts DEF Inv
<1>3. Types'
  BY <1>1, <1>2 DEF Types
<1>4. Live' = Live /\ Safe = Live /\ Safe' = Live
  BY <1>1, <1>2 DEF Safe, Live, Types
<1>5. Finite' /\ Shape' /\ WeakNeverDangles'
  BY <1>1, <1>2, <1>4 DEF Inv, Finite, Shape, WeakNeverDangles, Types
<1>6. Counts'
  BY <1>1 DEF Inv, Counts, Held
<1>7. \A e \in edges : mem[e[2]] = "live"
  BY <1>4 DEF Inv, Closed, Shape, Live, TypeOK
<1>8. \A r \in records : r.value # None => mem[r.value] = "live"
  BY <1>4 DEF Inv, Closed, Shape, WeakNeverDangles, Live, TypeOK, Kinds
<1>9. \A o \in Rooted : mem[o] = "live"
  BY <1>4 DEF Inv, Closed, Live
<1>10. Gone'
  <2>1. ASSUME NEW o \in Objects, mem[o] # "live"
        PROVE  /\ o \notin local \cup kept /\ jobs[o] = 0
               /\ (\A e \in edges : e[2] # o) /\ (\A r \in records : r.value # o)
    BY <1>2, <1>7, <1>8, <1>9, <2>1, NoneAssumption DEF Rooted, Types, Values
  <2>2. \A o \in Objects : mem'[o] = "free" => mem[o] # "live"
    BY <1>1
  <2> QED BY <1>1, <2>1, <2>2 DEF Gone
<1>11. Closed'
  <2>1. Rooted' = Rooted
    BY <1>1 DEF Rooted
  <2> QED BY <1>1, <1>4, <2>1 DEF Inv, Closed
<1>12. Passes'
  BY <1>1, <1>2, <1>4 DEF Inv, Passes, Types
<1>13. rc' = [o \in Objects |-> rc[o]]
  BY <1>1, <1>2 DEF RcOK
<1> QED BY <1>3, <1>5, <1>6, <1>10, <1>11, <1>12, <1>13, Assembled

-----------------------------------------------------------------------------
(* The theorems.                                                           *)

LEMMA NextKeeps == Inv /\ [Next]_vars => Inv'
<1> SUFFICES ASSUME Inv, [Next]_vars PROVE Inv'
  OBVIOUS
<1>1. CASE Mutate
  <2>1. ASSUME NEW o \in Objects, New(o) \/ Forget(o) PROVE Inv'
    BY <2>1, NewKeeps, ForgetKeeps
  <2>2. ASSUME NEW o \in Objects, NEW v \in Objects,
               SetProperty(o, v) \/ GetProperty(o, v) \/ DeleteProperty(o, v)
        PROVE  Inv'
    BY <2>2, SetPropertyKeeps, GetPropertyKeeps, DeletePropertyKeeps
  <2>3. ASSUME NEW m \in Objects, NEW k \in Objects, NEW v \in Objects, SetEntry(m, k, v) PROVE Inv'
    BY <2>3, SetEntryKeeps
  <2>4. ASSUME NEW w \in Objects, NEW t \in Objects, NewWeakRef(w, t) PROVE Inv'
    BY <2>4, NewWeakRefKeeps
  <2>5. ASSUME NEW f \in Objects, NEW t \in Objects, NEW v \in Values, Register(f, t, v) PROVE Inv'
    BY <2>5, RegisterKeeps
  <2>6. ASSUME NEW r \in records, Lookup(r) \/ Remove(r) PROVE Inv'
    BY <2>6, LookupKeeps, RemoveKeeps
  <2>7. ASSUME NEW v \in Values, Call(v) PROVE Inv'
    BY <2>7, CallKeeps
  <2> QED BY <1>1, <2>1, <2>2, <2>3, <2>4, <2>5, <2>6, <2>7, EndJobKeeps DEF Mutate
<1>2. CASE RunGC \/ FreeRuntime
  BY <1>2, RunGCKeeps, FreeRuntimeKeeps
<1>3. CASE Collect
  BY <1>3, GcDecrefKeeps, GcScanKeeps, FreeZeroKeeps, FreeCycleKeeps, EndGCKeeps DEF Collect
<1>4. CASE UNCHANGED vars
  <2>1. TypeOK' /\ Finite' /\ Shape' /\ WeakNeverDangles'
    BY <1>4 DEF vars, heap, roots, collector, Inv, TypeOK, Finite, Shape, WeakNeverDangles, Live
  <2>2. Counts' /\ Gone'
    BY <1>4 DEF vars, heap, roots, collector, Inv, Counts, Gone, Held
  <2>3. Closed' /\ Passes'
    BY <1>4 DEF vars, heap, roots, collector, Inv, Closed, Passes, Safe, Live, Rooted
  <2> QED BY <2>1, <2>2, <2>3 DEF Inv
<1> QED BY <1>1, <1>2, <1>3, <1>4 DEF Next

LEMMA Invariance == Spec => []Inv
<1> QED BY Initially, NextKeeps, PTL DEF Spec

\* What the program can reach is safe: safe objects lead to safe objects only.
LEMMA ReachableIsSafe == ASSUME Inv PROVE Reachable \subseteq Safe
<1>1. Safe \in SUBSET Objects
  BY DEF Safe, Live
<1>2. Rooted \subseteq Safe /\ (\A e \in edges : e[1] \in Safe => e[2] \in Safe)
  BY DEF Inv, Closed
<1>3. \A r \in records :
          (r.kind = "fin" /\ r.owner \in Safe) \/ (r.kind = "map" /\ {r.owner, r.target} \subseteq Safe)
          => r.value \in Safe \cup {None}
  BY DEF Inv, Closed
<1> QED BY <1>1, <1>2, <1>3 DEF Reachable

\* Every variable keeps its type, whatever the program does and the collector takes.
THEOREM TypeCorrect == Spec => []TypeOK
<1>1. Inv => TypeOK
  BY DEF Inv
<1> QED BY Invariance, <1>1, PTL

LEMMA CountIsExact ==
    ASSUME Inv, turn # "scan", NEW o \in Objects
    PROVE  /\ rc[o] = Refs(edges, records, o) + One(o \in local) + One(o \in kept) + jobs[o]
           /\ mem[o] = "free" => rc[o] = 0
<1>1. rc[o] = Held(o) + Refs(edges, records, o)
  BY DEF Inv, Counts
<1>2. Refs(edges, records, o) \in Nat /\ jobs[o] \in Nat
  BY RefsNat DEF Inv, Finite, TypeOK, Values
<1> QED BY <1>1, <1>2, FreedHasNoCount DEF Held, One

\* Between the passes of the collector every count is exact.
THEOREM CountsCorrect == Spec => []CountsExact
<1>1. Inv => CountsExact
  BY CountIsExact DEF CountsExact
<1> QED BY Invariance, <1>1, PTL

\* No object that the program can reach is freed, at any point of a collection.
THEOREM MemorySafe == Spec => []NothingFreedTooEarly
<1>1. Inv => NothingFreedTooEarly
  BY ReachableIsSafe DEF NothingFreedTooEarly, Safe
<1> QED BY Invariance, <1>1, PTL

\* No weak record outlives the object it hangs on or its owner.
THEOREM WeakCorrect == Spec => []WeakNeverDangles
<1>1. Inv => WeakNeverDangles
  BY DEF Inv
<1> QED BY Invariance, <1>1, PTL

LEMMA ScanCondemns ==
    ASSUME Inv, Next, turn = "scan"
    PROVE  tmp' = Live \ Retained
<1>1. GcScan
  <2>1. zero = {} /\ ~Program
    BY DEF Inv, Passes, Program
  <2>2. ~Mutate
    BY <2>1 DEF Mutate, New, Forget, SetProperty, GetProperty, DeleteProperty, SetEntry,
                NewWeakRef, Lookup, Register, Remove, Call, EndJob
  <2>3. ~RunGC /\ ~FreeRuntime
    BY <2>1 DEF RunGC, FreeRuntime
  <2> QED BY <2>1, <2>2, <2>3 DEF Next, Collect, GcDecref, FreeZero, FreeCycle, EndGC
<1>2. /\ Rescued \subseteq Live /\ Live \ tmp \subseteq Rescued
      /\ \A p \in Rescued : Children(p) \subseteq Rescued
  BY RescuedClosed
<1>3. Rooted = Live \ tmp
  <2>1. Rooted \subseteq Live
    BY DEF Inv, Closed, Safe
  <2>2. \A o \in Objects : (rc[o] = 0 <=> o \notin Rooted)
    BY DEF Inv, TypeOK, Counts, Rooted, Held, One, Values
  <2>3. tmp = {o \in Live : rc[o] = 0}
    BY DEF Inv, Passes
  <2> QED BY <2>1, <2>2, <2>3 DEF Live
<1>4. Retained \subseteq Rescued
  <2>1. \A r \in records : (r.kind = "fin" /\ r.owner \in Rescued) \/ (r.kind = "map" /\ r.target \in Rescued)
                           => r.value \in Rescued \cup {None}
    <3>1. ASSUME NEW r \in records, NEW p \in Rescued, r \in MarkedBy(p)
          PROVE  r.value \in Rescued \cup {None}
      BY <1>2, <3>1 DEF Children
    <3> QED BY <3>1 DEF MarkedBy
  <2>2. \A e \in edges : e[1] \in Rescued => e[2] \in Rescued
    BY <1>2 DEF Children, Owned
  <2>3. Rooted \subseteq Rescued /\ Rescued \in SUBSET Objects
    BY <1>2, <1>3 DEF Live
  <2> QED BY <2>1, <2>2, <2>3 DEF Retained
<1>5. Rescued \subseteq Retained
  <2>1. ASSUME NEW S \in SUBSET Objects, Rooted \subseteq S,
               \A e \in edges : e[1] \in S => e[2] \in S,
               \A r \in records :
                   (r.kind = "fin" /\ r.owner \in S) \/ (r.kind = "map" /\ r.target \in S)
                   => r.value \in S \cup {None}
        PROVE  Rescued \subseteq S
    <3>1. \A p \in S : Children(p) \subseteq S
      BY <2>1 DEF Children, Owned, MarkedBy
    <3>2. \A p \in Live : Children(p) \subseteq Live
      <4>1. ASSUME NEW p \in Live, NEW e \in edges, e[1] = p PROVE e[2] \in Live
        BY <4>1 DEF Inv, Closed, Safe
      <4>2. ASSUME NEW p \in Live, NEW r \in MarkedBy(p) PROVE r.value \in Live \cup {None}
        BY <4>2 DEF Inv, Closed, Safe, MarkedBy
      <4> QED BY <4>1, <4>2 DEF Children, Owned
    <3>3. S \cap Live \in SUBSET Live /\ Live \ tmp \subseteq S \cap Live
      BY <1>3, <2>1
    <3>4. \A p \in S \cap Live : Children(p) \subseteq S \cap Live
      BY <3>1, <3>2
    <3> QED BY <3>3, <3>4 DEF Rescued
  <2>2. Rescued \subseteq Objects
    BY DEF Rescued, Live
  <2> QED BY <2>1, <2>2 DEF Retained
<1> QED BY <1>1, <1>4, <1>5 DEF GcScan

\* The scan of the collector condemns all the garbage and nothing else.
THEOREM CondemnedCorrect == Spec => CondemnsGarbage
<1>1. Inv /\ [Next]_vars => [turn = "scan" => tmp' = Live \ Retained]_vars
  BY ScanCondemns
<1> QED BY Invariance, <1>1, PTL DEF Spec, CondemnsGarbage

\* Which steps take a weak record away.
LEMMA RecordsGo ==
    ASSUME Inv, [Next]_vars, NEW r \in records, r \notin records', mem'[r.target] # "live"
    PROVE  \E o \in Objects : /\ FreeZero(o) \/ FreeCycle(o)
                              /\ r \in Dying(o)
<1>1. mem[r.target] = "live" /\ r.target \in Objects
  BY DEF Inv, WeakNeverDangles, Live
<1>2. ~Mutate
  <2>1. ASSUME NEW o \in Objects, New(o) PROVE FALSE
    BY <2>1 DEF New
  <2>2. ASSUME NEW d \in records, Remove(d) PROVE FALSE
    BY <1>1, <2>2 DEF Remove
  <2>3. ASSUME NEW o \in Objects, NEW v \in Objects, SetProperty(o, v) \/ GetProperty(o, v) \/ DeleteProperty(o, v)
        PROVE  FALSE
    BY <2>3 DEF SetProperty, GetProperty, DeleteProperty
  <2>4. ASSUME NEW m \in Objects, NEW k \in Objects, NEW v \in Objects, SetEntry(m, k, v) PROVE FALSE
    BY <2>4 DEF SetEntry
  <2>5. ASSUME NEW w \in Objects, NEW t \in Objects, NewWeakRef(w, t) PROVE FALSE
    BY <2>5 DEF NewWeakRef
  <2>6. ASSUME NEW f \in Objects, NEW t \in Objects, NEW v \in Values, Register(f, t, v) PROVE FALSE
    BY <2>6 DEF Register
  <2>7. ASSUME NEW d \in records, Lookup(d) PROVE FALSE
    BY <2>7 DEF Lookup
  <2>8. ASSUME NEW o \in Objects, Forget(o) PROVE FALSE
    BY <2>8 DEF Forget
  <2>9. ASSUME NEW v \in Values, Call(v) PROVE FALSE
    BY <2>9 DEF Call
  <2>10. ~EndJob
    BY DEF EndJob
  <2> QED BY <2>1, <2>2, <2>3, <2>4, <2>5, <2>6, <2>7, <2>8, <2>9, <2>10 DEF Mutate
<1>3. ~RunGC /\ ~FreeRuntime /\ ~GcDecref /\ ~GcScan /\ ~EndGC /\ ~(UNCHANGED vars)
  BY DEF RunGC, FreeRuntime, GcDecref, GcScan, EndGC, vars, heap
<1>4. PICK o \in Objects : FreeZero(o) \/ FreeCycle(o)
  BY <1>2, <1>3 DEF Next, Collect
<1>5. records' = records \ Dying(o)
  BY <1>4 DEF FreeZero, FreeCycle, FreeObject
<1> QED BY <1>4, <1>5

LEMMA CallbackMade ==
    ASSUME Inv, [Next]_vars, NEW r \in records, r \notin records',
           r.kind = "fin", r.owner \in Reachable, mem'[r.target] # "live"
    PROVE  jobs'[r.value] > jobs[r.value]
<1>1. PICK o \in Objects : (FreeZero(o) \/ FreeCycle(o)) /\ r \in Dying(o)
  BY RecordsGo
<1>2. FreeObject(o) /\ turn # "scan" /\ mem' = [mem EXCEPT ![o] = mem'[o]]
  <2>1. CASE FreeZero(o)
    BY <2>1 DEF FreeZero, Inv, Passes, Safe, Live, TypeOK
  <2>2. CASE FreeCycle(o)
    BY <2>2 DEF FreeCycle, Inv, Passes, Safe, Live, TypeOK, Remains
  <2> QED BY <1>1, <2>1, <2>2
<1>3. r.owner \in Safe /\ r.value \in Safe \cup {None} /\ r.value \in Values /\ r.target \in Objects
  BY ReachableIsSafe DEF Inv, Closed, TypeOK
<1>4. r.target = o
  <2>1. mem[r.target] = "live"
    BY DEF Inv, WeakNeverDangles, Live
  <2> QED BY <1>2, <1>3, <2>1 DEF Inv, TypeOK
<1>5. ~quitting
  <2>1. quitting => Rooted = {}
    BY DEF Inv, Passes, Rooted, Values
  <2>2. Rooted = {} => Reachable = {}
    BY DEF Reachable
  <2> QED BY <2>1, <2>2
<1>6. Enqueued(r)
  BY <1>2, <1>3, <1>5 DEF Enqueued, Safe, Live
<1>7. r \in CalledBack(o)
  BY <1>1, <1>4, <1>6 DEF CalledBack
<1> DEFINE calls == {d \in CalledBack(o) : d.value = r.value}
<1>8. IsFiniteSet(calls) /\ calls # {}
  <2>1. calls \in SUBSET records /\ IsFiniteSet(records)
    BY DEF CalledBack, Dying, Inv, Finite
  <2> QED BY <1>7, <2>1, FS_Subset
<1>9. jobs'[r.value] = jobs[r.value] + Cardinality(calls)
  BY <1>2, <1>3 DEF FreeObject
<1> HIDE DEF calls
<1>10. Cardinality(calls) \in Nat /\ Cardinality(calls) # 0
  BY <1>8, FS_CardinalityType, FS_EmptySet
<1>11. jobs[r.value] \in Nat
  BY <1>3 DEF Inv, TypeOK
<1> QED BY <1>9, <1>10, <1>11

\* A target that is freed calls back every registry the program can still reach.
THEOREM CallbackCorrect == Spec => CallbackComes
<1>1. Inv /\ [Next]_vars =>
          [\A r \in records \ records' :
               r.kind = "fin" /\ r.owner \in Reachable /\ mem'[r.target] # "live"
               => jobs'[r.value] > jobs[r.value]]_vars
  BY CallbackMade
<1> QED BY Invariance, <1>1, PTL DEF Spec, CallbackComes
=============================================================================
