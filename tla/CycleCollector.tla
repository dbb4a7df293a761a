---------------------------- MODULE CycleCollector ----------------------------
(***************************************************************************)
(* Memory of the engine: reference counts, the deferred freeing of what    *)
(* reaches zero, the cycle collector with its three passes, and the weak   *)
(* records that hang on an object: WeakMap entries, WeakRefs and           *)
(* registrations with a FinalizationRegistry (quickjs.c).                  *)
(*                                                                         *)
(* A step of the program is one operation of JavaScript; freeing and       *)
(* collecting take a step per object, and the program waits for them.      *)
(* Lists of objects are sets here, so that the collector may take them in  *)
(* any order.  Classes are not told apart: an object may be a map and a    *)
(* registry at once, and shows with few objects what takes more.           *)
(***************************************************************************)
EXTENDS Naturals, FiniteSets, Functions

CONSTANTS
    Objects,
    None,        \* a held value that is no object
    MaxLinks     \* bound: properties, weak records and callbacks to come

ASSUME NoneAssumption == None \notin Objects
ASSUME BoundAssumption == MaxLinks \in Nat

VARIABLES
    mem,       \* "free", "live", or "zombie": freed, but its memory is kept
    rc,        \* JS_REF_COUNT
    edges,     \* properties: <<owner, value>>
    records,   \* first_weak_ref lists: WeakMap entries, WeakRefs, registrations
    local,     \* objects the running code holds
    kept,      \* weakref_kept_objects
    jobs,      \* per held value, the callbacks in job_list
    turn,      \* "program", or what JS_RunGC does: "clear", "scan", "sweep"
    zero,      \* gc_zero_ref_count_list, while counts are decremented
    tmp,       \* tmp_obj_list: the objects found unreferenced
    quitting   \* in_free

heap == <<mem, rc, edges, records>>
roots == <<local, kept, jobs>>
collector == <<turn, zero, tmp, quitting>>
vars == <<heap, roots, collector>>

Values == Objects \cup {None}
Kinds == {"map", "ref", "fin"}
Live == {o \in Objects : mem[o] = "live"}

Init ==
    /\ mem = [o \in Objects |-> "free"] /\ rc = [o \in Objects |-> 0]
    /\ edges = {} /\ records = {}
    /\ local = {} /\ kept = {} /\ jobs = [v \in Values |-> 0]
    /\ turn = "program" /\ zero = {} /\ tmp = {} /\ quitting = FALSE

-----------------------------------------------------------------------------
(* Counting. *)

\* References of a set of properties and of a set of records to an object.
Refs(es, rs, o) ==
    Cardinality({e \in es : e[2] = o}) + Cardinality({r \in rs : r.value = o})
One(b) == IF b THEN 1 ELSE 0

\* js_dup of a value
Dup(v) == rc' = [o \in Objects |-> rc[o] + One(o = v)]

\* JS_FreeValueRT: what reaches zero is queued to be freed.
Free(v) ==
    /\ rc' = [o \in Objects |-> rc[o] - One(o = v)]
    /\ zero' = {o \in Objects : o = v /\ rc[o] = 1}

\* JS_ClearWeakRefKeptObjects
ClearKept ==
    /\ kept' = {}
    /\ rc' = [o \in Objects |-> rc[o] - One(o \in kept)]
    /\ zero' = {o \in kept : rc[o] = 1}

-----------------------------------------------------------------------------
(* The program, while nothing is being freed. *)

Program == turn = "program" /\ zero = {} /\ ~quitting

New(o) ==
    /\ Program /\ mem[o] = "free"
    /\ mem' = [mem EXCEPT ![o] = "live"] /\ rc' = [rc EXCEPT ![o] = 1]
    /\ local' = local \cup {o}
    /\ UNCHANGED <<edges, records, kept, jobs, collector>>

Forget(o) ==
    /\ Program /\ o \in local /\ local' = local \ {o}
    /\ Free(o)
    /\ UNCHANGED <<mem, edges, records, kept, jobs, turn, tmp, quitting>>

Room == Cardinality(edges) + Cardinality(records) + FoldFunction(+, 0, jobs) < MaxLinks

SetProperty(o, v) ==
    /\ Program /\ {o, v} \subseteq local /\ Room
    /\ <<o, v>> \notin edges /\ edges' = edges \cup {<<o, v>>}
    /\ Dup(v)
    /\ UNCHANGED <<mem, records, roots, collector>>

GetProperty(o, v) ==
    /\ Program /\ o \in local /\ <<o, v>> \in edges /\ v \notin local
    /\ local' = local \cup {v} /\ Dup(v)
    /\ UNCHANGED <<mem, edges, records, kept, jobs, collector>>

DeleteProperty(o, v) ==
    /\ Program /\ o \in local /\ <<o, v>> \in edges
    /\ edges' = edges \ {<<o, v>>} /\ Free(v)
    /\ UNCHANGED <<mem, records, roots, turn, tmp, quitting>>

\* WeakMap.prototype.set of a new key.
SetEntry(m, k, v) ==
    /\ Program /\ {m, k, v} \subseteq local /\ Room
    /\ \A r \in records : r.kind = "map" => r.owner # m \/ r.target # k
    /\ records' = records \cup {[kind |-> "map", owner |-> m, target |-> k, value |-> v]}
    /\ Dup(v)
    /\ UNCHANGED <<mem, edges, roots, collector>>

\* new WeakRef: the target is kept until the job ends.
NewWeakRef(w, t) ==
    /\ Program /\ {w, t} \subseteq local /\ w # t /\ Room
    /\ \A r \in records : r.kind = "ref" => r.owner # w
    /\ records' = records \cup {[kind |-> "ref", owner |-> w, target |-> t, value |-> None]}
    /\ kept' = kept \cup {t}
    /\ rc' = [rc EXCEPT ![t] = @ + One(t \notin kept)]
    /\ UNCHANGED <<mem, edges, local, jobs, collector>>

\* WeakMap.prototype.get and WeakRef.prototype.deref.
Lookup(r) ==
    /\ Program /\ r.owner \in local
    /\ r.kind = "ref" \/ (r.kind = "map" /\ r.target \in local)
    /\ LET v == IF r.kind = "ref" THEN r.target ELSE r.value IN
       v \notin local /\ local' = local \cup {v} /\ Dup(v)
    /\ UNCHANGED <<mem, edges, records, kept, jobs, collector>>

\* FinalizationRegistry.prototype.register.  The value stands for the held
\* value or the callback, which the code treats alike.
Register(f, t, v) ==
    /\ Program /\ {f, t} \subseteq local /\ v \in local \cup {None} /\ t \notin {f, v} /\ Room
    /\ LET r == [kind |-> "fin", owner |-> f, target |-> t, value |-> v] IN
       r \notin records /\ records' = records \cup {r}
    /\ Dup(v)
    /\ UNCHANGED <<mem, edges, roots, collector>>

\* WeakMap.prototype.delete, and unregister by a token of the registration.
Remove(r) ==
    /\ Program /\ r.owner \in local
    /\ r.kind = "fin" \/ (r.kind = "map" /\ r.target \in local)
    /\ records' = records \ {r} /\ Free(r.value)
    /\ UNCHANGED <<mem, edges, roots, turn, tmp, quitting>>

\* A callback is called with its held value, which the code then has.
Call(v) ==
    /\ Program /\ jobs[v] > 0 /\ jobs' = [jobs EXCEPT ![v] = @ - 1]
    /\ local' = local \cup ({v} \cap Objects)
    /\ rc' = [o \in Objects |-> rc[o] - One(o = v /\ v \in local)]
    /\ UNCHANGED <<mem, edges, records, kept, collector>>

\* JS_ExecutePendingJob after the job.
EndJob ==
    /\ Program /\ kept # {} /\ ClearKept
    /\ UNCHANGED <<mem, edges, records, local, jobs, turn, tmp, quitting>>

-----------------------------------------------------------------------------
(* Freeing an object. *)

\* Faulty variant of Enqueued: the callback is called with whatever is held.
EnqueuedAlways(r) == ~quitting

\* Faulty variant of Enqueued: the mark the first pass left on the value is not reset.
EnqueuedUnmarked(r) == ~quitting /\ (r.value = None \/ turn # "sweep")

\* reset_weak_ref calls back unless the held value is garbage of this very collection.
Enqueued(r) ==
    ~quitting /\ (r.value = None \/ (mem[r.value] = "live" /\ r.value \notin tmp))

\* Faulty variant of Dying: only what the object owns goes with it.
DyingOwned(o) == {r \in records : r.owner = o}

\* reset_weak_ref of the object, and the finalizers of a map, WeakRef or registry.
Dying(o) == {r \in records : o \in {r.owner, r.target}}

CalledBack(o) == {r \in Dying(o) : r.kind = "fin" /\ r.target = o /\ Enqueued(r)}
Owned(o) == {e \in edges : e[1] = o}

\* free_object up to its last lines.
FreeObject(o) ==
    /\ edges' = edges \ Owned(o) /\ records' = records \ Dying(o)
    /\ rc' = [p \in Objects |-> rc[p] - Refs(Owned(o), Dying(o) \ CalledBack(o), p)]
    /\ jobs' = [v \in Values |-> jobs[v] + Cardinality({r \in CalledBack(o) : r.value = v})]

\* free_zero_refcount: what the object was the last to refer to is next.
FreeZero(o) ==
    /\ o \in zero /\ FreeObject(o)
    /\ mem' = [mem EXCEPT ![o] = "free"]
    /\ zero' = (zero \ {o}) \cup {p \in Objects : rc[p] # 0 /\ rc'[p] = 0}
    /\ UNCHANGED <<local, kept, turn, tmp, quitting>>

-----------------------------------------------------------------------------
(* The collector: JS_RunGC, at any allocation. *)

RunGC ==
    /\ Program /\ turn' = "clear" /\ ClearKept
    /\ UNCHANGED <<mem, edges, records, local, jobs, tmp, quitting>>

\* JS_FreeRuntime: nothing is left to refer to an object, and no callback is called.
FreeRuntime ==
    /\ Program /\ quitting' = TRUE /\ turn' = "clear"
    /\ local' = {} /\ kept' = {} /\ jobs' = [v \in Values |-> 0]
    /\ rc' = [o \in Objects |-> rc[o] - One(o \in local) - One(o \in kept) - jobs[o]]
    /\ zero' = {o \in Objects : rc[o] # 0 /\ rc'[o] = 0}
    /\ UNCHANGED <<mem, edges, records, tmp>>

\* Faulty variant of MarkedBy: the value of a WeakMap entry is the map's.
MarkedByMap(o) == {r \in records : r.kind \in {"map", "fin"} /\ r.owner = o}

\* mark_children, as far as records go: an entry's value is a child of its key, a
\* held value one of the registry.
MarkedBy(o) ==
    {r \in records : (r.kind = "map" /\ r.target = o) \/ (r.kind = "fin" /\ r.owner = o)}
Children(o) == {e[2] : e \in Owned(o)} \cup ({r.value : r \in MarkedBy(o)} \ {None})

\* gc_decref: what is left of a count are references from outside the heap.
External(o) == rc[o] - Refs(edges, UNION {MarkedBy(p) : p \in Live}, o)

GcDecref ==
    /\ turn = "clear" /\ zero = {} /\ turn' = "scan"
    /\ rc' = [o \in Objects |-> External(o)]
    /\ tmp' = {o \in Live : External(o) = 0}
    /\ UNCHANGED <<mem, edges, records, roots, zero, quitting>>

\* The objects with a count left, and all their descendants.
Rescued ==
    {o \in Live : \A S \in SUBSET Live :
        Live \ tmp \subseteq S /\ (\A p \in S : Children(p) \subseteq S) => o \in S}

\* Faulty variant of Restored: the counts of what will be freed stay as they are.
RestoredLive == UNION {MarkedBy(p) : p \in Rescued}

\* The children of all objects get their counts back.
Restored == UNION {MarkedBy(p) : p \in Live}

GcScan ==
    /\ turn = "scan" /\ turn' = "sweep" /\ tmp' = Live \ Rescued
    /\ rc' = [o \in Objects |-> rc[o] + Refs(edges, Restored, o)]
    /\ UNCHANGED <<mem, edges, records, roots, zero, quitting>>

\* The memory of an object others still refer to is kept: they will be freed too.
Remains(o) == IF rc'[o] # 0 THEN "zombie" ELSE "free"

\* gc_free_cycles: one object.
FreeCycle(o) ==
    /\ turn = "sweep" /\ o \in tmp /\ tmp' = tmp \ {o}
    /\ FreeObject(o) /\ mem' = [mem EXCEPT ![o] = Remains(o)]
    /\ UNCHANGED <<local, kept, turn, zero, quitting>>

EndGC ==
    /\ turn = "sweep" /\ tmp = {} /\ turn' = "program"
    /\ mem' = [o \in Objects |-> IF mem[o] = "zombie" THEN "free" ELSE mem[o]]
    /\ UNCHANGED <<rc, edges, records, roots, zero, tmp, quitting>>

-----------------------------------------------------------------------------
Mutate ==
    \/ \E o \in Objects : New(o) \/ Forget(o)
    \/ \E o, v \in Objects : SetProperty(o, v) \/ GetProperty(o, v) \/ DeleteProperty(o, v)
    \/ \E m, k, v \in Objects : SetEntry(m, k, v)
    \/ \E w, t \in Objects : NewWeakRef(w, t)
    \/ \E f, t \in Objects, v \in Values : Register(f, t, v)
    \/ \E r \in records : Lookup(r) \/ Remove(r)
    \/ (\E v \in Values : Call(v)) \/ EndJob

Collect == GcDecref \/ GcScan \/ (\E o \in Objects : FreeZero(o) \/ FreeCycle(o)) \/ EndGC

Next == Mutate \/ RunGC \/ FreeRuntime \/ Collect

Spec == Init /\ [][Next]_vars

-----------------------------------------------------------------------------
(* Properties. *)

TypeOK ==
    /\ mem \in [Objects -> {"free", "live", "zombie"}] /\ rc \in [Objects -> Nat]
    /\ edges \subseteq Objects \X Objects
    /\ records \subseteq [kind : Kinds, owner : Objects, target : Objects, value : Values]
    /\ local \subseteq Objects /\ kept \subseteq Objects /\ jobs \in [Values -> Nat]
    /\ turn \in {"program", "clear", "scan", "sweep"}
    /\ zero \subseteq Objects /\ tmp \subseteq Objects
    /\ quitting \in BOOLEAN

\* Between the passes of the collector a count is the number of references there
\* are, of objects that are being freed too, and none leads to memory that was freed.
CountsExact ==
    turn # "scan" => \A o \in Objects :
        /\ rc[o] = Refs(edges, records, o) + One(o \in local) + One(o \in kept) + jobs[o]
        /\ mem[o] = "free" => rc[o] = 0

Rooted == local \cup kept \cup {o \in Objects : jobs[o] > 0}

\* What a program can get at: an entry of a WeakMap with the map and the key.
Reachable ==
    {o \in Objects : \A S \in SUBSET Objects :
        /\ Rooted \subseteq S
        /\ \A e \in edges : e[1] \in S => e[2] \in S
        /\ \A r \in records :
               (r.kind = "fin" /\ r.owner \in S) \/ (r.kind = "map" /\ {r.owner, r.target} \subseteq S)
               => r.value \in S \cup {None}
        => o \in S}

\* What a program can get at is not freed, in the middle of a collection either,
\* however it is held: by a property, an entry, a registration or a callback to come.
NothingFreedTooEarly == Reachable \subseteq Live

\* The weak records of an object do not outlive it, nor those whose map, WeakRef
\* or registry is gone: in whatever order the collector frees them.
WeakNeverDangles == \A r \in records : {r.owner, r.target} \subseteq Live

\* What the collector has to leave: what is reachable, and an entry's value whose
\* key is, with all that is reachable from there; it does not ask for the map.
Retained ==
    {o \in Objects : \A S \in SUBSET Objects :
        /\ Rooted \subseteq S
        /\ \A e \in edges : e[1] \in S => e[2] \in S
        /\ \A r \in records :
               (r.kind = "fin" /\ r.owner \in S) \/ (r.kind = "map" /\ r.target \in S)
               => r.value \in S \cup {None}
        => o \in S}

\* What is condemned is all the garbage and nothing else.  (An object the sweep
\* itself leaves without a reference has to wait for the next collection.)
CondemnsGarbage == [][turn = "scan" => tmp' = Live \ Retained]_vars

\* A registration whose target dies is called back if the registry can still be
\* reached: a collection never takes its held value for garbage.
CallbackComes ==
    [][\A r \in records \ records' :
           r.kind = "fin" /\ r.owner \in Reachable /\ mem'[r.target] # "live"
           => jobs'[r.value] > jobs[r.value]]_vars
=============================================================================
