------------------------------ MODULE GcMarker ------------------------------
(***************************************************************************)
(* glib/gnome/gobject/gc.c: the table of Scheme objects that GLib data     *)
(* structures (closures, boxed values, qdata, param specs) keep alive.     *)
(*                                                                         *)
(* The table counts protections per object under a mutex; the mark         *)
(* function of one permanent smob takes the same mutex and marks every key *)
(* of the table.  libgc runs it with all other threads stopped wherever    *)
(* they are.                                                               *)
(*                                                                         *)
(* The specification is TableSpec, so that a module can extend this one    *)
(* and that of a component which relies on the table.                      *)
(***************************************************************************)
EXTENDS Naturals

CONSTANTS
    Objects,       \* Scheme objects
    Threads,       \* threads that run C code of the bindings
    Nobody,        \* no thread
    MaxCount       \* bound: protections of an object

ASSUME NobodyAssumption == Nobody \notin Threads
ASSUME MaxCountAssumption == MaxCount \in Nat

VARIABLES
    keys,      \* glib_gc_marker_hash: the keys it has
    entries,   \* and the value of each, 0 (NULL) without a key
    lock,      \* glib_gc_marker_hash_lock: who holds it
    op,        \* op[t]: what thread t does between lock and unlock
    owed,      \* owed[o]: protections that GLib data structures hold
    root,      \* objects that Scheme reaches without the table
    alive,     \* objects that have not been collected
    gc         \* the thread that has stopped the world to collect

tableVars == <<keys, entries, lock, op, owed, root, alive, gc>>

Idle == [kind |-> "none"]
Kinds == {"protect", "unprotect"}
Ops == {Idle}
       \cup [kind : Kinds, obj : Objects, at : {"locked"}]
       \cup [kind : Kinds, obj : Objects, at : {"read"}, val : Nat]

TableTypeOK ==
    /\ keys \subseteq Objects
    /\ entries \in [Objects -> Nat]
    /\ lock \in Threads \cup {Nobody}
    /\ op \in [Threads -> Ops]
    /\ owed \in [Objects -> Nat]
    /\ root \subseteq Objects
    /\ alive \subseteq Objects
    /\ gc \in Threads \cup {Nobody}

TableInit ==
    /\ keys = {}
    /\ entries = [o \in Objects |-> 0]
    /\ lock = Nobody
    /\ op = [t \in Threads |-> Idle]
    /\ owed = [o \in Objects |-> 0]
    /\ root = {}
    /\ alive = {}
    /\ gc = Nobody

-----------------------------------------------------------------------------
(* scm_glib_gc_protect_object and scm_glib_gc_unprotect_object *)

OnStack(o) == \E t \in Threads : op[t] # Idle /\ op[t].obj = o

\* Mutant: no mutex around lookup and insert.
LockNothing(t) == UNCHANGED lock

Lock(t) == lock = Nobody /\ lock' = t

\* A caller has the object in its hands: Scheme reaches it, or one of the data
\* structures that protect it does and copies it (copy_gboxed_scm).
Protect(t, o) ==
    /\ gc = Nobody
    /\ op[t] = Idle
    /\ o \in root \/ owed[o] > 0
    /\ owed[o] < MaxCount
    /\ Lock(t)
    /\ op' = [op EXCEPT ![t] = [kind |-> "protect", obj |-> o, at |-> "locked"]]
    /\ root' = root \cup {o}
    /\ UNCHANGED <<keys, entries, owed, alive, gc>>

\* The data structure that held a protection is freed.
Unprotect(t, o) ==
    /\ gc = Nobody
    /\ op[t] = Idle
    /\ owed[o] > 0
    /\ Lock(t)
    /\ op' = [op EXCEPT ![t] = [kind |-> "unprotect", obj |-> o, at |-> "locked"]]
    /\ owed' = [owed EXCEPT ![o] = @ - 1]
    /\ UNCHANGED <<keys, entries, root, alive, gc>>

\* g_hash_table_lookup
Lookup(t) ==
    /\ gc = Nobody
    /\ op[t] # Idle /\ op[t].at = "locked"
    /\ op' = [op EXCEPT ![t] = [kind |-> op[t].kind, obj |-> op[t].obj,
                                at |-> "read", val |-> entries[op[t].obj]]]
    /\ UNCHANGED <<keys, entries, lock, owed, root, alive, gc>>

\* The key goes only when an unprotect finds that the count is 0 already
\* (gc.c:70: "FIXME: is this right?").
Removes(kind, val) == kind = "unprotect" /\ val = 0

\* The value to insert, or NULL once the key is gone.
NewValue(kind, val) ==
    IF Removes(kind, val) THEN 0
    ELSE IF kind = "protect" THEN val + 1 ELSE val - 1

Unlock(t) == lock' = Nobody

Insert(t) ==
    /\ gc = Nobody
    /\ op[t] # Idle /\ op[t].at = "read"
    /\ keys' = IF Removes(op[t].kind, op[t].val)
               THEN keys \ {op[t].obj} ELSE keys \cup {op[t].obj}
    /\ entries' = [entries EXCEPT ![op[t].obj] = NewValue(op[t].kind, op[t].val)]
    /\ Unlock(t)
    /\ op' = [op EXCEPT ![t] = Idle]
    /\ owed' = IF op[t].kind = "protect"
               THEN [owed EXCEPT ![op[t].obj] = @ + 1] ELSE owed
    /\ UNCHANGED <<root, alive, gc>>

-----------------------------------------------------------------------------
(* The program and the collector *)

Allocate(o) ==
    /\ gc = Nobody
    /\ o \notin alive
    /\ alive' = alive \cup {o}
    /\ root' = root \cup {o}
    /\ UNCHANGED <<keys, entries, lock, op, owed, gc>>

\* Scheme lets go of an object; not while a thread has it on its stack.
Forget(o) ==
    /\ gc = Nobody
    /\ o \in root
    /\ ~OnStack(o)
    /\ root' = root \ {o}
    /\ UNCHANGED <<keys, entries, lock, op, owed, alive, gc>>

\* A closure is invoked, or a boxed value read: Scheme has the object again.
Use(o) ==
    /\ gc = Nobody
    /\ owed[o] > 0
    /\ root' = root \cup {o}
    /\ UNCHANGED <<keys, entries, lock, op, owed, alive, gc>>

\* An allocation of thread t starts a collection.  The code between lock and
\* unlock allocates nothing from the collector.
StopWorld(t) ==
    /\ gc = Nobody
    /\ op[t] = Idle
    /\ gc' = t
    /\ UNCHANGED <<keys, entries, lock, op, owed, root, alive>>

\* Mutant: mark the keys whose count is above 1 only.
MarkShared == {o \in keys : entries[o] > 1}

\* glib_gc_marker_mark: every key, whatever its count.
Marked == keys

\* The marker takes the lock, so it waits for a thread that was stopped
\* between lock and unlock.
Collect ==
    /\ gc # Nobody
    /\ lock = Nobody
    /\ alive' = alive \cap (root \cup Marked)
    /\ gc' = Nobody
    /\ UNCHANGED <<keys, entries, lock, op, owed, root>>

-----------------------------------------------------------------------------
TableNext ==
    \/ Collect
    \/ \E o \in Objects : Allocate(o) \/ Forget(o) \/ Use(o)
    \/ \E t \in Threads :
          \/ Lookup(t) \/ Insert(t) \/ StopWorld(t)
          \/ \E o \in Objects : Protect(t, o) \/ Unprotect(t, o)

TableSpec == TableInit /\ [][TableNext]_tableVars

\* A collection that can go on does.
FairTableSpec == TableSpec /\ WF_tableVars(Collect)
-----------------------------------------------------------------------------
(* Correctness *)

\* No closure, boxed value, qdata or param spec is left with a Scheme object
\* that the collector has freed: as long as one of them protects it, with
\* whatever protections of others come and go, the object lives.
ProtectedSurvives == \A o \in Objects : owed[o] > 0 => o \in alive

Unprotecting(o) == \E t \in Threads : op[t] # Idle /\ op[t].kind = "unprotect"
                                      /\ op[t].obj = o

\* The mutex makes lookup and insert one step: no protection is lost and none
\* is counted twice when threads protect the same object.
NoLostUpdate ==
    \A o \in Objects :
        entries[o] = owed[o] + IF Unprotecting(o) THEN 1 ELSE 0

\* Every collection that starts comes to its end.
CollectionEnds == [](gc # Nobody => <>(gc = Nobody))

\* gc.c:5: what was unprotected as often as it was protected, and is not
\* reachable, goes away in a collection, as with scm_gc_unprotect_object.
UnprotectedIsCollected ==
    [][gc # Nobody /\ gc' = Nobody
         => \A o \in alive' : o \in root \/ owed[o] > 0 \/ Unprotecting(o)]_tableVars
=============================================================================
