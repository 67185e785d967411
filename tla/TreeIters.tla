------------------------------ MODULE TreeIters ------------------------------
(***************************************************************************)
(* gtk/gnome/gw/guile-gtk-tree-model.c: a GtkTreeModel whose methods are   *)
(* Scheme procedures.  The user_data of a GtkTreeIter is the Scheme value  *)
(* that the methods returned.  Iters are C structs which the collector     *)
(* does not scan, so SET_ITER_VAL protects the value it stores and         *)
(* unprotects the one it replaces.  The wrappers of gtk-support.c hand     *)
(* iters to Scheme as boxed copies, made by gtk_tree_iter_copy, which      *)
(* copies the struct and knows nothing of protections.                     *)
(***************************************************************************)
EXTENDS Naturals, Sequences, FiniteSets

CONSTANTS
    Iters,      \* boxed GtkTreeIters
    Vals,       \* heap cells of Scheme values
    None,       \* NULL
    Env,        \* which of EnvChoices the program does
    MaxRows,    \* bound: children of one row
    MaxThrows   \* bound: throws of on-iter-next at a value

\* "reuse":    the program uses an iter it has moved on from with iter-next.
\* "children": the program uses the iters it got as the children of a row.
\* "drop":     the program drops an iter before the end of its level.
EnvChoices == {"reuse", "children", "drop"}

ASSUME NoneAssumption == None \notin Vals
ASSUME EnvAssumption == Env \subseteq EnvChoices
ASSUME BoundsAssumption == MaxRows \in Nat /\ MaxThrows \in Nat
ASSUME FiniteAssumption == IsFiniteSet(Iters)

VARIABLES
    inUse,      \* the iters that Scheme holds
    data,       \* data[i]: user_data; the stamp is the model's in all of them
    spent,      \* iters that the program had better not use any more
    exists,     \* the values that have not been collected
    kept,       \* those that the model's own data refer to
    protected,  \* protected[v]: count in Guile's table of protected objects
    stranded,   \* stranded[v]: protections that throws have left behind
    walk,       \* the row of iter_children's stack iter, and the copies so far
    aborted     \* scm_gc_unprotect_object was given an unprotected value

vars == <<inUse, data, spent, exists, kept, protected, stranded, walk, aborted>>

NoWalk == [prev |-> None, list |-> {}]

TypeOK ==
    /\ inUse \subseteq Iters
    /\ data \in [Iters -> Vals \cup {None}]
    /\ spent \subseteq Iters
    /\ exists \subseteq Vals
    /\ kept \subseteq exists
    /\ protected \in [Vals -> Nat]
    /\ stranded \in [Vals -> 0..MaxThrows]
    /\ walk \in [prev : Vals \cup {None}, list : SUBSET Iters]
    /\ aborted \in BOOLEAN

Init ==
    /\ inUse = {} /\ spent = {} /\ exists = {} /\ kept = {}
    /\ data = [i \in Iters |-> None]
    /\ protected = [v \in Vals |-> 0]
    /\ stranded = [v \in Vals |-> 0]
    /\ walk = NoWalk
    /\ aborted = FALSE

\* A method answers with a value the model keeps, or with a new one.
Answers(v) ==
    \/ v \in kept /\ UNCHANGED <<exists, kept>>
    \/ /\ v \notin exists
       /\ exists' = exists \cup {v}
       /\ kept' \in {kept, kept \cup {v}}

Protect(p, v) == [p EXCEPT ![v] = @ + 1]
Unprotect(p, v) == IF v = None THEN p ELSE [p EXCEPT ![v] = @ - 1]

\* Mutant: The new value is not protected.
SetIterUnprotected(old, v) ==
    /\ protected' = Unprotect(protected, old)
    /\ aborted' = (old # None /\ protected[old] = 0)

\* Mutant: The value replaced is not unprotected.
SetIterKeepsOld(old, v) ==
    /\ protected' = IF v = None THEN protected ELSE Protect(protected, v)
    /\ aborted' = FALSE

\* SET_ITER_VAL and SET_ITER_NULL (v = None) on an iter that holds old.
SetIter(old, v) ==
    /\ protected' = IF v = None THEN Unprotect(protected, old)
                    ELSE Protect(Unprotect(protected, old), v)
    /\ aborted' = (old # None /\ protected[old] = 0)

\* The program uses an iter once, unless "reuse".
Usable(i) == i \in inUse /\ (i \notin spent \/ "reuse" \in Env)

Fresh(j) == j \notin inUse \cup walk.list

\* gtk_tree_model_get_iter, iter_first, iter_nth_child and iter_parent clear
\* the caller's stack iter, the model fills it, the wrapper returns a copy.
GetIter(j, v) ==
    /\ Fresh(j)
    /\ Answers(v)
    /\ SetIter(None, v)
    /\ data' = [data EXCEPT ![j] = v]
    /\ inUse' = inUse \cup {j}
    /\ UNCHANGED <<spent, stranded, walk>>

NthChild(i, j, v) == Usable(i) /\ GetIter(j, v)
Parent(i, j, v) == Usable(i) /\ GetIter(j, v)

\* The wrapper moves a copy j of i on; i stays as it was.
IterNext(i, j, v) ==
    /\ Usable(i) /\ Fresh(j)
    /\ Answers(v)
    /\ SetIter(data[i], v)
    /\ data' = [data EXCEPT ![j] = v]
    /\ inUse' = inUse \cup {j}
    /\ spent' = spent \cup {i}
    /\ UNCHANGED <<stranded, walk>>

IterLast(i) ==
    /\ Usable(i)
    /\ SetIter(data[i], None)
    /\ spent' = spent \cup {i}
    /\ UNCHANGED <<inUse, data, exists, kept, stranded, walk>>

\* on-iter-next throws.  scm_with_guile stops it before SET_ITER_VAL and
\* SET_ITER_NULL: C is told that the level is over, and the iter still holds
\* its value, which stays protected.  A throw of the other methods finds the
\* iter empty and leaves nothing.
Strand(v) ==
    /\ stranded[v] < MaxThrows
    /\ stranded' = [stranded EXCEPT ![v] = @ + 1]

IterThrow(i) ==
    /\ i \in inUse \ spent
    /\ Strand(data[i])
    /\ spent' = spent \cup {i}
    /\ UNCHANGED <<inUse, data, exists, kept, protected, walk, aborted>>

\* _wrap_gtk_tree_model_iter_children: one stack iter goes over the children
\* and a copy is made at each.
ChildrenFirst(v) ==
    /\ walk = NoWalk
    /\ Answers(v)
    /\ SetIter(None, v)
    /\ walk' = [prev |-> v, list |-> {}]
    /\ UNCHANGED <<inUse, data, spent, stranded>>

ChildrenNext(j, v) ==
    /\ walk.prev # None
    /\ Fresh(j)
    /\ Cardinality(walk.list) + 1 < MaxRows
    /\ Answers(v)
    /\ SetIter(walk.prev, v)
    /\ data' = [data EXCEPT ![j] = walk.prev]
    /\ walk' = [prev |-> v, list |-> walk.list \cup {j}]
    /\ UNCHANGED <<inUse, spent, stranded>>

\* The walk is over: the last copy is made, and the list returned.
Listed(j) ==
    /\ walk.prev # None
    /\ Fresh(j)
    /\ data' = [data EXCEPT ![j] = walk.prev]
    /\ inUse' = inUse \cup walk.list \cup {j}
    /\ spent' = IF "children" \in Env THEN spent ELSE spent \cup walk.list \cup {j}
    /\ walk' = NoWalk
    /\ UNCHANGED <<exists, kept>>

ChildrenEnd(j) ==
    /\ Listed(j)
    /\ SetIter(walk.prev, None)
    /\ UNCHANGED stranded

ChildrenThrow(j) ==
    /\ Listed(j)
    /\ Strand(walk.prev)
    /\ UNCHANGED <<protected, aborted>>

\* The boxed iter is collected: gtk_tree_iter_free releases the struct only.
Drop(i) ==
    /\ i \in inUse
    /\ i \in spent \/ "drop" \in Env
    /\ inUse' = inUse \ {i}
    /\ spent' = spent \ {i}
    /\ data' = [data EXCEPT ![i] = None]
    /\ UNCHANGED <<exists, kept, protected, stranded, walk, aborted>>

\* The model's own data change, while the program holds no iter to it.
Forget(v) ==
    /\ inUse = {} /\ walk = NoWalk
    /\ v \in kept
    /\ kept' = kept \ {v}
    /\ UNCHANGED <<inUse, data, spent, exists, protected, stranded, walk, aborted>>

Collect(v) ==
    /\ v \in exists \ kept
    /\ protected[v] = 0
    /\ exists' = exists \ {v}
    /\ UNCHANGED <<inUse, data, spent, kept, protected, stranded, walk, aborted>>

Steps ==
    \/ \E j \in Iters, v \in Vals :
        \/ GetIter(j, v) \/ ChildrenNext(j, v)
        \/ \E i \in Iters : NthChild(i, j, v) \/ Parent(i, j, v) \/ IterNext(i, j, v)
    \/ \E i \in Iters :
        IterLast(i) \/ IterThrow(i) \/ ChildrenEnd(i) \/ ChildrenThrow(i) \/ Drop(i)
    \/ \E v \in Vals : ChildrenFirst(v) \/ Forget(v) \/ Collect(v)

Next == ~aborted /\ Steps

Spec == Init /\ [][Next]_vars

-----------------------------------------------------------------------------
\* Iters the program may still use; a protection belongs to one of them.
Current == inUse \ spent
Referring(v) == {i \in Current : data[i] = v}
OnStack(v) == IF walk.prev = v THEN 1 ELSE 0

\* "Iterators are expected to always be valid for as long as the model is
\* unchanged" (doc/gtk/section-gtktreemodel.xml.texi): the value of an iter
\* that the program may use has not been collected.
IterValid == \A i \in inUse : Usable(i) => data[i] \in exists

\* No call makes Guile abort on a value that is not protected.
NeverAborts == ~aborted

\* Every protection belongs to an iter that somebody will move on or end, or
\* was left behind by a throw of on-iter-next: a finished walk leaves no value
\* protected, and a throw leaves one, once.
ProtectionsOwned ==
    \A v \in Vals :
        protected[v] = Cardinality(Referring(v)) + OnStack(v) + stranded[v]

\* "The model is considered to own all outstanding iterators and nothing needs
\* to be done to free them" (the same section).  A throw breaks it.
NothingStranded == \A v \in Vals : protected[v] = Cardinality(Referring(v)) + OnStack(v)
=============================================================================
