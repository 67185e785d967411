--------------------------- MODULE InstanceWrapper ---------------------------
(***************************************************************************)
(* The life of GTypeInstance wrappers: how a GObject and the GOOPS object  *)
(* that stands for it in Scheme are bound, found again, unbound and freed. *)
(*                                                                         *)
(* Translated from glib/gnome/gobject/gtype.c (bind, unbind, construct,    *)
(* destroy!, to_scm) and glib/gnome/gobject/gobject.c (construct,          *)
(* instance_init, the stack of objects in construction from Scheme).       *)
(*                                                                         *)
(* A wrapper's slots[0] is `slot', a GObject's wrapper qdata is `cache'.   *)
(* The qdata lives in malloc'ed memory, which the collector does not scan: *)
(* it is a weak pointer.                                                   *)
(***************************************************************************)
EXTENDS Naturals, Sequences, FiniteSets

CONSTANTS
    Instances,     \* addresses of GObjects
    Wrappers,      \* GOOPS objects of class <gobject>
    Threads,       \* threads that run Scheme code
    None,          \* SCM_BOOL_F / NULL
    Levels,        \* how many classes of an instance may be defined in Scheme
    Kinds,         \* "plain", "floating" (GInitiallyUnowned) or "toplevel"
    Env,           \* what else the surroundings do, see EnvChoices
    MaxDepth,      \* bound: nested g_object_new calls of a thread
    MaxCRefs       \* bound: references C code holds on an instance

(* What a program around the bindings may or may not do.                   *)
(*   "nested":    C code run by a construction from Scheme instantiates a  *)
(*                class defined in Scheme;                                 *)
(*   "early":     C code hands out an instance of a C class before the     *)
(*                g_object_newv that creates it returns;                   *)
(*   "resurrect": Scheme is handed an instance whose wrapper the collector *)
(*                has already queued for finalization;                     *)
(*   "cfloat":    C code instantiates a class defined in Scheme below      *)
(*                GInitiallyUnowned.                                       *)
EnvChoices == {"nested", "early", "resurrect", "cfloat"}

ASSUME FiniteAssumption == IsFiniteSet(Wrappers) /\ IsFiniteSet(Instances)
ASSUME LevelsAssumption == Levels \subseteq Nat
ASSUME KindsAssumption == Kinds \subseteq {"plain", "floating", "toplevel"}
ASSUME EnvAssumption == Env \subseteq EnvChoices
ASSUME BoundsAssumption == MaxDepth \in Nat /\ MaxCRefs \in Nat
ASSUME NoneAssumption == None \notin Instances /\ None \notin Wrappers
ASSUME SlotAssumption == {"unbound", "destroyed"} \cap Instances = {}

VARIABLES
    refs,       \* refs[i]: the GObject's ref_count, 0 when nothing is there
    floating,   \* floating[i]: the GObject's floating flag
    crefs,      \* crefs[i]: how many of refs[i] C code owns and will drop
    cache,      \* cache[i]: the wrapper qdata
    slot,       \* slot[w]: slots[0], an instance or SCM_UNBOUND or 0
    held,       \* wrappers the program can reach
    queued,     \* wrappers whose finalizer is scheduled
    fluid,      \* fluid[t]: _in_construction_from_scheme, innermost first
    calls,      \* calls[t]: instances inside g_object_new, innermost last
    by,         \* by[i]: the wrapper that constructs i from Scheme
    todo,       \* todo[i]: Scheme-defined levels whose init has not run
    kind,       \* kind[i]: while g_object_new runs, what it creates
    pend        \* pend[t]: the instance t found no wrapper for, in to_scm

cvars == <<refs, floating, crefs, cache>>
gcvars == <<held, queued>>
newvars == <<fluid, calls, by, todo, kind>>
vars == <<refs, floating, crefs, cache, slot, held, queued,
          fluid, calls, by, todo, kind, pend>>

Slots == Instances \cup {"unbound", "destroyed"}
Pending == [inst : Instances, drop : BOOLEAN]

TypeOK ==
    /\ refs \in [Instances -> Nat]
    /\ floating \in [Instances -> BOOLEAN]
    /\ crefs \in [Instances -> Nat]
    /\ cache \in [Instances -> Wrappers \cup {None}]
    /\ slot \in [Wrappers -> Slots]
    /\ held \subseteq Wrappers
    /\ queued \subseteq Wrappers
    /\ fluid \in [Threads -> Seq(Wrappers)]
    /\ calls \in [Threads -> Seq(Instances)]
    /\ by \in [Instances -> Wrappers \cup {None}]
    /\ todo \in [Instances -> Nat]
    /\ kind \in [Instances -> {"none", "plain", "floating", "toplevel"}]
    /\ pend \in [Threads -> Pending \cup {None}]

Init ==
    /\ refs = [i \in Instances |-> 0]
    /\ floating = [i \in Instances |-> FALSE]
    /\ crefs = [i \in Instances |-> 0]
    /\ cache = [i \in Instances |-> None]
    /\ slot = [w \in Wrappers |-> "unbound"]
    /\ held = {}
    /\ queued = {}
    /\ fluid = [t \in Threads |-> <<>>]
    /\ calls = [t \in Threads |-> <<>>]
    /\ by = [i \in Instances |-> None]
    /\ todo = [i \in Instances |-> 0]
    /\ kind = [i \in Instances |-> "none"]
    /\ pend = [t \in Threads |-> None]

-----------------------------------------------------------------------------
(* Auxiliary notions *)

Calling(t) == {calls[t][n] : n \in 1..Len(calls[t])}
InNew(i) == kind[i] # "none"
Current(t) == calls[t][Len(calls[t])]
Idle(t) == pend[t] = None
Fresh(w) == w \notin held /\ w \notin queued
UnderConstruction(w) == \E i \in Instances : by[i] = w
Borrowed(i) == \E t \in Threads : pend[t] # None /\ pend[t].inst = i
Dropping(i) ==
    \E t \in Threads : pend[t] # None /\ pend[t].inst = i /\ pend[t].drop
BoundTo(i) == {w \in Wrappers : slot[w] = i}

\* C code can name instance i: it holds a reference, or Scheme passes it in.
KnownToC(i) == crefs[i] > 0 \/ floating[i] \/ \E w \in held : slot[w] = i

\* Mutant: the wrong end of the stack.
OutermostConstruction(t) ==
    IF fluid[t] = <<>> THEN None ELSE fluid[t][Len(fluid[t])]

\* in_construction_from_scheme
InConstructionFromScheme(t) == IF fluid[t] = <<>> THEN None ELSE Head(fluid[t])

-----------------------------------------------------------------------------
(* bind and unbind, the two primitives everything else is made of *)

\* Mutants: bind without taking a reference, and without caching the wrapper.
BindWithoutRef(i, w, unrefs) ==
    /\ refs' = [refs EXCEPT ![i] = @ - unrefs]
    /\ floating' = [floating EXCEPT ![i] = FALSE]
    /\ slot' = [slot EXCEPT ![w] = i]
    /\ cache' = [cache EXCEPT ![i] = w]
BindWithoutCache(i, w, unrefs) ==
    /\ refs' = [refs EXCEPT ![i] = @ + 1 - unrefs]
    /\ floating' = [floating EXCEPT ![i] = FALSE]
    /\ slot' = [slot EXCEPT ![w] = i]
    /\ UNCHANGED cache

\* scm_c_gtype_instance_bind_to_object: ref, sink, slots[0], qdata.  `unrefs'
\* is what the caller drops right after.  Sinking a floating reference only
\* clears the flag (sink_initially_unowned).
BindToObject(i, w, unrefs) ==
    /\ refs' = [refs EXCEPT ![i] = @ + 1 - unrefs]
    /\ floating' = [floating EXCEPT ![i] = FALSE]
    /\ slot' = [slot EXCEPT ![w] = i]
    /\ cache' = [cache EXCEPT ![i] = w]

\* g_object_unref: the last reference finalizes the object and its qdata.
Unref(i) ==
    /\ refs' = [refs EXCEPT ![i] = @ - 1]
    /\ floating' = [floating EXCEPT ![i] = @ /\ refs[i] > 1]
    /\ cache' = [cache EXCEPT ![i] = IF refs[i] > 1 THEN @ ELSE None]

\* Mutants: unbind that leaves the qdata, the slot or the reference alone.
UnbindKeepsCache(w) ==
    IF slot[w] \in Instances
    THEN /\ slot' = [slot EXCEPT ![w] = "destroyed"]
         /\ refs' = [refs EXCEPT ![slot[w]] = @ - 1]
         /\ UNCHANGED <<cache, floating>>
    ELSE UNCHANGED <<slot, cache, refs, floating>>
UnbindKeepsSlot(w) ==
    IF slot[w] \in Instances /\ refs[slot[w]] > 0
    THEN /\ cache' = [cache EXCEPT ![slot[w]] = None]
         /\ refs' = [refs EXCEPT ![slot[w]] = @ - 1]
         /\ UNCHANGED <<slot, floating>>
    ELSE UNCHANGED <<slot, cache, refs, floating>>
UnbindKeepsRef(w) ==
    IF slot[w] \in Instances
    THEN /\ slot' = [slot EXCEPT ![w] = "destroyed"]
         /\ cache' = [cache EXCEPT ![slot[w]] = None]
         /\ UNCHANGED <<refs, floating>>
    ELSE UNCHANGED <<slot, cache, refs, floating>>

\* scm_gtype_instance_unbind
Unbind(w) ==
    IF slot[w] \in Instances
    THEN /\ slot' = [slot EXCEPT ![w] = "destroyed"]
         /\ cache' = [cache EXCEPT ![slot[w]] = None]
         /\ refs' = [refs EXCEPT ![slot[w]] = @ - 1]
         /\ floating' = [floating EXCEPT ![slot[w]] = @ /\ refs[slot[w]] > 1]
    ELSE UNCHANGED <<slot, cache, refs, floating>>

-----------------------------------------------------------------------------
(* (make <class> ...) *)

\* allocate-instance: a wrapper whose slots[0] is SCM_UNBOUND.
AllocateInstance(w) ==
    /\ Fresh(w)
    /\ held' = held \cup {w}
    /\ slot' = [slot EXCEPT ![w] = "unbound"]
    /\ UNCHANGED <<cvars, queued, newvars, pend>>

\* What g_type_create_instance starts with, for both callers of g_object_new.
\* The first reference on a toplevel belongs to GTK, not to the caller.
NewInstance(t, i, n, k) ==
    /\ Idle(t)
    /\ Len(calls[t]) < MaxDepth
    /\ refs[i] = 0
    /\ refs' = [refs EXCEPT ![i] = 1]
    /\ floating' = [floating EXCEPT ![i] = (k = "floating")]
    /\ crefs' = [crefs EXCEPT ![i] = IF k = "toplevel" THEN 1 ELSE 0]
    /\ calls' = [calls EXCEPT ![t] = Append(@, i)]
    /\ todo' = [todo EXCEPT ![i] = n]
    /\ kind' = [kind EXCEPT ![i] = k]

\* %gtype-instance-construct on a wrapper without an instance, up to the
\* instance inits that g_object_newv runs.  A bad init keyword throws before
\* the push and changes nothing.
Construct(t, w, i, n, k) ==
    /\ w \in held
    /\ slot[w] \notin Instances
    /\ ~UnderConstruction(w)
    /\ NewInstance(t, i, n, k)
    /\ by' = [by EXCEPT ![i] = w]
    /\ fluid' = [fluid EXCEPT ![t] = <<w>> \o @]
    /\ UNCHANGED <<cache, slot, gcvars, pend>>

\* g_object_new called by C code, perhaps while Scheme constructs an object.
GObjectNew(t, i, n, k) ==
    /\ n > 0 /\ fluid[t] # <<>> => "nested" \in Env
    /\ n > 0 /\ k = "floating" => "cfloat" \in Env
    /\ NewInstance(t, i, n, k)
    /\ UNCHANGED <<cache, slot, gcvars, fluid, by, pend>>

\* scm_with_c_gtype_instance_instance_init, once per Scheme-defined level.
InstanceInit(t) ==
    /\ Idle(t)
    /\ calls[t] # <<>>
    /\ LET i == Current(t) IN
       /\ todo[i] > 0
       /\ todo' = [todo EXCEPT ![i] = @ - 1]
       /\ \/ /\ InConstructionFromScheme(t) # None
             /\ BindToObject(i, InConstructionFromScheme(t), 0)
             /\ UNCHANGED gcvars
          \/ /\ InConstructionFromScheme(t) = None
             /\ cache[i] # None
             /\ UNCHANGED <<refs, floating, cache, slot, gcvars>>
          \/ /\ InConstructionFromScheme(t) = None
             /\ cache[i] = None
             /\ \E w \in Wrappers :
                   /\ Fresh(w)
                   /\ BindToObject(i, w, 0)
                   /\ held' = held \cup {w}
             /\ UNCHANGED queued
    /\ UNCHANGED <<crefs, fluid, calls, by, kind, pend>>

PopInConstruction(t) == fluid' = [fluid EXCEPT ![t] = Tail(@)]

\* Mutant: no post-make function registered for toplevels.
NoPostMake(i) == 1

\* post_make_object refs a toplevel, construct then drops the reference that
\* g_object_newv returned: together, what is left to drop.
AfterPostMake(i) == IF kind[i] = "toplevel" THEN 0 ELSE 1

\* Mutant: bind without asking whether an instance init already did.
NeverBoundInInit(i) == FALSE

BoundInInit(i) == slot[by[i]] = i

\* The rest of scm_c_gobject_construct and %gtype-instance-construct: pop,
\* post_make_object, bind unless an instance init did, and the unref.
FinishConstruct(t) ==
    /\ Idle(t)
    /\ calls[t] # <<>>
    /\ LET i == Current(t) IN
       /\ todo[i] = 0
       /\ by[i] # None
       /\ \/ /\ ~BoundInInit(i)
             /\ BindToObject(i, by[i], AfterPostMake(i))
          \/ /\ BoundInInit(i)
             /\ refs' = [refs EXCEPT ![i] = @ - AfterPostMake(i)]
             /\ UNCHANGED <<floating, cache, slot>>
       /\ by' = [by EXCEPT ![i] = None]
       /\ kind' = [kind EXCEPT ![i] = "none"]
    /\ PopInConstruction(t)
    /\ calls' = [calls EXCEPT ![t] = SubSeq(@, 1, Len(@) - 1)]
    /\ UNCHANGED <<crefs, gcvars, todo, pend>>

\* g_object_new returns to the C code that called it, which from now on owns
\* the reference, or sinks it if the type says that it is floating.
FinishGObjectNew(t) ==
    /\ Idle(t)
    /\ calls[t] # <<>>
    /\ todo[Current(t)] = 0
    /\ by[Current(t)] = None
    /\ calls' = [calls EXCEPT ![t] = SubSeq(@, 1, Len(@) - 1)]
    /\ kind' = [kind EXCEPT ![Current(t)] = "none"]
    /\ crefs' = [crefs EXCEPT ![Current(t)] =
                    IF kind[Current(t)] = "plain" THEN @ + 1 ELSE @]
    /\ UNCHANGED <<refs, floating, cache, slot, gcvars, fluid, by, todo, pend>>

-----------------------------------------------------------------------------
(* scm_c_gtype_instance_to_scm *)

\* The generated code for a `caller-owned' result drops the reference it was
\* given once the value is wrapped.
DropResult(i) ==
    crefs' = [crefs EXCEPT ![i] = IF floating[i] THEN @ ELSE @ - 1]

\* Which instances a function or a callback can give to thread t: one that C
\* code holds, or one this thread is creating.
MayReturn(t, i, drop) ==
    /\ Idle(t)
    /\ refs[i] > 0
    /\ ~Dropping(i)
    /\ drop => ~Borrowed(i)
    /\ \/ ~InNew(i) /\ (crefs[i] > 0 \/ (drop /\ floating[i]))
       \/ i \in Calling(t) /\ ~drop /\ (cache[i] # None \/ "early" \in Env)

\* get_cached finds a wrapper, which the program gets to hold (again).
ToScmCached(t, i, drop) ==
    /\ MayReturn(t, i, drop)
    /\ cache[i] # None
    /\ cache[i] \in queued => cache[i] \in held \/ "resurrect" \in Env
    /\ held' = held \cup {cache[i]}
    /\ IF drop THEN Unref(i) /\ DropResult(i)
       ELSE UNCHANGED cvars
    /\ UNCHANGED <<slot, queued, newvars, pend>>

\* get_cached finds none; class lookup and allocation come next.
ToScmMiss(t, i, drop) ==
    /\ MayReturn(t, i, drop)
    /\ cache[i] = None
    /\ pend' = [pend EXCEPT ![t] = [inst |-> i, drop |-> drop]]
    /\ UNCHANGED <<cvars, slot, gcvars, newvars>>

\* The new wrapper is bound and initialized; slots[0] is set, so initialize
\* does not construct.
ToScmBind(t, w) ==
    /\ pend[t] # None
    /\ Fresh(w)
    /\ LET i == pend[t].inst IN
       /\ BindToObject(i, w, IF pend[t].drop THEN 1 ELSE 0)
       /\ IF pend[t].drop THEN DropResult(i) ELSE UNCHANGED crefs
    /\ held' = held \cup {w}
    /\ pend' = [pend EXCEPT ![t] = None]
    /\ UNCHANGED <<queued, newvars>>

-----------------------------------------------------------------------------
(* The end of a wrapper *)

\* gtype-instance-destroy!
DestroyX(t, w) ==
    /\ Idle(t)
    /\ w \in held
    /\ slot[w] \in Instances
    /\ ~InNew(slot[w])
    /\ Unbind(w)
    /\ UNCHANGED <<crefs, gcvars, newvars, pend>>

\* The program lets go of w, and the collector notices and schedules
\* scm_gtype_instance_struct_free.
Collect(w) ==
    /\ w \in held
    /\ w \notin queued
    /\ ~UnderConstruction(w)
    /\ held' = held \ {w}
    /\ queued' = queued \cup {w}
    /\ UNCHANGED <<cvars, slot, newvars, pend>>

\* scm_gtype_instance_struct_free
Finalize(w) ==
    /\ w \in queued
    /\ queued' = queued \ {w}
    /\ Unbind(w)
    /\ UNCHANGED <<crefs, held, newvars, pend>>

-----------------------------------------------------------------------------
(* C code that takes and drops references of its own *)

\* g_object_ref_sink
CRef(i) ==
    /\ refs[i] > 0
    /\ ~InNew(i)
    /\ ~Borrowed(i)
    /\ KnownToC(i)
    /\ crefs[i] < MaxCRefs
    /\ crefs' = [crefs EXCEPT ![i] = @ + 1]
    /\ refs' = [refs EXCEPT ![i] = IF floating[i] THEN @ ELSE @ + 1]
    /\ floating' = [floating EXCEPT ![i] = FALSE]
    /\ UNCHANGED <<cache, slot, gcvars, newvars, pend>>

\* g_object_unref
CUnref(i) ==
    /\ crefs[i] > 0
    /\ ~InNew(i)
    /\ ~Borrowed(i)
    /\ crefs' = [crefs EXCEPT ![i] = @ - 1]
    /\ Unref(i)
    /\ UNCHANGED <<slot, gcvars, newvars, pend>>

-----------------------------------------------------------------------------
Next ==
    \/ \E w \in Wrappers :
          AllocateInstance(w) \/ Collect(w) \/ Finalize(w)
    \/ \E i \in Instances : CRef(i) \/ CUnref(i)
    \/ \E t \in Threads :
          \/ InstanceInit(t) \/ FinishConstruct(t) \/ FinishGObjectNew(t)
          \/ \E w \in Wrappers : ToScmBind(t, w) \/ DestroyX(t, w)
          \/ \E i \in Instances, n \in Levels, k \in Kinds :
                \/ GObjectNew(t, i, n, k)
                \/ \E w \in Wrappers : Construct(t, w, i, n, k)
          \/ \E i \in Instances, drop \in BOOLEAN :
                ToScmCached(t, i, drop) \/ ToScmMiss(t, i, drop)

Spec == Init /\ [][Next]_vars

\* Guile runs the finalizers it has scheduled.
FairSpec == Spec /\ \A w \in Wrappers : WF_vars(Finalize(w))
-----------------------------------------------------------------------------
(* Correctness *)

\* References with somebody who will drop them: the bound wrappers, C code,
\* and whoever sinks a floating reference or receives the new object.
NewRef(i) ==
    IF floating[i] \/ kind[i] \in {"plain", "floating"} THEN 1 ELSE 0
Accounted(i) == Cardinality(BoundTo(i)) + crefs[i] + NewRef(i)

\* No instance is freed while a wrapper's slots[0] points at it, C code holds
\* a reference or a construction will still use it: every unref in unbind,
\* construct and the generated code drops a reference its caller owns.
NoUseAfterFree == \A i \in Instances : refs[i] >= Accounted(i)

\* No reference is taken that nobody will drop, so that an instance goes away
\* when its wrapper is collected and C code is done with it.
NoLeak == \A i \in Instances : refs[i] <= Accounted(i)

\* gtype.c:520: as long as a wrapper is bound, any callback or function that
\* returns its instance returns that same wrapper; so no instance has two.
SameWrapper ==
    \A w \in Wrappers : slot[w] \in Instances => cache[slot[w]] = w

\* The weak qdata pointer never leads to a wrapper that is gone or that
\* stands for another instance: unbind clears it in time.
CacheCoherent ==
    \A i \in Instances :
        cache[i] # None => slot[cache[i]] = i /\ ~Fresh(cache[i])

\* gobject.c:201-203: what instance_init reads from the fluid is the wrapper
\* of the innermost construction from Scheme that has not returned, so push
\* and pop match whatever g_object_newv runs.
FluidMatchesCalls ==
    \A t \in Threads :
        LET fromScheme == SelectSeq(calls[t], LAMBDA i : by[i] # None)
            n == Len(fromScheme)
        IN fluid[t] = [k \in 1..n |-> by[fromScheme[n + 1 - k]]]

\* gobject.c:248-250: g_object_new called by C code gets a Scheme object of its
\* own, not one that Scheme is constructing for another instance.
NewObjectGetsOwnWrapper ==
    \A i \in Instances :
        by[i] = None /\ cache[i] # None => ~UnderConstruction(cache[i])

\* gobject.c:242-255: the wrapper under construction never stands for another
\* instance than its own, whatever is created meanwhile.
ConstructionKeepsWrapper ==
    \A i \in Instances :
        by[i] # None /\ slot[by[i]] \in Instances => slot[by[i]] = i

\* gtype.c:556: garbage collection takes care of resource management: the
\* program never loses, by a finalizer, an object it holds.
HeldStaysBound ==
    [][\A w \in held \cap queued :
          slot[w] \in Instances => w \in queued' \/ slot'[w] = slot[w]]_vars

\* gtype.c:553: destroy! releases all references that the wrapper has.
DestroyReleasesAll ==
    [][\A t \in Threads, w \in Wrappers, i \in Instances :
          slot[w] = i /\ DestroyX(t, w) => refs'[i] = Accounted(i)']_vars

\* gobject.c:250-252: instance_init associates a Scheme object with the
\* instance as long as the instance is alive.
AssociatedWhileAlive ==
    [][\A i \in Instances :
          cache[i] # None /\ refs[i] > 0 /\ refs'[i] > 0
            => \/ cache'[i] = cache[i]
               \/ \E t \in Threads : DestroyX(t, cache[i])]_vars

\* Once C code is done with an instance and every wrapper of it has been found
\* unreachable, the instance is freed.
Garbage(i) ==
    /\ refs[i] > 0
    /\ crefs[i] = 0
    /\ NewRef(i) = 0
    /\ ~InNew(i)
    /\ BoundTo(i) \subseteq queued \ held
GarbageIsFreed == \A i \in Instances : Garbage(i) ~> refs[i] = 0

\* What the rest of the program may rely on: see WrapperIdentity.
view == [i \in Instances |->
            IF BoundTo(i) = {} THEN None ELSE CHOOSE w \in BoundTo(i) : TRUE]
Identity == INSTANCE WrapperIdentity WITH
    alive <- {i \in Instances : refs[i] > 0},
    view <- view
RefinesIdentity == Identity!Spec
=============================================================================
