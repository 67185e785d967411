------------------------------ MODULE Closures ------------------------------
(***************************************************************************)
(* glib/gnome/gobject/gclosure.c and gsignal.c: Scheme procedures as       *)
(* GClosures, connected to a signal of one object and called by its        *)
(* emissions.                                                              *)
(*                                                                         *)
(* A closure is owned by reference counts: the <gclosure> that Scheme has, *)
(* each handler it is connected with and each invocation in progress hold  *)
(* one.  The last release invalidates it, and free_closure then gives the  *)
(* protection of its procedure back to the table of gc.c (module GcMarker).*)
(* The main thread runs Scheme and emissions, which nest; the finalizer of *)
(* a <gclosure> runs between any two of their steps.                       *)
(***************************************************************************)
EXTENDS Naturals, Sequences, FiniteSets

CONSTANTS
    Closures,      \* addresses of GuileGClosures
    Procs,         \* Scheme procedures
    None,          \* SCM_UNDEFINED, no closure
    MaxHandlers,   \* bound: handlers connected in one behaviour
    MaxDepth       \* bound: nested emissions

ASSUME NoneAssumption == None \notin Closures \cup Procs
ASSUME BoundsAssumption == MaxHandlers \in Nat /\ MaxDepth \in Nat
ASSUME ClosuresAssumption == IsFiniteSet(Closures)

Handlers == 1..MaxHandlers

VARIABLES
    box,        \* box[c]: the <gclosure> that holds closure c
    refs,       \* refs[c]: ref_count of the GClosure, 0 when freed
    func,       \* func[c]: gclosure->func
    count,      \* count[p]: protections of procedure p in the table of gc.c
    conn,       \* conn[h]: closure of handler h, None once disconnected
    next,       \* the next handler id
    emissions,  \* the emissions in progress, innermost last
    disposed    \* the object has been disposed

vars == <<box, refs, func, count, conn, next, emissions, disposed>>

Frames == [limit : 1..(MaxHandlers + 1),       \* handlers from here on are too young
           last : 0..MaxHandlers,              \* the handler called last
           closure : Closures \cup {None},     \* the closure being invoked
           at : {"between", "converting", "calling"},
           proc : Procs \cup {None}]           \* what scm_apply was given

TypeOK ==
    /\ box \in [Closures -> {"none", "held", "dropped"}]
    /\ refs \in [Closures -> Nat]
    /\ func \in [Closures -> Procs \cup {None}]
    /\ count \in [Procs -> Nat]
    /\ conn \in [Handlers -> Closures \cup {None}]
    /\ next \in 1..(MaxHandlers + 1)
    /\ emissions \in Seq(Frames)
    /\ disposed \in BOOLEAN

Init ==
    /\ box = [c \in Closures |-> "none"]
    /\ refs = [c \in Closures |-> 0]
    /\ func = [c \in Closures |-> None]
    /\ count = [p \in Procs |-> 0]
    /\ conn = [h \in Handlers |-> None]
    /\ next = 1
    /\ emissions = <<>>
    /\ disposed = FALSE

-----------------------------------------------------------------------------
(* Releasing references *)

Top == emissions[Len(emissions)]

SetTop(f) == emissions' = [emissions EXCEPT ![Len(emissions)] = f]

\* Scheme runs: at top level, while a parameter becomes an instance (its
\* initialize methods) or inside a handler.
SchemeRuns == emissions # <<>> => Top.at # "between"

\* The closures whose last reference goes when drops[c] of each go.
Freed(drops) == {c \in Closures : drops[c] > 0 /\ refs[c] = drops[c]}

\* Mutant: func is cleared and not unprotected.
FreeWithoutUnprotect(dead) ==
    /\ func' = [c \in Closures |-> IF c \in dead THEN None ELSE func[c]]
    /\ UNCHANGED count

\* free_closure, for each closure of a set
FreeClosures(dead) ==
    /\ func' = [c \in Closures |-> IF c \in dead THEN None ELSE func[c]]
    /\ count' = [p \in Procs |->
                   count[p] - Cardinality({c \in dead : func[c] = p})]

\* g_closure_unref, drops[c] times: the last one invalidates the closure, and
\* its invalidate notifier is free_closure.
Unref(drops) ==
    /\ refs' = [c \in Closures |-> refs[c] - drops[c]]
    /\ FreeClosures(Freed(drops))

One(c) == [d \in Closures |-> IF d = c THEN 1 ELSE 0]

-----------------------------------------------------------------------------
(* Scheme *)

\* Mutant: g_value_set_boxed instead of g_value_take_boxed, which adds a
\* reference that nobody gives back.
RefsOfBoxedCopy == 2

\* g_closure_new_simple makes one floating reference, g_closure_ref and
\* g_closure_sink trade it for a real one, and g_value_take_boxed keeps it.
RefsOfNew == 1

\* (make <gclosure> #:func p): %gclosure-construct
Construct(c, p) ==
    /\ SchemeRuns
    /\ refs[c] = 0 /\ box[c] = "none"
    /\ count' = [count EXCEPT ![p] = @ + 1]
    /\ func' = [func EXCEPT ![c] = p]
    /\ refs' = [refs EXCEPT ![c] = RefsOfNew]
    /\ box' = [box EXCEPT ![c] = "held"]
    /\ UNCHANGED <<conn, next, emissions, disposed>>

\* gtype-instance-signal-connect-closure, with a <gclosure> that Scheme holds
Connect(c) ==
    /\ SchemeRuns
    /\ ~disposed
    /\ box[c] = "held"
    /\ next \in Handlers
    /\ conn' = [conn EXCEPT ![next] = c]
    /\ next' = next + 1
    /\ refs' = [refs EXCEPT ![c] = @ + 1]
    /\ UNCHANGED <<box, func, count, emissions, disposed>>

\* Mutant: the closure is invalidated with its handler, whoever still has it.
InvalidateWithHandler(h) ==
    /\ SchemeRuns
    /\ conn[h] # None
    /\ conn' = [conn EXCEPT ![h] = None]
    /\ refs' = [refs EXCEPT ![conn[h]] = @ - 1]
    /\ FreeClosures({conn[h]})
    /\ UNCHANGED <<box, next, emissions, disposed>>

\* gsignal-handler-disconnect
Disconnect(h) ==
    /\ SchemeRuns
    /\ conn[h] # None
    /\ conn' = [conn EXCEPT ![h] = None]
    /\ Unref(One(conn[h]))
    /\ UNCHANGED <<box, next, emissions, disposed>>

\* gtype-instance-signal-connect keeps no <gclosure>: Scheme lets go of it.
DropBox(c) ==
    /\ SchemeRuns
    /\ box[c] = "held"
    /\ box' = [box EXCEPT ![c] = "dropped"]
    /\ UNCHANGED <<refs, func, count, conn, next, emissions, disposed>>

\* The finalizer of the boxed value gives its reference back.
FinalizeBox(c) ==
    /\ box[c] = "dropped"
    /\ box' = [box EXCEPT ![c] = "none"]
    /\ Unref(One(c))
    /\ UNCHANGED <<conn, next, emissions, disposed>>

\* gclosure-invoke is modelled by the invocations of emissions: it, too, goes
\* through g_closure_invoke.

-----------------------------------------------------------------------------
(* Emissions *)

\* gtype-instance-signal-emit, or an emission by C
Emit ==
    /\ SchemeRuns
    /\ ~disposed
    /\ Len(emissions) < MaxDepth
    /\ emissions' = Append(emissions, [limit |-> next, last |-> 0, closure |-> None,
                                       at |-> "between", proc |-> None])
    /\ UNCHANGED <<box, refs, func, count, conn, next, disposed>>

\* Handlers the emission has still to call: connected now, before it began,
\* and not called by it yet.
ToCall(f) == {h \in Handlers : h > f.last /\ h < f.limit /\ conn[h] # None}

\* g_closure_invoke takes a reference and calls scm_gclosure_marshal.
Invoke(h) ==
    /\ emissions # <<>>
    /\ Top.at = "between"
    /\ h \in ToCall(Top)
    /\ \A g \in ToCall(Top) : h <= g
    /\ refs' = [refs EXCEPT ![conn[h]] = @ + 1]
    /\ SetTop([Top EXCEPT !.last = h, !.closure = conn[h], !.at = "converting"])
    /\ UNCHANGED <<box, func, count, conn, next, disposed>>

\* The parameters are Scheme values now; scm_apply gets what func holds.
Apply ==
    /\ emissions # <<>>
    /\ Top.at = "converting"
    /\ SetTop([Top EXCEPT !.at = "calling", !.proc = func[Top.closure]])
    /\ UNCHANGED <<box, refs, func, count, conn, next, disposed>>

\* The handler returns, or scm_with_guile catches its error; either way
\* g_closure_invoke ends and gives its reference back.
Return ==
    /\ emissions # <<>>
    /\ Top.at = "calling"
    /\ SetTop([Top EXCEPT !.at = "between", !.closure = None, !.proc = None])
    /\ Unref(One(Top.closure))
    /\ UNCHANGED <<box, conn, next, disposed>>

EndEmission ==
    /\ emissions # <<>>
    /\ Top.at = "between"
    /\ ToCall(Top) = {}
    /\ emissions' = SubSeq(emissions, 1, Len(emissions) - 1)
    /\ UNCHANGED <<box, refs, func, count, conn, next, disposed>>

\* The object is disposed, maybe by a handler: GLib disconnects all handlers.
Dispose ==
    /\ SchemeRuns
    /\ ~disposed
    /\ disposed' = TRUE
    /\ conn' = [h \in Handlers |-> None]
    /\ Unref([c \in Closures |-> Cardinality({h \in Handlers : conn[h] = c})])
    /\ UNCHANGED <<box, next, emissions>>

-----------------------------------------------------------------------------
Next ==
    \/ \E c \in Closures :
          \/ \E p \in Procs : Construct(c, p)
          \/ Connect(c) \/ DropBox(c) \/ FinalizeBox(c)
    \/ \E h \in Handlers : Disconnect(h) \/ Invoke(h)
    \/ Emit \/ Apply \/ Return \/ EndEmission \/ Dispose

Spec == Init /\ [][Next]_vars

\* Guile runs the finalizers of what it has collected, and emissions go on
\* as long as the handlers of the program return.
Fairness ==
    /\ \A c \in Closures : WF_vars(FinalizeBox(c))
    /\ WF_vars(Apply) /\ WF_vars(Return) /\ WF_vars(EndEmission)
    /\ \A h \in Handlers : WF_vars(Invoke(h))

FairSpec == Spec /\ Fairness
-----------------------------------------------------------------------------
(* Correctness *)

Owners(c) ==
    (IF box[c] = "none" THEN 0 ELSE 1)
    + Cardinality({h \in Handlers : conn[h] = c})
    + Cardinality({i \in 1..Len(emissions) : emissions[i].closure = c})

\* Each reference of a closure is somebody's: its <gclosure>, a handler or an
\* invocation.  One too many and the procedure stays protected for ever; one
\* too few and a handler's closure is freed under it.
RefsExact == \A c \in Closures : refs[c] = Owners(c)

\* The table of gc.c protects a procedure once for every closure that can
\* still call it, and no more: the calls of protect and unprotect balance
\* over connect, disconnect, disposal and finalization in any order.
ProtectionExact ==
    \A p \in Procs :
        count[p] = Cardinality({c \in Closures : refs[c] > 0 /\ func[c] = p})

\* scm_apply never gets SCM_UNDEFINED: a handler that disconnects itself, or
\* whose object is disposed, while its parameters are being converted is
\* still called with the procedure it was connected with.
AppliesProcedure ==
    \A i \in 1..Len(emissions) :
        emissions[i].at = "calling" => emissions[i].proc # None

\* Once an object is disposed and the program has dropped a <gclosure>, its
\* procedure is let go of when the handlers that still run have returned.
ReleasedAfterDispose ==
    \A c \in Closures :
        (disposed /\ box[c] = "dropped") ~> (refs[c] = 0 \/ box[c] = "held")
=============================================================================
