---------------------------- MODULE CorbaServants ----------------------------
(***************************************************************************)
(* corba/gnome/corba: guile-gnome-corba-primitives.c, -generic.c and       *)
(* guile-gnome-corba.c.  Opening an imodule makes a stub class and a POA   *)
(* class for each of its interfaces and a generic for each of their        *)
(* operations; programs derive classes from the POA classes and make       *)
(* servants of them; the ORB finds the generic of an operation through     *)
(* impl_finder_func and calls it through scm_c_generic_skel_func.          *)
(*                                                                         *)
(* The stub class of an interface and its POA class have the same parents, *)
(* so one precedence list stands for both.  Names of operations are unique *)
(* along inheritance, as IDL demands, and OpsOf gives each its interface.  *)
(***************************************************************************)
EXTENDS Naturals, Sequences, FiniteSets, SequencesExt, Functions

CONSTANTS
    Bases,        \* [interface -> base_interfaces, but the last, CORBA::Object]
    OpsOf,        \* [interface -> set of its own operations]
    InterfacesOf, \* [imodule -> sequence of the interfaces that it lists]
    TypesOf,      \* [imodule -> sequence of the enumerations and aliases of them]
    EnumOf,       \* [type -> the enumeration that is left without its aliases]
    Wide,         \* the types whose GType does not fit an int: GLib makes it from
                  \* an address, so that on a machine of 64 bits any may be one
    Supers,       \* [class of the program -> its superclasses, in order]
    Implements,   \* the <<class, operation>> the program may define a method for
    Instantiable, \* the classes the program makes servants of
    Servants,     \* addresses of GuilePortableServer_Servants
    None,
    MaxDepth      \* bound: calls in progress

Interfaces == DOMAIN Bases
Modules == DOMAIN InterfacesOf
Types == DOMAIN EnumOf
Classes == DOMAIN Supers
AllClasses == Classes \cup Interfaces
Ops == UNION {OpsOf[i] : i \in Interfaces}
Owner(op) == CHOOSE i \in Interfaces : op \in OpsOf[i]

ASSUME InterfacesAssumption ==
    /\ Bases \in [Interfaces -> Seq(Interfaces)] /\ DOMAIN OpsOf = Interfaces
    /\ \A i, j \in Interfaces : i # j => OpsOf[i] \cap OpsOf[j] = {}
ASSUME ModulesAssumption ==
    /\ InterfacesOf \in [Modules -> Seq(Interfaces)]
    /\ TypesOf \in [Modules -> Seq(Types)] /\ EnumOf \in [Types -> Types]
    /\ \A t \in Types : EnumOf[EnumOf[t]] = EnumOf[t]
    /\ Wide \subseteq Types
ASSUME ClassesAssumption ==
    /\ IsFiniteSet(AllClasses) /\ Classes \cap Interfaces = {}
    /\ Supers \in [Classes -> Seq(AllClasses)]
    /\ Implements \subseteq AllClasses \X Ops /\ Instantiable \subseteq AllClasses
ASSUME NoneAssumption == None \notin AllClasses /\ None \notin Types
ASSUME BoundsAssumption == MaxDepth \in Nat

VARIABLES
    loaded,  \* the imodules whose typelib is loaded
    order,   \* the interfaces in iinterface_hash, in order of registration
    epv,     \* epv[i]: the operations in interface->epv_hash
    cpl,     \* cpl[c]: class precedence list of class c, <<>> before there is one
    gtype,   \* typecode_type_hash: [type -> the name of its GType, None for 0]
    names,   \* the names under which GLib knows an enumeration
    methods, \* the <<class, operation>> that have a method of the program
    servant, \* the servants
    calls,   \* the calls in progress, innermost last
    told,    \* what the last client was told, and what its method had raised
    crashed  \* freed memory was used, or an address that is none

registry == <<loaded, order, epv, cpl, gtype, names>>
vars == <<loaded, order, epv, cpl, gtype, names, methods, servant, calls, told, crashed>>

Frames == [servant : Servants, op : Ops,
           at : {"found", "running", "waiting", "thrown"},
           todo : SUBSET AllClasses]

\* The classes there are
Known(lists) == {c \in AllClasses : lists[c] # <<>>}

TypeOK ==
    /\ loaded \subseteq Modules
    /\ order \in Seq(Interfaces) /\ IsInjective(order)
    /\ epv \in [Interfaces -> SUBSET Ops]
    /\ cpl \in [AllClasses -> Seq(AllClasses)]
    /\ ToSet(order) = Known(cpl) \cap Interfaces
    /\ \A c \in Known(cpl) : cpl[c][1] = c /\ ToSet(cpl[c]) \subseteq Known(cpl)
    /\ gtype \in [Types -> Types \cup {None}] /\ names \subseteq Types
    /\ methods \subseteq Implements
    /\ servant \in [Servants -> [class : AllClasses \cup {None}, kept : BOOLEAN,
                                 referenced : BOOLEAN, state : {"none", "active", "freed"}]]
    /\ calls \in Seq(Frames) /\ Len(calls) <= MaxDepth
    /\ crashed \in BOOLEAN

NoServant == [class |-> None, kept |-> FALSE, referenced |-> FALSE, state |-> "none"]
NotYet == [outcome |-> "none", raised |-> "none"]

Init ==
    /\ loaded = {}
    /\ order = <<>>
    /\ epv = [i \in Interfaces |-> {}]
    /\ cpl = [c \in AllClasses |-> <<>>]
    /\ gtype = [t \in Types |-> None] /\ names = {}
    /\ methods = {}
    /\ servant = [s \in Servants |-> NoServant]
    /\ calls = <<>> /\ told = NotYet /\ crashed = FALSE

-----------------------------------------------------------------------------
(* Classes: GOOPS merges the precedence lists of the superclasses, and     *)
(* make-class throws when they cannot be merged.                           *)

\* One class of the merge: the first head that no list has further down
MergeStep(m) ==
    LET heads == {k \in DOMAIN m.left : m.left[k] # <<>>}
        free == {k \in heads : \A j \in heads : Head(m.left[k]) \notin ToSet(Tail(m.left[j]))}
        class == Head(m.left[Min(free)])
        Rest(l) == IF l # <<>> /\ Head(l) = class THEN Tail(l) ELSE l
    IN CASE heads = {} -> m
         [] heads # {} /\ free = {} -> [done |-> Append(m.done, None), left |-> <<>>]
         [] free # {} -> [done |-> Append(m.done, class),
                          left |-> [k \in DOMAIN m.left |-> Rest(m.left[k])]]

Merge(lists) ==
    FoldLeft(LAMBDA m, k : MergeStep(m), [done |-> <<>>, left |-> lists],
             [k \in 1..Cardinality(AllClasses) |-> k]).done

Linearize(class, supers, known) ==
    <<class>> \o Merge([k \in DOMAIN supers |-> known[supers[k]]] \o <<supers>>)

Consistent(list) == None \notin ToSet(list)

-----------------------------------------------------------------------------
(* Registration *)

\* The tables that opening an imodule extends; stopped once a throw left it.
Tables == [order |-> order, epv |-> epv, cpl |-> cpl, gtype |-> gtype, names |-> names,
           stopped |-> FALSE]

KnownBases(t, i) == ToSet(Bases[i]) \cap ToSet(t.order)

\* Mutant: each base replaces the parents so far.
ParentsLast(t, i) ==
    FoldLeft(LAMBDA parents, b : IF b \in KnownBases(t, i) THEN <<b>> ELSE parents,
             <<>>, Bases[i])

\* Each base goes before the parents so far (and before the root class).
Parents(t, i) ==
    FoldLeft(LAMBDA parents, b : IF b \in KnownBases(t, i) THEN <<b>> \o parents ELSE parents,
             <<>>, Bases[i])

\* Mutant: the operations of the last base only, if it is known.
InheritedEpvLast(t, i) == UNION {OpsOf[b] : b \in {k \in KnownBases(t, i) : k = Last(Bases[i])}}

\* Only the base's own operations are taken over, for each known base.
InheritedEpv(t, i) == UNION {OpsOf[b] : b \in KnownBases(t, i)}

\* guile_corba_sys_register_interface
RegisterInterface(t, i) ==
    LET list == Linearize(i, Parents(t, i), t.cpl) IN
    CASE t.stopped \/ i \in ToSet(t.order) -> t
      [] ~Consistent(list) -> [t EXCEPT !.stopped = TRUE]
      [] OTHER -> [t EXCEPT !.epv[i] = InheritedEpv(t, i) \cup OpsOf[i],
                            !.cpl[i] = list,
                            !.order = Append(@, i)]

\* What g_enum_register_static returns: 0 when the name is known already.
NewGType(t, ty) == IF ty \in t.names THEN None ELSE ty

\* Mutant: without the lookup
TypecodeToTypeAlways(t, ty) ==
    IF t.stopped THEN t
    ELSE [t EXCEPT !.gtype[EnumOf[ty]] = NewGType(t, ty), !.names = @ \cup {ty}]

\* guile_corba_generic_typecode_to_type looks a type up under its own id and
\* stores what it registers under the id of the enumeration.  The table keeps
\* the whole GType.  (Its lower half is taken not to be 0.)
TypecodeToType(t, ty) ==
    IF t.stopped \/ t.gtype[ty] # None THEN t
    ELSE [t EXCEPT !.gtype[EnumOf[ty]] = NewGType(t, ty), !.names = @ \cup {ty}]

Adopt(t) ==
    /\ order' = t.order /\ epv' = t.epv /\ cpl' = t.cpl
    /\ gtype' = t.gtype /\ names' = t.names

\* Scheme code of the program runs: at top level or in a method.
SchemeRuns ==
    /\ ~crashed
    /\ calls # <<>> => Last(calls).at = "running"

AtTop == SchemeRuns /\ calls = <<>>

\* corba-primitive-open-module
OpenModule(m) ==
    /\ AtTop
    /\ LET t == FoldLeft(TypecodeToType, FoldLeft(RegisterInterface, Tables, InterfacesOf[m]),
                         TypesOf[m])
       IN Adopt(t)
    /\ loaded' = loaded \cup {m}
    /\ UNCHANGED <<methods, servant, calls, told, crashed>>

\* corba-primitive-register-interface: a repository id that no loaded typelib
\* has is not registered, without an error.
RegisterByName(i) ==
    /\ AtTop /\ \E m \in loaded : i \in ToSet(InterfacesOf[m])
    /\ Adopt(RegisterInterface(Tables, i))
    /\ UNCHANGED <<loaded, methods, servant, calls, told, crashed>>

\* corba-typecode->gtype-class, with any typecode that reached the program;
\* scm_c_corba_demarshal_any comes to the same for a value of an enumeration.
\* A GType that is found in the table comes back as an int, and GLib takes what
\* is left of a wide one for an address.
TypecodeToGtypeClass(ty) ==
    /\ AtTop
    /\ Adopt(TypecodeToType(Tables, ty))
    /\ crashed' = (gtype[ty] \in Wide)
    /\ UNCHANGED <<loaded, methods, servant, calls, told>>

-----------------------------------------------------------------------------
(* The program's classes, methods and servants *)

DefineClass(c) ==
    /\ AtTop /\ c \notin Known(cpl) /\ ToSet(Supers[c]) \subseteq Known(cpl)
    /\ LET list == Linearize(c, Supers[c], cpl) IN
         Consistent(list) /\ cpl' = [cpl EXCEPT ![c] = list]
    /\ UNCHANGED <<loaded, order, epv, gtype, names, methods, servant, calls, told, crashed>>

\* define-method, on the generic that the operation's interface got
DefineMethod(c, op) ==
    /\ SchemeRuns /\ c \in Known(cpl) /\ Owner(op) \in ToSet(order)
    /\ methods' = methods \cup {<<c, op>>} /\ methods' # methods
    /\ UNCHANGED <<loaded, order, epv, cpl, gtype, names, servant, calls, told, crashed>>

\* Mutant: the last such class
PoaClassLast(c) == cpl[c][SelectLastInSeq(cpl[c], LAMBDA k : k \in Interfaces)]

\* The first class of a list that is in a set
First(list, set) == list[SelectInSeq(list, LAMBDA k : k \in set)]

\* corba-primitive-find-poa-class: the first class of the precedence list
\* that has an interface of its own.
PoaClass(c) == First(cpl[c], Interfaces)

\* corba-primitive-make-poa-instance
MakeServant(s, c) ==
    /\ SchemeRuns /\ servant[s].state = "none"
    /\ c \in Instantiable \cap Known(cpl)
    /\ servant' = [servant EXCEPT ![s] = [class |-> c, kept |-> TRUE, referenced |-> FALSE,
                                          state |-> "active"]]
    /\ UNCHANGED <<registry, methods, calls, told, crashed>>

\* corba-servant->reference.  The reference does not keep the servant.
ServantToReference(s) ==
    /\ SchemeRuns /\ servant[s].kept /\ ~servant[s].referenced
    /\ servant' = [servant EXCEPT ![s].referenced = TRUE]
    /\ UNCHANGED <<registry, methods, calls, told, crashed>>

Forget(s) ==
    /\ SchemeRuns /\ servant[s].kept
    /\ servant' = [servant EXCEPT ![s].kept = FALSE]
    /\ UNCHANGED <<registry, methods, calls, told, crashed>>

\* Mutant: the object is not read before the call.
OnStackNever(f) == {}

\* What a call in progress refers to from its stack frame: the argument list
\* of scm_c_generic_skel_func has the servant's object, once it is made.
OnStack(f) == IF f.at = "found" THEN {} ELSE {f.servant}

\* The collector runs at any allocation.  The object and the smob refer to
\* each other (guile_corba_portable_server_servant_mark), and nothing else
\* refers to the smob: guile_corba_portable_server_servant_free.
Collect(s) ==
    /\ ~crashed /\ servant[s].state = "active" /\ ~servant[s].kept
    /\ \A k \in DOMAIN calls : s \notin OnStack(calls[k])
    /\ servant' = [servant EXCEPT ![s].state = "freed"]
    /\ UNCHANGED <<registry, methods, calls, told, crashed>>

-----------------------------------------------------------------------------
(* Calls *)

Client == {"outside", "scheme"}

\* The stub of an operation applies to a reference whose class descends from
\* the stub class of the operation's interface; a client that was written
\* in another language knows all operations of the IDL.
StubAccepts(client, i, op) ==
    Owner(op) \in (IF client = "scheme" THEN ToSet(cpl[i]) ELSE ToSet(Bases[i]) \cup {i})

\* A client is told an outcome.  A method that waits for it goes on, or gets
\* the throw of scm_c_corba_handle_exception.
Answered(below, outcome, raised) ==
    /\ told' = [outcome |-> outcome, raised |-> raised]
    /\ calls' = IF below = <<>> \/ Last(below).at # "waiting" THEN below
                ELSE [below EXCEPT ![Len(below)].at = IF outcome = "ok" THEN "running" ELSE "thrown"]

\* The stack below a new call: a method that calls through a stub waits, one
\* that runs the main loop does not.
Below(client) ==
    IF calls = <<>> \/ client = "outside" THEN calls
    ELSE [calls EXCEPT ![Len(calls)].at = "waiting"]

\* ORBit_small_invoke_stub (corba-primitive-invoke-method) or a request from
\* another process: the ORB looks the servant up and asks impl_finder_func.
Call(client, s, op) ==
    /\ SchemeRuns /\ Len(calls) < MaxDepth
    /\ servant[s].referenced /\ StubAccepts(client, PoaClass(servant[s].class), op)
    /\ CASE servant[s].state = "freed" -> Answered(Below(client), "OBJECT_NOT_EXIST", "none")
         [] op \notin epv[PoaClass(servant[s].class)] ->
              Answered(Below(client), "BAD_OPERATION", "none")
         [] OTHER -> /\ calls' = Append(Below(client), [servant |-> s, op |-> op, at |-> "found",
                                                        todo |-> {}])
                     /\ UNCHANGED told
    /\ UNCHANGED <<registry, methods, servant, crashed>>

Top == Last(calls)
SetTop(f) == calls' = [calls EXCEPT ![Len(calls)] = f]
Return(outcome, raised) == Answered(Front(calls), outcome, raised)

\* scm_compute_applicable_methods of the operation's generic: the classes of
\* the methods, which are called in the order of the precedence list
Applicable(s, op) == {c \in ToSet(cpl[servant[s].class]) : <<c, op>> \in methods}

\* scm_c_generic_skel_func has written poa_vector to the output port, which
\* allocates, and reads gservant->this.
Enter ==
    /\ ~crashed /\ calls # <<>> /\ Top.at = "found"
    /\ LET todo == Applicable(Top.servant, Top.op) IN
       IF servant[Top.servant].state = "freed"
       THEN crashed' = TRUE /\ UNCHANGED <<calls, told>>
       ELSE /\ crashed' = FALSE
            /\ IF todo = {} THEN Return("NO_IMPLEMENT", "none")
               ELSE SetTop([Top EXCEPT !.at = "running", !.todo = todo]) /\ UNCHANGED told
    /\ UNCHANGED <<registry, methods, servant>>

Running == ~crashed /\ calls # <<>> /\ Top.at = "running"

MethodReturns ==
    /\ Running /\ Return("ok", "none")
    /\ UNCHANGED <<registry, methods, servant, crashed>>

\* scm_c_generic_skel_func_exception sets nothing for the tags of CORBA
\* exceptions: to the ORB the call has returned.
Caught(tag) == Return(IF tag = "corba" THEN "ok" ELSE "UNKNOWN", tag)

MethodRaises(tag) ==
    /\ Running /\ Caught(tag)
    /\ UNCHANGED <<registry, methods, servant, crashed>>

\* (next-method): the next applicable method, or the error no-next-method
NextMethod ==
    /\ Running
    /\ LET later == Top.todo \ {First(cpl[servant[Top.servant].class], Top.todo)} IN
       IF later # {} THEN SetTop([Top EXCEPT !.todo = later]) /\ UNCHANGED told
       ELSE Caught("no-next-method")
    /\ UNCHANGED <<registry, methods, servant, crashed>>

\* The method catches the exception of the call it made, or leaves with it.
Catch ==
    /\ ~crashed /\ calls # <<>> /\ Top.at = "thrown"
    /\ SetTop([Top EXCEPT !.at = "running"])
    /\ UNCHANGED <<registry, methods, servant, told, crashed>>

Propagate ==
    /\ ~crashed /\ calls # <<>> /\ Top.at = "thrown"
    /\ Caught("corba")
    /\ UNCHANGED <<registry, methods, servant, crashed>>

-----------------------------------------------------------------------------
Next ==
    \/ \E m \in Modules : OpenModule(m)
    \/ \E i \in Interfaces : RegisterByName(i)
    \/ \E ty \in Types : TypecodeToGtypeClass(ty)
    \/ \E c \in Classes : DefineClass(c)
    \/ \E im \in Implements : DefineMethod(im[1], im[2])
    \/ \E s \in Servants : ServantToReference(s) \/ Forget(s) \/ Collect(s)
    \/ \E s \in Servants, c \in Instantiable : MakeServant(s, c)
    \/ \E client \in Client, s \in Servants, op \in Ops : Call(client, s, op)
    \/ Enter \/ MethodReturns \/ NextMethod \/ Catch \/ Propagate
    \/ \E tag \in {"corba", "other"} : MethodRaises(tag)

Spec == Init /\ [][Next]_vars

-----------------------------------------------------------------------------
(* Properties *)

Before(a, i) ==
    \E j, k \in DOMAIN order : order[j] = a /\ order[k] = i /\ j < k

\* An interface serves the operations of an ancestor, near or far, exactly
\* when that ancestor was registered before it: an imodule opened too late
\* leaves its operations out for ever, and nothing else does.
\* (guile_corba_sys_register_interface takes over only the own operations
\* of each base it knows)
InheritedOps ==
    \A i \in ToSet(order) : \A op \in Ops \ OpsOf[i] :
        op \in epv[i] <=> (Owner(op) \in ToSet(Bases[i]) /\ Before(Owner(op), i))

\* What a stub of Scheme lets through, the skeleton knows: the classes that
\* dispatch on one side and the epv_hash on the other were built from the
\* same bases.
StubsMatchSkeletons ==
    \A i \in ToSet(order), op \in Ops : StubAccepts("scheme", i, op) <=> op \in epv[i]

\* A method that a program defines for an operation of a servant's class can
\* be called: when one of the POA classes it descends from descends from all
\* the others, that one is found.
\* (corba-primitive-find-poa-class, impl_finder_func)
ImplementedOpsServed ==
    \A s \in Servants : servant[s].state = "active" =>
        LET list == ToSet(cpl[servant[s].class])
            poas == list \cap Interfaces
        IN (\E i \in poas : poas \subseteq ToSet(cpl[i])) =>
             \A op \in Ops : (\E c \in list : <<c, op>> \in methods /\ Owner(op) \in ToSet(cpl[c]))
                 => op \in epv[PoaClass(servant[s].class)]

\* The servant whose method runs, at any depth of calls, is not freed, even
\* when the program has forgotten it in the meantime.
\* (scm_c_generic_skel_func, guile_corba_portable_server_servant_free)
RunningServantAlive ==
    \A k \in DOMAIN calls : calls[k].at # "found" => servant[calls[k].servant].state = "active"

\* The names under which an enumeration was registered: its own, or an alias
KnownAs(e) == {a \in names : EnumOf[a] = e}

\* The table has no GType of another enumeration for one; and one that was
\* never met by way of an alias has its own as soon as it is known and for
\* ever, however often imodules are opened, whatever converts its typecode.
\* (guile_corba_generic_typecode_to_type)
EnumsKeepType ==
    \A e \in Types : EnumOf[e] = e =>
        /\ gtype[e] \in KnownAs(e) \cup {None}
        /\ KnownAs(e) \subseteq {e} => {gtype[e]} \ {None} = KnownAs(e)

\* An alias does not take an enumeration's GType away.
\* (the lookup that begins guile_corba_generic_typecode_to_type)
AliasesAreFound == [][\A e \in Types : gtype[e] # None => gtype'[e] = gtype[e]]_vars

\* An exception that a method raises reaches its client.
\* (the commentary of corba.scm on calling methods)
ErrorsReachClient == told.raised # "none" => told.outcome # "ok"

\* The skeleton uses no servant that was freed, and GLib no half of a GType:
\* it holds only for programs that keep their servants, and where a GType fits
\* an int.
NoWildPointer == ~crashed

\* The two slots of interface->vepv take an entry for each known base: they
\* do only without multiple inheritance.
VepvFits == \A i \in ToSet(order) : Cardinality(KnownBases(Tables, i)) + 1 <= 2

\* (next-method) in the last method yields NO_IMPLEMENT.
\* (the commentary of corba.scm on implementing servants)
NextMethodNotImplemented == told.raised = "no-next-method" => told.outcome = "NO_IMPLEMENT"

=============================================================================
