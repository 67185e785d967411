# Guile-GNOME in TLA+

Guile-GNOME lets Scheme programs use the GNOME libraries. The delicate part of
it is not the wrapping of some thousand functions, which is generated, but the
seam between two memory managers and two control flows: reference-counted C
objects against garbage-collected Scheme objects, and callbacks, finalizers,
signal handlers and main loops that re-enter each other across the C stack.
These modules model that seam, and the few components that keep buffers or
state machines of their own. Paths below are relative to the repository's root.

## 1. Inventory

| component | state it keeps | operations | what makes it correct | modules |
|---|---|---|---|---|
| instance wrappers: `glib/gnome/gobject/gtype.c`, `gobject.c` | `slots[0]` of each wrapper, the wrapper qdata of each GObject, the fluid `_in_construction_from_scheme`, one reference per bound wrapper | construct from Scheme and from C, to_scm, `gtype-instance-destroy!`, finalizer | one wrapper per instance as long as it is bound; each reference has one owner; nothing is freed in use | `InstanceWrapper`, `WrapperIdentity`, `InstanceWrapperProofs` |
| protection table: `gc.c` | hash table object -> count under a mutex, a permanent smob that marks it | protect, unprotect, mark | what GLib data structures hold lives; no update is lost | `GcMarker`, `ClosuresProofs` |
| closures and signals: `gclosure.c`, `gsignal.c` | GClosure and its procedure, handlers, emissions | construct, connect, disconnect, emit, invoke, finalize | protections balance; no call of a procedure that is gone | `Closures`, `ClosuresProofs` |
| callbacks: "function and data" in `glib-support.c` (IO watches), `gtk-support.c` (actions, radio actions, cell data functions, menu positions), `gconf-support.c` (notifications), `glade-support.c` (autoconnect), guarded by the helpers of `guile-support.c` | the registrations that the libraries hold, Guile's table of protections | register, replace, remove, call | a procedure that C may call is alive; each protection has its registration; no throw should cross a library's frames, and some do | `Callbacks`, `CallbacksProofs` |
| main loop: `glib/gnome/gw/glib-support.c` | `caught_intr`, `wakeup_context`, the SIGINT handler, one source per run | run, quit, SIGINT | handlers are given back, ^C stops a polling loop | `MainLoop`, `MainLoopProofs` |
| GnomeVFS ports: `gnome-vfs/gnome/gw/gnome-vfs-port.c` | read, write and put-back buffers, `rw_active`, position | fill, write, flush, end-input, seek, truncate, close | the port is a file: no byte lost, repeated or misplaced | `VfsPort`, `FilePort`, `VfsPortProofs` |
| generic tree model: `gtk/gnome/gw/guile-gtk-tree-model.c`, `gtk-support.c` | `user_data` of iters, protections of Scheme values | get-iter, next, children, nth-child, parent | the value of an iter in use is alive, protections balance | `TreeIters`, `TreeModelProofs` |
| event loop REPL: `glib/gnome/gobject/event-repl.scm` | buffer, position, port, saved stack | input, pending? | each form evaluated once, in order | `EventRepl`, `EventReplProofs` |
| filtered list: `gtk/gnome/contrib/filtered-list.scm` | list, filtered list and its length | set-filter and its row signals | a view that applies the signals has the new rows, and can apply each | `FilteredList`, `TreeModelProofs` |
| values: `gvalue.c`, `gvalue.scm`, `gparameter.c`, `gparameter.scm` | the GValue of a `<gvalue>`, the slots of a `<gparam>`, GLib's table of types | conversion to and from Scheme, registration of enumerations and flags | which values come back unchanged; what is stored is what was given, rounded or cut in the named cases only, or an error | `Values`, `Params`, `Conversions` |
| GConf values: `gconf/gnome/gw/gconf-support.c` | none | conversion | round trips | `GConfValues`, `Conversions` |
| CORBA: `corba/gnome/corba/*.c`, `corba.scm` | tables of interfaces and types, the operations of each interface, POA classes, servants | open an imodule, derive a class, make and free servants, call in both directions, convert | a client's operation reaches the method of a live servant; a type keeps its GType; struct members agree with the value they are of | `CorbaServants`, `CorbaServantsProofs`, `CorbaValues`, `Conversions` |
| class registry: `gtype.c` (class side), `gobject.c` (properties, vfuncs) | class <-> GType maps, property ids | register, install property | one class per type | not modelled, see 5 |
| GTK in Scheme: `gtk/gnome/gtk.scm`, `graphical-repl.scm` | destroy handlers, the procedure that answers a read | destroy, read | a destroyed object is let go of | not modelled, see 5 |
| other bindings, wrapper generator, documentation tools, API definitions | none at run time | | | not modelled, see 5 |

How they interact. A Scheme program calls generated C functions. They convert
arguments and results by way of `values` and `instance wrappers`. A result that
is an instance goes through to_scm, which looks for a wrapper in the instance's
qdata and else allocates one. The construction of an object re-enters Scheme
(`initialize`) and C (`instance_init`) several times. Scheme procedures are
given to C as closures, as function and data, and as tree-iter data; each of
these needs the protection table or Guile's own, because libgc does not scan
memory of GLib. Callbacks run Scheme inside C inside Scheme; finalizers run
between any two steps of Scheme code; the main loop runs callbacks, and a
callback may run a main loop.

What is hard in it: the order of finalizers and lookups (a weak pointer without
a weak pointer's guarantee), nesting (construction in construction, loop in
loop, emission in emission, input in input), asynchronous SIGINT, a collector
that stops threads where they are, copies of C structs that share one
protection, and buffers whose meaning depends on a direction flag.
`PROJECT.json` lists these hazards at the lines where they bite.

## 2. The modules and the code

**InstanceWrapper.** `slot` is `slots[0]`, `cache` the qdata, `fluid` the fluid
per thread, `calls` the C stack of `g_object_new` calls, `pend` the gap between
the lookup and the bind of to_scm. Actions are `AllocateInstance`, `Construct`
and `FinishConstruct` (`%gtype-instance-construct`), `GObjectNew`,
`InstanceInit` and `FinishGObjectNew` (C code creating), `ToScmCached`,
`ToScmMiss`, `ToScmBind`, `DestroyX`, `Collect`, `Finalize`, and `CRef`/`CUnref`
for C code. `DestroyX`, `CRef` and `CUnref` have guards that the C functions have
not: an instance in `g_object_new`, or one that to_scm has borrowed, is left to the
code that has it in its hands. A throw of `initialize` after the bind in to_scm is
not modelled. A kind of instance is "plain", "floating" (GInitiallyUnowned) or
"toplevel" (a window, whose first reference GTK owns). The external part is
GObject (reference counts, floating flag) and Guile's collector: it may find any
wrapper unreachable that the program has dropped, and its finalizer runs later.
`Env` names what the surroundings may do. With all of `Env` empty, C code
does not create Scheme-defined objects inside a construction, does not hand out
half-constructed objects and does not hand out an instance whose wrapper waits
for its finalizer. `WrapperIdentity` is the promise to programs: an instance has
at most one wrapper at a time and lives while it has one.

**GcMarker.** Threads take the mutex, look up, and insert or remove; another
thread's allocation can stop the world between any two of these steps; the mark
function takes the same mutex. The key of an object stays in the table with
count 0 until one more unprotect (`gc.c:70`), which the model keeps.

**Closures.** References of each closure by owner (the `<gclosure>`, handlers,
invocations), `emissions` as the C stack, `Apply` between the conversion of
parameters and `scm_apply`. `func` is read when the call is made, after Scheme
code may have run in the conversion. GLib's handler list is external: an
emission calls the handlers connected before it began. The class lookup in
`Construct` (`class_to_gtype`) is taken not to throw.

**MainLoop.** One frame per running `_wrap_g_main_loop_run` with its place in the
function; SIGINT between any two steps while the handler of the bindings is
installed. Guile's own handler is outside.

**VfsPort.** Operators translate each C function from a port to the set of its
outcomes, which lets them compose as the C functions do, with their early
returns; any read, write, seek, tell, truncation or close of the handle may fail,
which leaves the buffers as they were at that call, and a write may stop half-way
with or without an error. A failing close takes the handle away and leaves the
port open (`Usable` is an open port with a handle). The actions are what Guile's
port layer does around them. `FilePort` is the specification: an unbuffered file
with a put-back list. Of a call that fails it allows that the bytes which had been
read ahead are skipped, as the code does when the seek in `vport_end_input` fails
after it has cleared the buffer, and of a port freed by the collector that the
bytes written last are lost. Guesses about GnomeVFS and Guile, which are not
in the repository: a failing `gnome_vfs_write` has written nothing; a call on the
handle NULL answers an error; `scm_close_port` marks the port closed after
`vport_close` has returned. Line buffering is left out.

**TreeIters.** An iter is a struct with `user_data`; the C functions take over the
protection of the one they overwrite. `Answers` leaves open what the program's
`on-*` methods return. They may also throw: `scm_with_guile` stops it before the
iter is touched, so that a throw of `on-iter-next`, called for a copy
(`IterThrow`) or for the iter that lists children (`ChildrenThrow`), leaves a
protection that nobody will give back. `stranded` counts these. `Env` lists three
ways to use iters that the modelled code does not survive.

**EventRepl.** Text is a sequence of five classes of characters; `Read` is Guile's
reader on them, including the delimiter that it puts back into the soft port after
a symbol (`held`). `Answers` is the reference: the forms of a whole text, and the
errors in it, read from each place on. The model is that of Guile 2.0, which has
`lazy-catch`. `levels` is the stack of `input` calls, since a form may run a main
loop whose watch feeds the loop again. The error reporter and the printer return.

**Values, Params, GConfValues, CorbaValues, Conversions.** The first four are the
conversions as operators: what a Scheme value becomes in a GValue, a GParamSpec, a
GConfValue or a CORBA any, or which error it raises, and what Scheme gets from
one. A Scheme value is a record with a tag. Integers have the width of their C
type, with small widths as parameters, so that the limits of a type are inputs
like any other; flags are sets of bits. Doubles and floats are integers here too:
they have `DoubleBits` and `FloatBits` significant bits, a number that needs more
is rounded (`Rounded`), to a double and then by the cast to a float (`AsFloat`),
and `G_MAXFLOAT` is `MaxFloat`. Macros are what they do: `SCM_BOOL (scm_list_p
(v))` is a Scheme Boolean and therefore true to C, and `SCM_MAKE_CHAR` of a
negative char is the code with the same bits. `Conversions` is a program that
reads what C code stored, in every way there is, and sets it again, or makes a
value and reads it. `Survives` says which values come back unchanged; that is an
equivalence, so it also says which do not. The value of an enumeration that is
outside its table has a number but no symbol (`EnumToEntry` raises), a NULL boxed
value or array is unspecified or `'()` to Scheme and does not come back. An
array's elements come back as what their Scheme value suggests: a `glong` as a
`gint`, a `guint` beyond it not at all. A CORBA struct or sequence has its members
twice, in the DynAny it was made with and in the array that Scheme reads (`dyn`
and `members`): `corba-struct-set!` changes one, `corba-sequence-set!` both. The
code looks behind an alias in some places only. `Marshal` stores nothing for one,
since the switch of `scm_c_corba_marshal_any` does not; in a list given to
`make-corba-sequence` the memory of such an element stays as it was allocated, and
the DynAny then copies what is no string (`Unset`: a crash or garbage).
`make-corba-struct` takes the names of the fields from the typecode that it was
given. Guesses about ORBit, which is not in the repository: an alias TypeCode has
one part without a name, so that this crashes; the members of a DynAny made for an
alias are those of the type behind it; its strings start empty.

**Callbacks.** A slot is a place in C where one registration is kept, of one of
seven kinds (`KindOf`); `func` is what it holds, `protects` Guile's table,
`running` the procedures in progress. Each function that registers is an action,
with the protection of the old and of the new procedure by `scm_gc_protect_object`
or a closure where the code has them; watches, menus and radio actions have none.
The functions that go through a list (`add-actions`, `autoconnect`) are taken
entry by entry (`job`), since an entry can throw and what the earlier ones made
stays. `Call` happens from a main loop outside Guile or inside a function that
Scheme called; `Throw` unwinds to the innermost call that `scm_with_guile` guards,
and `skipped` records that it went through frames of a library. Three parameters
describe the surroundings and not the bindings: `ProgramKeeps` (the program keeps
the procedures that the wrappers do not protect), `ProgramThrows` and `LoopKinds`.
In the listed run a throw starts in a guarded procedure, and autoconnect finds its
handlers: what C does after a throw through its frames is undefined. That a loop
outside Guile calls the guarded kinds only makes no difference to the properties
which that run checks. Left out: the "activate" that
`gtk_toggle_action_set_active` (`gtk-support.c:203`) emits inside
`add-toggle-actions`.

**CorbaServants.** `OpenModule` is `corba-primitive-open-module`: interfaces in
the order of the imodule, each with `RegisterInterface`, then the types, until a
throw. `epv` is what `impl_finder_func` looks in, `cpl` the precedence lists
(GOOPS's merge is external, `Linearize`). Programs define classes and methods and
make servants; a reference to a servant does not keep it, and `Collect` frees one
that only its reference knows. A call is a frame that goes from `found` (the ORB
has the servant) by way of `Enter` (`scm_c_generic_skel_func` has its argument
list) to the methods, which return, raise, call on or go to the next method; a
client is Scheme, whose stubs dispatch on classes, or `outside`. `told` compares
what a method raised with what its client got. `TypecodeToGtypeClass` is
`corba-typecode->gtype-class`, with the typecode of an enumeration or of an alias,
of an imodule that was opened or not; reading a value of an enumeration looks its
type up in the same way. A type in `Wide` has a GType that does not fit an int:
one that is found in the table is cut (`crashed`).

**FilteredList.** `SetFilter` stores the new rows; `KeepRow`, `DropRow`,
`InsertRow` and `SkipRow` are the branches of the `cond` in its loop, one step
of the walk each, and send their signal to `view`, a listener that starts empty
and asks the model for each inserted row, as GtkTreeView does. The filter is any
predicate: the new rows are any that lie within the list in order (`Within`).
`ProgramKeepsRows` says that the program removes no shown row from the list
behind the model's back.

## 3. The runs

Every run that passes was exhausted. Mutants in `PROJECT.json` show, for each
property, a plausible fault in the code that the run would notice.

| run | bounds | shows |
|---|---|---|
| `wrapper` | 2 instances, 2 wrappers, 1 thread, nesting 2, 1 C reference, `Env = {"resurrect"}`, classes up to one Scheme level | references are exact, one wrapper per instance, the constructed wrapper is the program's, the identity specification is implemented, garbage is freed |
| `gc_marker_threads` | 2 threads, 2 objects, 3 protections | what is protected survives, no update is lost |
| `gc_marker_stopped` | 2 threads, 1 object | violated: the collection may wait for ever |
| `main_loop` | 2 loops of one context, depth 3, 2 SIGINTs | handlers restored, one error per SIGINT, a polling loop stops |
| `closures` | 2 closures, 2 procedures, 3 handlers, emissions nested twice | references and protections exact, released in the end |
| `callbacks` | one slot of each of the 7 kinds, 2 procedures, calls nested twice | procedures throw where `scm_with_guile` stops them, entries of `add-actions` are wrong: no freed procedure is called, protections are those of the registrations |
| `vfs_port` | buffers of 2 bytes, files to 4, writes to 3, 2 given back; any call may fail | implements `FilePort` |
| `tree_iters` | 3 iters, 3 values, 2 rows, one throw | each iter used once: values alive, no abort, protections owned by an iter or left by a throw of `on-iter-next`, one for each |
| `event_repl` | 4 pieces of up to 7 characters, nesting 2 | forms in order and once, none forgotten, errors with their own stack |
| `filtered_list` | 3 rows, lists up to 4 with repetitions | a listener that follows the signals has the model's rows and can follow each; every `set-filter` ends |
| `conversions` | chars of 2, ints of 6, longs of 7 bits, floats of 2 and doubles of 6 significant bits; every limit and what lies just beyond; arrays nested twice; CORBA shorts of 2 bits, sequences up to 2 | which values survive a round trip, and which are read back as they were given: characters beyond 8 bits are cut and numbers rounded to the nearest double or float without an error, others are not; when the two copies of a CORBA structure agree |
| `corba_servants` | the interfaces of `Foo.idl` and two with bases that cannot be merged, in 2 imodules opened any number of times, an enumeration and an alias of it; 2 servants, calls nested twice | what an interface serves depends on what was registered before it and on nothing else, stubs and skeletons agree, a running method's servant is alive, an enumeration has its own GType from when it is met and for ever, unless it is met through an alias |

The type invariant (`TypeOK`) of every module that states one holds with these
bounds too; only that of `wrapper` is listed.

Why the bounds are enough. Sharing and confusion need two of a kind: two
instances for one wrapper, two wrappers for one instance, two threads for one
key, two closures of one procedure, two slots for one procedure. Addresses are
reused once freed, so two suffice for staleness. A third nested run
distinguishes giving back the handler of the neighbour from that of the first.
Two-byte buffers are empty, partial, full, overrun by a write of three, and
passed over entirely. Three iters let one be moved on twice while another
refers to the same value. Six bits hold the five flags of a `<gparam>` and one
that it does not know. Lists of four with three rows have a repeated row with
another one between. Six interfaces have remote ancestors, ancestors from an
imodule that comes too late, and an inconsistent precedence list.

Deadlock is checked but where the model may stop rightly: leaked instances use
up the addresses (`InstanceWrapperHostile`), a marker that waits
(`GcMarkerThreads`, `GcMarkerStopped`), a closed port (`VfsPort*`), a crash
(`Conversions*`, `CorbaServants*`), all values protected for ever by throws
(`TreeIters*`).

Fairness. `Finalize` and `FinalizeBox` are weakly fair because Guile runs
every finalizer it has scheduled. `Collect` of `GcMarker` is weakly fair: a
marker that can take the mutex goes on. `Step` of `MainLoop` is the thread that
runs the loop; no fairness for SIGINT, ready files, quits. `Step` of
`FilteredList` is the loop of `set-filter`, which waits for nothing; its
listeners return. In `Closures` the handlers of the program are taken to
return. All other specifications are safety only.

### Finding

`gc_marker_stopped`: the mark function locks a mutex (`gc.c:88`) while libgc has
stopped the other threads; one that was stopped in the table's critical section
makes the collection hang, where NEWS:764 promises multithreaded operation.
With one thread it cannot happen (`GcMarker.cfg`).

### Demonstrations that are not listed as runs

Each configuration below checks properties that the code does not have; TLC finds
them violated (use `-continue` where there are several). They document limits of
the code; the listed runs assume them away by name (`Env`, pieces that are lines,
one context, one thread, `ProgramKeeps`, `ProgramKeepsRows`, `ProgramThrows`,
`BadEntries`) or check a weaker property in their place.

| configuration | module | property | what it shows |
|---|---|---|---|
| `InstanceWrapperTwoLevels` | MCInstanceWrapper | DestroyReleasesAll | an instance of a class two Scheme levels deep is bound once per level, each time with a reference; `gtype-instance-destroy!` drops one, though `gtype.c:553` speaks of all references that the wrapper has |
| `InstanceWrapperResurrect` | MCInstanceWrapper | HeldStaysBound | a scheduled finalizer unbinds a wrapper that to_scm has handed out again |
| `InstanceWrapperLifetime` | MCInstanceWrapper | AssociatedWhileAlive | the wrapper made by instance_init may be collected while C keeps the instance (`gobject.c:250-252` wants them associated) |
| the same, `Levels = {0}`, `Env = {"early"}` | MCInstanceWrapper | SameWrapper | an instance handed out during g_object_newv gets two wrappers |
| `InstanceWrapper`, `Env = {"nested"}` | MCInstanceWrapper | NewObjectGetsOwnWrapper | C code that instantiates a Scheme class inside a construction gets the outer wrapper |
| `InstanceWrapper`, `Threads = {t1, t2}` | MCInstanceWrapper | SameWrapper | two threads in to_scm make two wrappers |
| `GcMarker`, as a property | GcMarker | UnprotectedIsCollected | an object unprotected as often as protected stays until one more unprotect |
| `MainLoopContexts` | MCMainLoop | InterruptStopsLoop | `wakeup_context` stays on the context of a nested run |
| `MainLoop` | MCMainLoop | ReturnsOnlyWhenAsked | one ^C ends two nested runs, of which one returns without an error |
| `MainLoop` | MCMainLoop | NoInterruptLost | a ^C that comes when a run has ended but not yet given its handler back is cleared and raises no error |
| `VfsPortForce` | VfsPort | TellAccountsForBuffers | force-output on a port being read forgets its read buffer |
| `VfsPort`, as a property | VfsPort | ClearingSkipsNothing | when the seek of end-input fails, what was buffered is skipped, though `gnome-vfs-port.c:367` speaks of adjusting the position |
| `TreeItersReuse` | TreeIters | NeverAborts | iter-next twice on one iter unprotects its value twice |
| the same, `Env = {"children"}` | TreeIters | IterValid | the values of listed children are not protected |
| the same, `Env = {"drop"}` | TreeIters | ProtectionsOwned | a dropped iter leaves its value protected |
| `TreeIters`, as an invariant | TreeIters | NothingStranded | a throw of `on-iter-next` leaves its value protected, where the documentation says that nothing needs to be done to free an iter |
| `EventReplCut` | MCEventRepl | FormsInOrder | a symbol cut in two is read as two |
| the same, `Pieces <- MCTight` | MCEventRepl | FormsInOrder | the beginning of a list right behind a symbol is lost if the list is incomplete |
| `EventRepl` | MCEventRepl | ReportsOwnStackAlways | a form that fed the loop is reported with the stack of a nested error |
| `FilteredListNested` | FilteredList | ViewMatches | a listener that calls `set-filter` sees the outer walk go on with rows that are no longer the model's |
| `FilteredListRemoved` | FilteredList | ViewMatches | a shown row that the program takes out of the list keeps the walk from finding the old rows behind it |
| `CallbacksDropped` | MCCallbacks | CallsLive | the procedure of an IO watch is freed while its source is there, if the program does not keep it |
| `CallbacksRadio` | MCCallbacks | GuileBoundary | `on-change` of radio actions enters Scheme without `scm_with_guile`, also from a main loop outside Guile |
| `Callbacks`, as an invariant | MCCallbacks | NoStrayAction | an entry of `add-actions` whose callback is no procedure leaves an action that nobody unrefs |
| `Callbacks`, `BadEntries = {"no handler"}` | MCCallbacks | GuileBoundary | `glade-xml-signal-autoconnect` throws through libglade's frames when a handler has no value |
| `ConversionsLimits` | MCConversions | NeverCrashes | setting an array to what is no list, or to a list with a symbol or a bignum in it, and a `<gparam>` whose default GLib refuses, crash instead of raising an error |
| | | FlagsAddUp | the elements of `gflags->value-list` do not give the flags where bits have no element of their own, though `gvalue.scm:319-321` says so (and says `logand` for `logior`) |
| | | GConfStores | only numbers and Booleans can be stored in GConf; `scm_exact_p` raises for the rest |
| | | RecordKeepsMembers | a struct made from another one has the members that the other was made with |
| `CorbaServantsLimits` | MCCorbaServants | ErrorsReachClient | the client of a method that raises a CORBA exception is told that the call returned, although `corba.scm:89-91` promises it the exception |
| | | NextMethodNotImplemented | `(next-method)` in the last method yields UNKNOWN |
| | | NoWildPointer | a servant that the program forgets may be freed between the ORB's lookup and the use of its object |
| | | AliasesAreFound | an enumeration that is met through an alias once more loses its GType, since the alias is looked up under its own id and stored under the enumeration's |
| `CorbaServants`, as an invariant | MCCorbaServants | NoWildPointer | a GType that does not fit an int is cut when the type is looked up a second time (`generic.c:98`), and GLib follows it |
| | | VepvFits | an interface with two bases writes past the two slots of `vepv` |
| `CorbaServants`, `Bases <- MCDirectBases` | MCCorbaServants | StubsMatchSkeletons | if `base_interfaces` held the direct bases only, stubs would accept what skeletons refuse |

Two configurations pass. `GcMarker`: with one thread the collection always ends.
`InstanceWrapperHostile`: with all of `Env` and two Scheme levels nothing is
freed in use (which `NeverFreedInUse` proves for every size) and the
construction stack stays balanced.

## 4. Proofs

Eight modules hold theorems. Each extends the component's module, so that the
named ASSUMEs there are its assumptions; what a theorem assumes of the program
beyond them is in its statement, and is what the runs assume as well.

`InstanceWrapperProofs`, for all sets of instances, wrappers, threads and
levels, and for every `Env`: `TypeCorrect` (`TypeOK`) and `NeverFreedInUse`
(`NoUseAfterFree`). `NoUseAfterFree` is not inductive: it says nothing of a
construction that is half-way or of an instance that to_scm has in its hands.
`IInv` adds that a call of `g_object_new` on the stack belongs to an instance in
construction, once and of one thread (`CallsInv`), that the fluid has an entry
for each construction from Scheme (`FluidInv`), that an address with no
reference has nothing attached and an instance in construction is referenced
(`NewInv`), and that a pending to_scm has its instance by an owned or borrowed
reference (`PendInv`). One lemma per action; lemmas on the counting of bound
wrappers (`BindCount`, `UnbindCount`) and on the operations that move references
(`BindSafe`, `UnbindSafe`, `UnrefSafe`).

The second half of `InstanceWrapperProofs`, for all sets of instances and wrappers
and any depth of nested constructions, under `Simple` (one thread, at most one
level of classes defined in Scheme, `Env` no more than `"resurrect"`):
`OneIdentity` (`SameWrapper`), `QdataUpToDate` (`CacheCoherent`),
`ConstructedIsOwn` (`ConstructionKeepsWrapper`), `NothingLeaks` (`NoLeak`) and
`ImplementsIdentity` (`RefinesIdentity`: every step of the wrappers is one of
`WrapperIdentity` or none). On top of `IInv`, `WInv` says that what is under
construction has its own wrapper or none yet (`BuildInv`), that the instance
to_scm is wrapping has none (`WrapInv`), that the entries of the fluid are the
constructions from Scheme on the C stack in their order (`NestInv`: so
instance_init takes the right wrapper), and that a reference is a wrapper's, C
code's or the constructor's (`LeakInv`). Each part of `Simple` is needed: with two
threads, or with `"early"` in `Env`, `SameWrapper` is violated, with `"nested"`
`ConstructionKeepsWrapper`, with `"cfloat"` or a second Scheme level `NoLeak`.

`ClosuresProofs`, for any closures, procedures, handlers and depth:
`ReferencesOwned` (`RefsExact`), `ProceduresProtected` (`ProtectionExact`) and
`HandlersHaveProcedures` (`AppliesProcedure`). A closure has its procedure until
its last reference goes (`FuncInv`), handlers that do not exist yet have no
closure (`YoungInv`), and an invocation has a reference of its own from start to
end (`FrameInv`). The module extends `GcMarker`, the table that these protections
are in, as well; for all sets of objects and threads: `CountsExact`
(`NoLostUpdate`) and `ProtectionHolds` (`ProtectedSurvives`). The invariant adds
mutual exclusion (an operation in progress is that of the lock's holder), that a
value that was read is still the value of the table (`LockHeld`), and that keys
include every object with a count or an owner (`KeysInv`).

`CallbacksProofs`, for any procedures and slots, throws and wrong entries:
`ProtectionsExact` (`ProtectedExactly`), and `CalledIsAlive` (`CallsLive`) if
`ProgramKeeps`. A registered procedure lives because its registration protects it or
because the program keeps it (`KeptInv`), one that is replaced while it runs by
the stack (`LiveInv`).

`MainLoopProofs`, for any loops, contexts and depth: `HandlerGivenBack`
(`NothingLeftBehind`), `InterruptsArrive` (`HandlerInstalled`) and
`OneErrorPerInterrupt` (`NoDoubleReport`). The saved handlers are a chain in which
only the outermost run has Guile's (`SavedInv`); the handler in force follows
from the innermost run's place (`HandlerInv`); a flag that is up stands for a
SIGINT that nobody has reported (`FlagInv`).

`TreeModelProofs` extends both tree models. `TreeIters`, for any iters, values
and rows, under `CarefulProgram` (`Env = {}`): `CarefulNeverAborts`
(`NeverAborts`), `ThrowsStrandOne` (`ProtectionsOwned`) and
`CarefulItersValid` (`IterValid`). Copies made in a walk count for nothing until
it ends (`CopiesInv`), and what is protected exists (`AliveInv`). `FilteredList`,
for lists of any length, under `Tame` (`ProgramKeepsRows`, no nested call):
`ListenerUpToDate` (`ViewMatches`) and `SignalsAreFollowed` (`SignalsFit`).
`WalkInv` says that the listener has the new rows so far and the old rows to
come; comparing with the first of each finds them all because what is left of
either lies within what is left of the list (`WithinTail`).

`VfsPortProofs`, for bytes, files, buffers and calls of any size, under
`CarefulProgram` (the random mode, `Env = {}`): `PortIsFile` (`RefinesFilePort`),
that every call of the port is one of `FilePort`'s, whichever calls on the handle
are cut short or fail; and from it `OneBufferInUse` (`ActiveNamesBuffer` of a
`Usable` port) and `PositionIsPrograms` (`TellAccountsForBuffers`). Each part of
`CarefulProgram` is needed: the demonstrations of section 3 and the mode without
`Random` violate these properties. The refinement mapping is what the program sees
of a port: `Seen(p)`, the file with the write buffer over it, and `Place(p)`, the
position in it. A lemma per function of the port type says what it does to these
two, error outcomes included: `Wrote` (a number of the bytes given is where the
program was) and `Settled` (the buffers are empty and the handle is where the
program is, or the call failed and has skipped no more than was read ahead,
`Skipped`). That the pieces of a write come out as one is `OverlayTwice`. `IInv`
says that one buffer is in use and `rw_active` names it (`Directed`), and that the
read buffer is the part of the file that ends at the handle's position
(`Buffered`). A port whose closing failed is `Dead` and only keeps its file
(`Kept`).

`EventReplProofs`, for text of any length and content in any number of pieces, and
calls of `input` nested to any depth: `EveryFormOnce` (`FormsInOrder`),
`NothingLeft` (`NothingForgotten`) and `OwnStack` (`ReportsOwnStack`). The first
two assume `Lines`: a piece ends in white space, and a parenthesis in it has white
space or another parenthesis before it. Both parts are needed, as `EventReplCut`
and its variant with `MCTight` show. The third holds for any pieces: all it asks
of the reader is that its answer lies in the text (`ReadTypes`). `AnswersAre`: the
recursive function that these properties compare the loop with is well defined on
every line; its solution is built from the end of the text. The reader's answer
does not change when more text arrives (`Extension`) or white space goes before
(`BlankShift`). The invariant need therefore not say how far the loop is in the
whole text: it says that there is a place from which, however the text goes on,
the answers still to come are those of the rest (`Continues`), and that the buffer
and the delimiter that was put back are the text from there (`ReadInv`); that a
waiting loop has no complete form left (`WaitInv`); and that every call but the
innermost is inside the evaluation of a form (`StackInv`).

`CorbaServantsProofs`, for any interfaces, imodules, types, classes, servants and
depth of calls: `AncestorsServed` (`InheritedOps`), `RunningKept`
(`RunningServantAlive`), `TypesOfEnums` (`EnumsKeepType`), and under `AllBases`
also `StubsAndSkeletons` (`StubsMatchSkeletons`) and `MethodsServed`
(`ImplementedOpsServed`). `AllBases` says that the bases of an interface include
those of its bases, which is what ORBit's IDL compiler writes and which the
demonstration with `MCDirectBases` shows to be needed. Three things had to be
shown of the operators first. A fold goes through intermediate results, each a
step from the one before, since the recursive function in its definition has a
solution (`FoldExists`, from the induction over sets of numbers). A merge that
does not get stuck takes every class of the lists, each once, and keeps the order
of each list (`MergeIs`). Registration keeps `TableInv`: the precedence lists
contain those of their classes, in order; an interface serves its own operations
and those of the bases registered before it; and its list is just of these. That a
found POA class is the most derived one follows from the order alone. For the
types the invariant is `EnumsKeepType` itself, of tables half-way through an
imodule (`TypesInv`), and for the calls that one that went beyond the finder has a
servant that is active (`Stack`).

Only model-checked: the liveness properties (out of the prover's reach), and
`Conversions` with `Values`, `Params`, `GConfValues` and `CorbaValues`, which have
recursive operators (an array holds arrays).

## 5. Not modelled, and why

* The wrapper generator and the wrappers it writes keep no state; what generated
  code does with a returned instance is in `InstanceWrapper`. Documentation tools
  run at build time. API definitions are data.
* The class registry: registration and installation of properties are one
  straight sequence per class in one thread. With several threads `gtype->class`
  has the lookup and bind of to_scm, which `InstanceWrapper` shows to be unsafe.
* The destroy handler of gtk-objects (`gtk.scm:57`) needs instances, wrappers and
  closures at once; the composition is too large for TLC at the sizes that each
  part needs to be interesting.
* The graphical REPL stores, for each read, a closure that takes the answer and
  quits the loop (`graphical-repl.scm:265`); which reads nest is up to the entry's
  hooks and key bindings, which are GTK's and the program's.
* Functions of the tree model that only read an iter, bookmark files, IO channel
  reads, unicode functions, conversions of events and colours: one call without
  state. The reference counts of CORBA's TypeCodes. Out parameters and results
  of a servant, which `scm_c_generic_skel_func` does not marshal back.
* Non-local exits through GTK's and GLib's C frames have no defined outcome;
  `Callbacks` says where they can happen, and no model what follows. Memory
  exhaustion is not modelled. Threads are modelled where the code has a lock or a
  promise about threads (the protection table, to_scm), not elsewhere.

## 6. What would come next

`PROJECT.json` lists the hazards that no property covers, each with a note. A
composition of `Closures` and `InstanceWrapper` for one instance and one closure
would show whether a destroyed gtk-object is let go of.
