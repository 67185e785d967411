------------------------------- MODULE Callbacks -------------------------------
(***************************************************************************)
(* The Scheme procedures that wrapped functions hand to C as "function and *)
(* data": g-io-add-watch (glib/gnome/gw/glib-support.c), the position      *)
(* function of gtk-menu-popup, the radio actions' on-change, the cell data *)
(* functions and the actions' "activate" (gtk/gnome/gw/gtk-support.c),     *)
(* gconf-client-notify-add (gconf/gnome/gw/gconf-support.c) and the signal *)
(* handlers of libglade (libglade/gnome/gw/glade-support.c).               *)
(*                                                                         *)
(* A slot is a place in C where one registration is kept: a GSource, a     *)
(* GConf connection, a column's cell, a menu, a radio group, an action's   *)
(* or an object's handler.  The library calls a slot from a main loop or   *)
(* while Scheme is in one of its functions; a procedure that runs may      *)
(* register, remove and replace procedures, its own slot's included, and   *)
(* the garbage collector may run at each of these steps.                   *)
(***************************************************************************)
EXTENDS Naturals, Sequences, FiniteSets

CONSTANTS
    Procs,      \* Scheme procedures
    KindOf,     \* [slot -> kind of registration]
    None,       \* no procedure
    LoopKinds,  \* the kinds that a main loop calls
    ProgramKeeps,  \* the program keeps the procedures that C alone refers to
    ProgramThrows, \* the kinds whose procedures may throw
    BadEntries, \* the ways in which entries of a list may be wrong
    MaxDepth    \* bound: procedures in progress

Slots == DOMAIN KindOf
OfKind(kinds) == {s \in Slots : KindOf[s] \in kinds}

\* Registrations that the wrapper protects: scm_gc_protect_object with the
\* library's destroy notify, or a closure (module Closures).
Protected == {"notify", "cell", "action", "handler"}

\* Calls of these kinds go through scm_with_guile: it enters Guile and lets no
\* throw out.
Guarded == {"watch", "notify", "cell", "action", "handler"}

ASSUME NoneAssumption == None \notin Procs
ASSUME KindsAssumption ==
    /\ IsFiniteSet(Slots) /\ MaxDepth \in Nat
    /\ KindOf \in [Slots -> Protected \cup {"watch", "popup", "radio"}]
    /\ ProgramKeeps \in BOOLEAN /\ BadEntries \subseteq {"malformed", "no procedure", "no handler"}

VARIABLES
    held,     \* the procedures that the program refers to
    func,     \* func[s]: the procedure registered in slot s
    protects, \* protects[p]: protections of p in Guile's table
    freed,    \* the procedures the collector has freed
    running,  \* the procedures in progress, innermost last
    job,      \* the list function in progress: entries done and where it stands
    created,  \* the actions that exist
    group,    \* the actions in the action group
    skipped   \* a throw went through the frames of a library

vars == <<held, func, protects, freed, running, job, created, group, skipped>>

Calls == [slot : Slots, proc : Procs, guile : BOOLEAN]
NoJob == [kind |-> "none", slot |-> None, proc |-> None]
Autoconnect == [NoJob EXCEPT !.kind = "autoconnect"]
Jobs == [kind : {"checked", "created"}, slot : OfKind({"action"}), proc : Procs \cup {None}]
        \cup {NoJob, Autoconnect}

TypeOK ==
    /\ held \subseteq Procs /\ freed \subseteq Procs
    /\ func \in [Slots -> Procs \cup {None}]
    /\ protects \in [Procs -> 0..Cardinality(Slots)]
    /\ running \in Seq(Calls) /\ Len(running) <= MaxDepth
    /\ job \in Jobs
    /\ group \subseteq created /\ created \subseteq OfKind({"action"})
    /\ skipped \in BOOLEAN

Init ==
    /\ held = Procs /\ freed = {}
    /\ func = [s \in Slots |-> None]
    /\ protects = [p \in Procs |-> 0]
    /\ running = <<>> /\ job = NoJob
    /\ created = {} /\ group = {}
    /\ skipped = FALSE

-----------------------------------------------------------------------------
(* Registering *)

\* protects after the registration of a slot changes from p to q
Swapped(s, p, q) ==
    IF KindOf[s] \in Protected
    THEN [x \in Procs |-> protects[x] + (IF x = q THEN 1 ELSE 0) - (IF x = p THEN 1 ELSE 0)]
    ELSE protects

\* Mutant: the destroy notify is not given to the library.
ReplaceWithoutNotify(s, p) ==
    /\ func' = [func EXCEPT ![s] = p]
    /\ protects' = Swapped(s, None, p)

\* The library takes the new function and data, and gives what it had before
\* to its destroy notify.
Replace(s, p) ==
    /\ func' = [func EXCEPT ![s] = p]
    /\ protects' = Swapped(s, func[s], p)

\* The program runs: at top level, or in the procedure that C called last.
SchemeRuns == job = NoJob

InUse(s) == func[s] # None \/ \E k \in DOMAIN running : running[k].slot = s

AddNew(kind, s, p) ==
    /\ SchemeRuns /\ p \in held
    /\ KindOf[s] = kind /\ ~InUse(s)
    /\ Replace(s, p)
    /\ UNCHANGED <<held, freed, running, job, created, group, skipped>>

\* g-io-add-watch makes a source that has the bare procedure.
AddWatch(s, p) == AddNew("watch", s, p)

\* gconf-client-notify-add
NotifyAdd(s, p) == AddNew("notify", s, p)

\* gtk-action-group-add-radio-actions checks all entries before it adds any;
\* GTK connects on-change to the new actions.
AddRadioActions(s, p) == AddNew("radio", s, p)

\* gtk-tree-view-column-set-cell-data-func
SetCellDataFunc(s, p) ==
    /\ SchemeRuns /\ p \in held /\ s \in OfKind({"cell"})
    /\ Replace(s, p)
    /\ UNCHANGED <<held, freed, running, job, created, group, skipped>>

\* gtk-menu-popup: GTK keeps the position function with the menu (none for
\* #f), and asks it at once.
Popup(s, p) ==
    /\ SchemeRuns /\ p \in held \cup {None} /\ s \in OfKind({"popup"})
    /\ Replace(s, p)
    /\ IF p = None THEN UNCHANGED running
       ELSE /\ Len(running) < MaxDepth
            /\ running' = Append(running, [slot |-> s, proc |-> p, guile |-> TRUE])
    /\ UNCHANGED <<held, freed, job, created, group, skipped>>

\* g-source-remove, gconf-client-notify-remove, the end of a column, a menu, an
\* object: the library forgets the registration.
Remove(s) ==
    /\ SchemeRuns /\ func[s] # None /\ KindOf[s] # "action"
    /\ Replace(s, None)
    /\ UNCHANGED <<held, freed, running, job, created, group, skipped>>

\* gtk-action-group-remove-action, of the last reference
RemoveAction(s) ==
    /\ SchemeRuns /\ s \in group
    /\ Replace(s, None)
    /\ created' = created \ {s} /\ group' = group \ {s}
    /\ UNCHANGED <<held, freed, running, job, skipped>>

-----------------------------------------------------------------------------
(* gtk-action-group-add-actions and -add-toggle-actions, entry by entry    *)

\* The entry is read: a malformed one (its length, a name that is #f, a string
\* that is none) throws before anything is made of it.
CheckEntry(s, p) ==
    /\ SchemeRuns /\ p \in held \cup {None}
    /\ s \in OfKind({"action"}) \ created /\ ~InUse(s)
    /\ job' = [kind |-> "checked", slot |-> s, proc |-> p]
    /\ UNCHANGED <<held, func, protects, freed, running, created, group, skipped>>

\* The throw ends the call; the actions of earlier entries stay in the group.
BadEntry ==
    /\ job.kind = "checked" /\ "malformed" \in BadEntries
    /\ job' = NoJob
    /\ UNCHANGED <<held, func, protects, freed, running, created, group, skipped>>

\* g_object_new, and gtype-instance-signal-connect when the entry has a
\* callback.  One that is no procedure makes it throw, and the reference of
\* g_object_new is then nobody's.
CreateAction(isProcedure) ==
    /\ job.kind = "checked"
    /\ isProcedure \/ "no procedure" \in BadEntries
    /\ created' = created \cup {job.slot}
    /\ Replace(job.slot, IF isProcedure THEN job.proc ELSE None)
    /\ job' = IF isProcedure THEN [job EXCEPT !.kind = "created"] ELSE NoJob
    /\ UNCHANGED <<held, freed, running, group, skipped>>

\* gtk_action_group_add_action_with_accel and g_object_unref
AddAction ==
    /\ job.kind = "created"
    /\ group' = group \cup {job.slot}
    /\ job' = NoJob
    /\ UNCHANGED <<held, func, protects, freed, running, created, skipped>>

AddActions ==
    \/ \E s \in Slots, p \in Procs \cup {None} : CheckEntry(s, p)
    \/ \E isProcedure \in BOOLEAN : CreateAction(isProcedure)
    \/ BadEntry \/ AddAction

-----------------------------------------------------------------------------
(* glade-xml-signal-connect and -autoconnect, signal by signal             *)

StartAutoconnect ==
    /\ SchemeRuns /\ OfKind({"handler"}) # {} /\ job' = Autoconnect
    /\ UNCHANGED <<held, func, protects, freed, running, created, group, skipped>>

\* connect_one, of the procedure that the handler's name stands for
ConnectOne(s, p) ==
    /\ job = Autoconnect /\ p \in held
    /\ s \in OfKind({"handler"}) /\ ~InUse(s)
    /\ Replace(s, p)
    /\ UNCHANGED <<held, freed, running, job, created, group, skipped>>

\* connect_many throws through libglade when a name cannot be read, has no
\* value or is no procedure's; what it connected before stays.
EndAutoconnect(allHandlers) ==
    /\ job = Autoconnect
    /\ allHandlers \/ "no handler" \in BadEntries
    /\ job' = NoJob /\ skipped' = (skipped \/ ~allHandlers)
    /\ UNCHANGED <<held, func, protects, freed, running, created, group>>

ConnectMany ==
    \/ StartAutoconnect
    \/ \E allHandlers \in BOOLEAN : EndAutoconnect(allHandlers)
    \/ \E s \in Slots, p \in Procs : ConnectOne(s, p)

-----------------------------------------------------------------------------
(* Calls *)

\* The library calls slot s, from a main loop outside Guile or from a function
\* that Scheme has called.
Call(s, loop) ==
    /\ SchemeRuns /\ func[s] # None /\ Len(running) < MaxDepth
    /\ loop => KindOf[s] \in LoopKinds
    /\ running' = Append(running, [slot |-> s, proc |-> func[s],
                                   guile |-> KindOf[s] \in Guarded \/ ~loop])
    /\ UNCHANGED <<held, func, protects, freed, job, created, group, skipped>>

Pop == SubSeq(running, 1, Len(running) - 1)
TopCall == running[Len(running)]

\* The procedure returns.  #f from the procedure of a watch destroys its
\* source, unless it is gone by now.
Return(keep) ==
    /\ running # <<>> /\ job = NoJob
    /\ running' = Pop
    /\ IF KindOf[TopCall.slot] = "watch" /\ ~keep
       THEN func' = [func EXCEPT ![TopCall.slot] = None] ELSE UNCHANGED func
    /\ UNCHANGED <<held, protects, freed, job, created, group, skipped>>

Stops(call) == KindOf[call.slot] \in Guarded

\* A throw unwinds to the innermost guarded call, or out of all of them when
\* there is none.  scm_with_guile then returns NULL, which g_io_func takes
\* for #f.
Throw ==
    /\ running # <<>> /\ job = NoJob /\ KindOf[TopCall.slot] \in ProgramThrows
    /\ \E to \in 1..Len(running) :
         /\ to = 1 \/ Stops(running[to])
         /\ \A k \in to + 1 .. Len(running) : ~Stops(running[k])
         /\ running' = SubSeq(running, 1, to - 1)
         /\ func' = IF KindOf[running[to].slot] = "watch"
                    THEN [func EXCEPT ![running[to].slot] = None] ELSE func
         /\ skipped' = (skipped \/ ~Stops(running[to]) \/ to < Len(running))
    /\ UNCHANGED <<held, protects, freed, job, created, group>>

-----------------------------------------------------------------------------
(* The program and the collector *)

\* The program lets go of a procedure.
Drop(p) ==
    /\ SchemeRuns /\ p \in held
    /\ ProgramKeeps => \A s \in Slots : func[s] = p => KindOf[s] \in Protected
    /\ held' = held \ {p}
    /\ UNCHANGED <<func, protects, freed, running, job, created, group, skipped>>

\* A procedure in progress can refer to itself.
Keep(p) ==
    /\ SchemeRuns /\ \E k \in DOMAIN running : running[k].proc = p
    /\ p \notin held
    /\ held' = held \cup {p}
    /\ UNCHANGED <<func, protects, freed, running, job, created, group, skipped>>

\* Mutant: the collector does not scan the stack of a call from C.
OnStackNever == {}

\* The locals of the callbacks and of the list functions
OnStack == {running[k].proc : k \in DOMAIN running} \cup ({job.proc} \ {None})

Collect ==
    /\ LET roots == held \cup OnStack \cup {p \in Procs : protects[p] > 0} IN
       /\ ~(Procs \subseteq roots \cup freed)
       /\ freed' = freed \cup (Procs \ roots)
    /\ UNCHANGED <<held, func, protects, running, job, created, group, skipped>>

-----------------------------------------------------------------------------
Next ==
    \/ \E s \in Slots : Remove(s) \/ RemoveAction(s) \/ (\E loop \in BOOLEAN : Call(s, loop))
    \/ \E s \in Slots, p \in Procs :
         AddWatch(s, p) \/ NotifyAdd(s, p) \/ AddRadioActions(s, p) \/ SetCellDataFunc(s, p)
    \/ \E s \in Slots, p \in Procs \cup {None} : Popup(s, p)
    \/ AddActions \/ ConnectMany
    \/ \E keep \in BOOLEAN : Return(keep)
    \/ Throw
    \/ \E p \in Procs : Drop(p) \/ Keep(p)
    \/ Collect

Spec == Init /\ [][Next]_vars

-----------------------------------------------------------------------------
(* Properties *)

\* What C may call is alive: no slot and no call in progress has a freed
\* procedure, even when a procedure removes or replaces the very slot that it
\* is called from.
CallsLive ==
    /\ \A s \in Slots : func[s] \notin freed
    /\ \A k \in DOMAIN running : running[k].proc \notin freed

\* A procedure is protected exactly as often as slots that protect hold it, so
\* that it can go when they are gone.
ProtectedExactly ==
    \A p \in Procs : protects[p] = Cardinality({s \in OfKind(Protected) : func[s] = p})

\* Scheme runs in Guile only, and no throw goes through a library's frames.
\* The code keeps to it only where it uses scm_with_guile: it fails for radio
\* actions, menu positions and autoconnect.
GuileBoundary == ~skipped /\ \A k \in DOMAIN running : running[k].guile

\* Between two entries, every action there is belongs to the group: the
\* function that failed half way left none behind.
NoStrayAction == job.kind \notin {"checked", "created"} => created = group
===============================================================================
