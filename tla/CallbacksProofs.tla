---------------------------- MODULE CallbacksProofs ----------------------------
(***************************************************************************)
(* For any number of procedures and of places that keep them: what C may   *)
(* call has not been freed, and protections are those of the               *)
(* registrations.                                                          *)
(*                                                                         *)
(* A registered procedure lives for one of two reasons: its registration   *)
(* protects it, or the program keeps it (KeptInv).  One that is replaced   *)
(* while it runs loses both, and lives by the stack.                       *)
(***************************************************************************)
EXTENDS Callbacks, FiniteSetTheorems, SequenceTheorems, TLAPS

\* What nobody protects, the program refers to.
KeptInv ==
    ProgramKeeps =>
        \A s \in Slots : KindOf[s] \notin Protected /\ func[s] # None => func[s] \in held

\* Nothing that anybody refers to is freed.
LiveInv ==
    ProgramKeeps => /\ \A p \in held : p \notin freed
                    /\ job.proc \notin freed
                    /\ CallsLive

\* An action between its creation and its addition exists.
JobInv == job.kind = "created" => job.slot \in created

IInv == TypeOK /\ ProtectedExactly /\ KeptInv /\ LiveInv /\ JobInv

-----------------------------------------------------------------------------
(* Registrations and protections *)

Holders(f, p) == {s \in OfKind(Protected) : f[s] = p}

\* The slots that hold a procedure are finitely many.
LEMMA HoldersFinite ==
    ASSUME NEW f, NEW p
    PROVE  /\ IsFiniteSet(Holders(f, p))
           /\ Cardinality(Holders(f, p)) \in 0 .. Cardinality(Slots)
<1>1. Holders(f, p) \in SUBSET Slots
  BY DEF Holders, OfKind
<1>2. IsFiniteSet(Slots)
  BY KindsAssumption
<1> QED
  BY <1>1, <1>2, FS_Subset, FS_CardinalityType

\* A registration that changes takes its protection along.
LEMMA ReplaceExact ==
    ASSUME TypeOK, ProtectedExactly,
           NEW s \in Slots, NEW q \in Procs \cup {None}, Replace(s, q)
    PROVE  /\ func' \in [Slots -> Procs \cup {None}]
           /\ protects' \in [Procs -> 0 .. Cardinality(Slots)]
           /\ ProtectedExactly'
           /\ func'[s] = q /\ \A x \in Slots : x # s => func'[x] = func[x]
<1>1. /\ func \in [Slots -> Procs \cup {None}] /\ func' = [func EXCEPT ![s] = q]
      /\ protects' = Swapped(s, func[s], q)
  BY DEF Replace, TypeOK
<1>2. /\ func' \in [Slots -> Procs \cup {None}]
      /\ func'[s] = q /\ \A x \in Slots : x # s => func'[x] = func[x]
  BY <1>1
<1>3. \A p \in Procs : protects[p] = Cardinality(Holders(func, p))
  BY DEF ProtectedExactly, Holders
<1>4. /\ protects' = [p \in Procs |-> protects'[p]]
      /\ \A p \in Procs : protects'[p] = Cardinality(Holders(func', p))
  <2>1. CASE KindOf[s] \notin Protected
    <3>1. protects' = protects
      BY <2>1, <1>1 DEF Swapped
    <3>2. \A p \in Procs : Holders(func', p) = Holders(func, p)
      BY <2>1, <1>2 DEF Holders, OfKind
    <3> QED
      BY <3>1, <3>2, <1>3 DEF TypeOK
  <2>2. CASE KindOf[s] \in Protected
    <3>1. protects' = [x \in Procs |-> protects[x] + (IF x = q THEN 1 ELSE 0)
                                                   - (IF x = func[s] THEN 1 ELSE 0)]
      BY <2>2, <1>1 DEF Swapped
    <3>2. ASSUME NEW p \in Procs
          PROVE  protects'[p] = Cardinality(Holders(func', p))
      <4>1. protects[p] = Cardinality(Holders(func, p)) /\ protects[p] \in Nat
        BY <1>3, HoldersFinite
      <4>2. protects'[p] = protects[p] + (IF p = q THEN 1 ELSE 0)
                                       - (IF p = func[s] THEN 1 ELSE 0)
        BY <3>1
      <4>3. s \in Holders(func, p) <=> p = func[s]
        BY <2>2 DEF Holders, OfKind
      <4>4. IsFiniteSet(Holders(func, p))
        BY HoldersFinite
      <4>5. CASE p = q
        <5>1. Holders(func', p) = Holders(func, p) \cup {s}
          BY <4>5, <1>2, <2>2 DEF Holders, OfKind
        <5>2. Cardinality(Holders(func, p) \cup {s})
                = IF s \in Holders(func, p) THEN Cardinality(Holders(func, p))
                  ELSE Cardinality(Holders(func, p)) + 1
          BY <4>4, FS_AddElement
        <5> QED
          BY <5>1, <5>2, <4>1, <4>2, <4>3, <4>5
      <4>6. CASE p # q
        <5>1. Holders(func', p) = Holders(func, p) \ {s}
          BY <4>6, <1>2, <2>2 DEF Holders, OfKind
        <5>2. Cardinality(Holders(func, p) \ {s})
                = IF s \in Holders(func, p) THEN Cardinality(Holders(func, p)) - 1
                  ELSE Cardinality(Holders(func, p))
          BY <4>4, FS_RemoveElement
        <5> QED
          BY <5>1, <5>2, <4>1, <4>2, <4>3, <4>6
      <4> QED
        BY <4>5, <4>6
    <3> QED
      BY <3>1, <3>2
  <2> QED
    BY <2>1, <2>2
<1>5. ProtectedExactly'
  BY <1>4 DEF ProtectedExactly, Holders
<1>6. protects' \in [Procs -> 0 .. Cardinality(Slots)]
  BY <1>4, HoldersFinite
<1> QED
  BY <1>2, <1>5, <1>6

\* A source that is destroyed had no protection to give back.
LEMMA UnprotectedExact ==
    ASSUME TypeOK, ProtectedExactly, UNCHANGED protects,
           func' \in [Slots -> Procs \cup {None}],
           \A s \in OfKind(Protected) : func'[s] = func[s]
    PROVE  ProtectedExactly'
<1>1. \A p \in Procs : Holders(func', p) = Holders(func, p)
  BY DEF Holders
<1> QED
  BY <1>1 DEF ProtectedExactly, Holders

\* What a slot has is protected or kept.
LEMMA RegisteredKept ==
    ASSUME TypeOK, ProtectedExactly, KeptInv, ProgramKeeps,
           NEW s \in Slots, func[s] # None
    PROVE  func[s] \in Procs /\ (func[s] \in held \/ protects[func[s]] > 0)
<1>1. func[s] \in Procs
  BY DEF TypeOK
<1>2. CASE KindOf[s] \notin Protected
  BY <1>1, <1>2 DEF KeptInv
<1>3. CASE KindOf[s] \in Protected
  <2>1. s \in Holders(func, func[s])
    BY <1>3 DEF Holders, OfKind
  <2>2. protects[func[s]] = Cardinality(Holders(func, func[s]))
    BY <1>1 DEF ProtectedExactly, Holders
  <2> QED
    BY <1>1, <2>1, <2>2, HoldersFinite, FS_EmptySet
<1> QED
  BY <1>2, <1>3

-----------------------------------------------------------------------------
(* The steps *)

\* A procedure that may be called is registered: by a program that has it, or
\* by a list function for an action.
LEMMA RegisterSafe ==
    ASSUME IInv, NEW s \in Slots, NEW q \in Procs \cup {None}, Replace(s, q),
           UNCHANGED <<held, freed>>,
           ProgramKeeps => q \notin freed,
           q \in held \cup {None} \/ KindOf[s] \in Protected
    PROVE  /\ func' \in [Slots -> Procs \cup {None}]
           /\ protects' \in [Procs -> 0 .. Cardinality(Slots)]
           /\ ProtectedExactly' /\ KeptInv'
           /\ ProgramKeeps => \A x \in Slots : func'[x] \notin freed'
<1>1. /\ func' \in [Slots -> Procs \cup {None}]
      /\ protects' \in [Procs -> 0 .. Cardinality(Slots)]
      /\ ProtectedExactly'
      /\ func'[s] = q /\ \A x \in Slots : x # s => func'[x] = func[x]
  BY ReplaceExact DEF IInv
<1>2. KeptInv'
  BY <1>1 DEF IInv, KeptInv
<1>3. ProgramKeeps => \A x \in Slots : func'[x] \notin freed'
  BY <1>1 DEF IInv, LiveInv, CallsLive
<1> QED
  BY <1>1, <1>2, <1>3

\* A step that changes no registration and makes the program forget nothing
LEMMA SameRegistrations ==
    ASSUME IInv, UNCHANGED <<func, protects>>, held \subseteq held'
    PROVE  ProtectedExactly' /\ KeptInv'
  BY DEF IInv, ProtectedExactly, KeptInv

\* g-io-add-watch, gconf-client-notify-add and the radio actions
LEMMA AddNewSafe ==
    ASSUME IInv, NEW kind, NEW s \in Slots, NEW p \in Procs, AddNew(kind, s, p)
    PROVE  IInv'
<1>1. /\ p \in held /\ Replace(s, p)
      /\ UNCHANGED <<held, freed, running, job, created, group, skipped>>
  BY DEF AddNew
<1>2. ProgramKeeps => p \notin freed
  BY <1>1 DEF IInv, LiveInv
<1>3. /\ func' \in [Slots -> Procs \cup {None}]
      /\ protects' \in [Procs -> 0 .. Cardinality(Slots)]
      /\ ProtectedExactly' /\ KeptInv'
      /\ ProgramKeeps => \A x \in Slots : func'[x] \notin freed'
  BY <1>1, <1>2, RegisterSafe
<1>4. TypeOK' /\ JobInv'
  BY <1>1, <1>3 DEF IInv, TypeOK, JobInv
<1>5. LiveInv'
  BY <1>1, <1>3 DEF IInv, LiveInv, CallsLive
<1> QED
  BY <1>3, <1>4, <1>5 DEF IInv

\* gtk-tree-view-column-set-cell-data-func, over another or over its own
LEMMA SetCellDataFuncSafe ==
    ASSUME IInv, NEW s \in Slots, NEW p \in Procs, SetCellDataFunc(s, p)
    PROVE  IInv'
<1>1. /\ p \in held /\ Replace(s, p)
      /\ UNCHANGED <<held, freed, running, job, created, group, skipped>>
  BY DEF SetCellDataFunc
<1>2. ProgramKeeps => p \notin freed
  BY <1>1 DEF IInv, LiveInv
<1>3. /\ func' \in [Slots -> Procs \cup {None}]
      /\ protects' \in [Procs -> 0 .. Cardinality(Slots)]
      /\ ProtectedExactly' /\ KeptInv'
      /\ ProgramKeeps => \A x \in Slots : func'[x] \notin freed'
  BY <1>1, <1>2, RegisterSafe
<1>4. TypeOK' /\ JobInv'
  BY <1>1, <1>3 DEF IInv, TypeOK, JobInv
<1>5. LiveInv'
  BY <1>1, <1>3 DEF IInv, LiveInv, CallsLive
<1> QED
  BY <1>3, <1>4, <1>5 DEF IInv

\* A call from C begins: its procedure joins those in progress.
LEMMA PushSafe ==
    ASSUME TypeOK, NEW c \in Calls, Len(running) < MaxDepth,
           running' = Append(running, c)
    PROVE  /\ running' \in Seq(Calls) /\ Len(running') <= MaxDepth
           /\ \A k \in DOMAIN running' :
                running'[k] = c \/ (k \in DOMAIN running /\ running'[k] = running[k])
<1>1. running \in Seq(Calls) /\ Len(running) \in Nat
  BY DEF TypeOK
<1>2. /\ running' \in Seq(Calls) /\ Len(running') = Len(running) + 1
      /\ \A k \in 1 .. Len(running) : running'[k] = running[k]
      /\ running'[Len(running) + 1] = c
  BY <1>1, AppendProperties
<1>3. DOMAIN running' = 1 .. Len(running') /\ DOMAIN running = 1 .. Len(running)
  BY <1>1, <1>2, LenProperties
<1>4. Len(running') <= MaxDepth
  <2>1. MaxDepth \in Nat
    BY KindsAssumption
  <2> QED
    BY <1>1, <1>2, <2>1
<1>5. \A k \in DOMAIN running' : k = Len(running) + 1 \/ k \in DOMAIN running
  BY <1>1, <1>2, <1>3
<1> QED
  BY <1>2, <1>3, <1>4, <1>5

\* gtk-menu-popup
LEMMA PopupSafe ==
    ASSUME IInv, NEW s \in Slots, NEW p \in Procs \cup {None}, Popup(s, p)
    PROVE  IInv'
<1> DEFINE call == [slot |-> s, proc |-> p, guile |-> TRUE]
<1>1. /\ p \in held \cup {None} /\ Replace(s, p)
      /\ UNCHANGED <<held, freed, job, created, group, skipped>>
      /\ p # None => Len(running) < MaxDepth /\ running' = Append(running, call)
      /\ p = None => running' = running
  BY DEF Popup
<1>2. ProgramKeeps => p \notin freed
  BY <1>1, NoneAssumption DEF IInv, LiveInv, TypeOK
<1>3. /\ func' \in [Slots -> Procs \cup {None}]
      /\ protects' \in [Procs -> 0 .. Cardinality(Slots)]
      /\ ProtectedExactly' /\ KeptInv'
      /\ ProgramKeeps => \A x \in Slots : func'[x] \notin freed'
  BY <1>1, <1>2, RegisterSafe
<1>4. CASE p = None
  BY <1>1, <1>3, <1>4 DEF IInv, TypeOK, LiveInv, CallsLive, JobInv
<1>5. CASE p # None
  <2>1. call \in Calls
    BY <1>5 DEF Calls
  <2>2. /\ running' \in Seq(Calls) /\ Len(running') <= MaxDepth
        /\ \A k \in DOMAIN running' :
             running'[k] = call \/ (k \in DOMAIN running /\ running'[k] = running[k])
    BY <1>1, <1>5, <2>1, PushSafe DEF IInv
  <2>3. TypeOK' /\ JobInv'
    BY <1>1, <1>3, <2>2 DEF IInv, TypeOK, JobInv
  <2>4. call.proc = p
    OBVIOUS
  <2>5. LiveInv'
    BY <1>1, <1>2, <1>3, <2>2, <2>4 DEF IInv, LiveInv, CallsLive
  <2> QED
    BY <1>3, <2>3, <2>5 DEF IInv
<1> QED
  BY <1>4, <1>5

\* A registration ends.
LEMMA RemoveSafe ==
    ASSUME IInv, NEW s \in Slots, Remove(s) \/ RemoveAction(s)
    PROVE  IInv'
<1>1. /\ Replace(s, None)
      /\ UNCHANGED <<held, freed, running, job, skipped>>
      /\ created' \subseteq created /\ group' \subseteq created'
      /\ job = NoJob
  BY DEF Remove, RemoveAction, SchemeRuns, IInv, TypeOK
<1>2. None \notin freed
  BY NoneAssumption DEF IInv, TypeOK
<1>3. /\ func' \in [Slots -> Procs \cup {None}]
      /\ protects' \in [Procs -> 0 .. Cardinality(Slots)]
      /\ ProtectedExactly' /\ KeptInv'
      /\ ProgramKeeps => \A x \in Slots : func'[x] \notin freed'
  BY <1>1, <1>2, RegisterSafe
<1>4. TypeOK' /\ JobInv'
  BY <1>1, <1>3 DEF IInv, TypeOK, JobInv, NoJob
<1>5. LiveInv'
  BY <1>1, <1>3 DEF IInv, LiveInv, CallsLive
<1> QED
  BY <1>3, <1>4, <1>5 DEF IInv

\* An entry in hand: what it is of
LEMMA EntryType ==
    ASSUME TypeOK, job.kind \in {"checked", "created"}
    PROVE  /\ job.slot \in OfKind({"action"}) /\ job.slot \in Slots
           /\ KindOf[job.slot] = "action"
           /\ job.proc \in Procs \cup {None}
           /\ [job EXCEPT !.kind = "created"] \in Jobs
           /\ [job EXCEPT !.kind = "created"].proc = job.proc
           /\ [job EXCEPT !.kind = "created"].slot = job.slot
  BY DEF TypeOK, Jobs, NoJob, Autoconnect, OfKind

\* The steps of gtk-action-group-add-actions
LEMMA AddActionsSafe == IInv /\ AddActions => IInv'
<1> SUFFICES ASSUME IInv, AddActions PROVE IInv'
  OBVIOUS
<1>1. ASSUME NEW s \in Slots, NEW p \in Procs \cup {None}, CheckEntry(s, p) PROVE IInv'
  <2>1. /\ p \in held \cup {None} /\ s \in OfKind({"action"})
        /\ job' = [kind |-> "checked", slot |-> s, proc |-> p]
        /\ UNCHANGED <<held, func, protects, freed, running, created, group, skipped>>
    BY <1>1 DEF CheckEntry
  <2>2. ProgramKeeps => job'.proc \notin freed
    BY <2>1, NoneAssumption DEF IInv, LiveInv, TypeOK
  <2>3. ProtectedExactly' /\ KeptInv'
    BY <2>1, SameRegistrations
  <2>4. TypeOK' /\ JobInv'
    BY <2>1 DEF IInv, TypeOK, JobInv, Jobs, NoJob, Autoconnect
  <2> QED
    BY <2>1, <2>2, <2>3, <2>4 DEF IInv, LiveInv, CallsLive
<1>2. ASSUME BadEntry \/ AddAction PROVE IInv'
  <2>1. /\ job.kind \in {"checked", "created"} /\ job' = NoJob
        /\ UNCHANGED <<held, func, protects, freed, running, created, skipped>>
        /\ group' \subseteq group \cup {job.slot}
        /\ group' # group => job.kind = "created"
    BY <1>2 DEF BadEntry, AddAction
  <2>2. ProgramKeeps => job'.proc \notin freed
    BY <2>1, NoneAssumption DEF IInv, TypeOK, NoJob
  <2>3. ProtectedExactly' /\ KeptInv'
    BY <2>1, SameRegistrations
  <2>4. TypeOK' /\ JobInv'
    BY <2>1 DEF IInv, TypeOK, JobInv, Jobs, NoJob
  <2> QED
    BY <2>1, <2>2, <2>3, <2>4 DEF IInv, LiveInv, CallsLive
<1>3. ASSUME NEW isProcedure \in BOOLEAN, CreateAction(isProcedure) PROVE IInv'
  <2> DEFINE q == IF isProcedure THEN job.proc ELSE None
  <2>1. /\ job.kind = "checked" /\ Replace(job.slot, q)
        /\ created' = created \cup {job.slot}
        /\ job' = IF isProcedure THEN [job EXCEPT !.kind = "created"] ELSE NoJob
        /\ UNCHANGED <<held, freed, running, group, skipped>>
    BY <1>3 DEF CreateAction
  <2>2. /\ job.slot \in OfKind({"action"}) /\ job.slot \in Slots
        /\ KindOf[job.slot] = "action" /\ q \in Procs \cup {None}
        /\ job' \in Jobs /\ job'.proc \in {job.proc, None}
    BY <2>1, EntryType DEF IInv, Jobs, NoJob
  <2>3. ProgramKeeps => q \notin freed /\ job'.proc \notin freed
    BY <2>2, NoneAssumption DEF IInv, LiveInv, TypeOK
  <2>4. KindOf[job.slot] \in Protected
    BY <2>2 DEF Protected
  <2>5. /\ func' \in [Slots -> Procs \cup {None}]
        /\ protects' \in [Procs -> 0 .. Cardinality(Slots)]
        /\ ProtectedExactly' /\ KeptInv'
        /\ ProgramKeeps => \A x \in Slots : func'[x] \notin freed'
    <3> HIDE DEF q
    <3> QED
      BY <2>1, <2>2, <2>3, <2>4, RegisterSafe
  <2>6. TypeOK'
    BY <2>1, <2>2, <2>5 DEF IInv, TypeOK
  <2>7. JobInv'
    BY <2>1, EntryType DEF IInv, JobInv, NoJob
  <2> QED
    BY <2>1, <2>3, <2>5, <2>6, <2>7 DEF IInv, LiveInv, CallsLive
<1> QED
  BY <1>1, <1>2, <1>3 DEF AddActions

\* The steps of glade-xml-signal-connect and -autoconnect
LEMMA ConnectManySafe == IInv /\ ConnectMany => IInv'
<1> SUFFICES ASSUME IInv, ConnectMany PROVE IInv'
  OBVIOUS
<1>1. ASSUME NEW allHandlers \in BOOLEAN, StartAutoconnect \/ EndAutoconnect(allHandlers)
      PROVE  IInv'
  <2>1. /\ job' \in {NoJob, Autoconnect}
        /\ UNCHANGED <<held, func, protects, freed, running, created, group>>
        /\ skipped' \in BOOLEAN
    BY <1>1 DEF StartAutoconnect, EndAutoconnect, IInv, TypeOK
  <2>2. ProgramKeeps => job'.proc \notin freed
    BY <2>1, NoneAssumption DEF IInv, TypeOK, NoJob, Autoconnect
  <2>3. ProtectedExactly' /\ KeptInv'
    BY <2>1, SameRegistrations
  <2>4. TypeOK' /\ JobInv'
    BY <2>1 DEF IInv, TypeOK, JobInv, Jobs, NoJob, Autoconnect
  <2> QED
    BY <2>1, <2>2, <2>3, <2>4 DEF IInv, LiveInv, CallsLive
<1>2. ASSUME NEW s \in Slots, NEW p \in Procs, ConnectOne(s, p) PROVE IInv'
  <2>1. /\ p \in held /\ Replace(s, p)
        /\ UNCHANGED <<held, freed, running, job, created, group, skipped>>
    BY <1>2 DEF ConnectOne
  <2>2. ProgramKeeps => p \notin freed
    BY <2>1 DEF IInv, LiveInv
  <2>3. /\ func' \in [Slots -> Procs \cup {None}]
        /\ protects' \in [Procs -> 0 .. Cardinality(Slots)]
        /\ ProtectedExactly' /\ KeptInv'
        /\ ProgramKeeps => \A x \in Slots : func'[x] \notin freed'
    BY <2>1, <2>2, RegisterSafe
  <2>4. TypeOK' /\ JobInv'
    BY <2>1, <2>3 DEF IInv, TypeOK, JobInv
  <2> QED
    BY <2>1, <2>3, <2>4 DEF IInv, LiveInv, CallsLive
<1> QED
  BY <1>1, <1>2 DEF ConnectMany

\* The library calls what a slot has.
LEMMA CallSafe ==
    ASSUME IInv, NEW s \in Slots, NEW loop \in BOOLEAN, Call(s, loop)
    PROVE  IInv'
<1> DEFINE call == [slot |-> s, proc |-> func[s], guile |-> KindOf[s] \in Guarded \/ ~loop]
<1>1. /\ func[s] # None /\ Len(running) < MaxDepth /\ running' = Append(running, call)
      /\ UNCHANGED <<held, func, protects, freed, job, created, group, skipped>>
  BY DEF Call
<1>2. call \in Calls /\ call.proc = func[s]
  BY <1>1 DEF IInv, TypeOK, Calls
<1>3. /\ running' \in Seq(Calls) /\ Len(running') <= MaxDepth
      /\ \A k \in DOMAIN running' :
           running'[k] = call \/ (k \in DOMAIN running /\ running'[k] = running[k])
  <2> HIDE DEF call
  <2> QED
    BY <1>1, <1>2, PushSafe DEF IInv
<1> HIDE DEF call
<1>4. ProtectedExactly' /\ KeptInv'
  BY <1>1, SameRegistrations
<1>5. TypeOK' /\ JobInv'
  BY <1>1, <1>3 DEF IInv, TypeOK, JobInv
<1>6. LiveInv'
  BY <1>1, <1>2, <1>3 DEF IInv, LiveInv, CallsLive
<1> QED
  BY <1>4, <1>5, <1>6 DEF IInv

\* Calls end: those that are left are the outer ones.
LEMMA PopSafe ==
    ASSUME TypeOK, NEW n \in 0 .. Len(running), running' = SubSeq(running, 1, n)
    PROVE  /\ running' \in Seq(Calls) /\ Len(running') <= MaxDepth
           /\ \A k \in DOMAIN running' : k \in DOMAIN running /\ running'[k] = running[k]
<1>1. /\ running \in Seq(Calls) /\ Len(running) \in Nat /\ Len(running) <= MaxDepth
      /\ DOMAIN running = 1 .. Len(running)
  BY LenProperties DEF TypeOK
<1>2. \A k \in 1 .. n : running[k] \in Calls
  BY <1>1, ElementOfSeq
<1>3. /\ running' \in Seq(Calls)
      /\ Len(running') = IF 1 <= n THEN n - 1 + 1 ELSE 0
      /\ \A k \in 1 .. n - 1 + 1 : running'[k] = running[1 + k - 1]
  BY <1>1, <1>2, SubSeqProperties
<1>4. DOMAIN running' = 1 .. Len(running')
  BY <1>3, LenProperties
<1>5. Len(running') = n
  BY <1>1, <1>3
<1>6. \A k \in 1 .. n : k \in DOMAIN running /\ running'[k] = running[k]
  BY <1>1, <1>3
<1>7. MaxDepth \in Nat
  BY KindsAssumption
<1> QED
  BY <1>1, <1>3, <1>4, <1>5, <1>6, <1>7

\* A watch's source that goes because its procedure said so, or threw
LEMMA WatchEnds ==
    ASSUME IInv, NEW x,
           \/ func' = [func EXCEPT ![x] = None] /\ KindOf[x] = "watch"
           \/ func' = func,
           UNCHANGED <<held, protects, freed>>
    PROVE  /\ func' \in [Slots -> Procs \cup {None}]
           /\ ProtectedExactly' /\ KeptInv'
           /\ ProgramKeeps => \A s \in Slots : func'[s] \notin freed'
<1>1. /\ func' \in [Slots -> Procs \cup {None}]
      /\ \A s \in Slots : func'[s] \in {func[s], None}
      /\ \A s \in OfKind(Protected) : func'[s] = func[s]
  BY DEF IInv, TypeOK, OfKind, Protected
<1>2. ProtectedExactly'
  BY <1>1, UnprotectedExact DEF IInv
<1>3. KeptInv'
  BY <1>1 DEF IInv, KeptInv
<1>4. ProgramKeeps => \A s \in Slots : func'[s] \notin freed'
  BY <1>1, NoneAssumption DEF IInv, LiveInv, CallsLive, TypeOK
<1> QED
  BY <1>1, <1>2, <1>3, <1>4

\* There is a last call, if any.
LEMMA RunningLen ==
    ASSUME TypeOK
    PROVE  Len(running) \in Nat /\ (running # <<>> => Len(running) > 0)
  BY LenProperties, EmptySeq DEF TypeOK

\* A procedure returns, or throws as far as the innermost guard.
LEMMA EndSafe ==
    ASSUME IInv, Throw \/ \E keep \in BOOLEAN : Return(keep)
    PROVE  IInv'
<1>0. Len(running) \in Nat /\ (running # <<>> => Len(running) > 0)
  BY RunningLen DEF IInv
<1>a. \A k \in 1..Len(running) : running[k].slot \in Slots
  <2>1. running \in Seq(Calls)
    BY DEF IInv, TypeOK
  <2>2. \A k \in 1..Len(running) : running[k] \in Calls
    BY <2>1, ElementOfSeq
  <2> QED
    BY <2>2 DEF Calls
<1>1. PICK n \in 0 .. Len(running), x \in Slots :
        /\ running' = SubSeq(running, 1, n)
        /\ \/ func' = [func EXCEPT ![x] = None] /\ KindOf[x] = "watch"
           \/ func' = func
        /\ skipped' \in BOOLEAN
        /\ UNCHANGED <<held, protects, freed, job, created, group>>
  <2>1. CASE Throw
    <3>1. PICK to \in 1 .. Len(running) :
            /\ running' = SubSeq(running, 1, to - 1)
            /\ func' = IF KindOf[running[to].slot] = "watch"
                       THEN [func EXCEPT ![running[to].slot] = None] ELSE func
            /\ skipped' = (skipped \/ ~Stops(running[to]) \/ to < Len(running))
            /\ UNCHANGED <<held, protects, freed, job, created, group>>
      BY <2>1 DEF Throw
    <3>2. to - 1 \in 0 .. Len(running)
      BY <1>0, <3>1
    <3>3. skipped' \in BOOLEAN
      BY <3>1 DEF IInv, TypeOK
    <3>4. running[to].slot \in Slots
      BY <1>a, <3>1
    <3> QED
      BY <3>1, <3>2, <3>3, <3>4
  <2>2. CASE \E keep \in BOOLEAN : Return(keep)
    <3>1. /\ running' = SubSeq(running, 1, Len(running) - 1) /\ running # <<>>
          /\ \/ func' = [func EXCEPT ![TopCall.slot] = None] /\ KindOf[TopCall.slot] = "watch"
             \/ func' = func
          /\ UNCHANGED <<held, protects, freed, job, created, group, skipped>>
      BY <2>2 DEF Return, Pop
    <3>2. Len(running) - 1 \in 0 .. Len(running)
      BY <1>0, <3>1
    <3>3. skipped' \in BOOLEAN
      BY <3>1 DEF IInv, TypeOK
    <3>4. TopCall.slot \in Slots
      <4>1. Len(running) \in 1 .. Len(running)
        BY <1>0, <3>1
      <4> QED
        BY <1>a, <4>1 DEF TopCall
    <3> QED
      BY <3>1, <3>2, <3>3, <3>4
  <2> QED
    BY <2>1, <2>2
<1>2. /\ running' \in Seq(Calls) /\ Len(running') <= MaxDepth
      /\ \A k \in DOMAIN running' : k \in DOMAIN running /\ running'[k] = running[k]
  BY <1>1, PopSafe DEF IInv
<1>3. /\ func' \in [Slots -> Procs \cup {None}]
      /\ ProtectedExactly' /\ KeptInv'
      /\ ProgramKeeps => \A s \in Slots : func'[s] \notin freed'
  BY <1>1, WatchEnds
<1>4. TypeOK' /\ JobInv'
  BY <1>1, <1>2, <1>3 DEF IInv, TypeOK, JobInv
<1>5. LiveInv'
  BY <1>1, <1>2, <1>3 DEF IInv, LiveInv, CallsLive
<1> QED
  BY <1>3, <1>4, <1>5 DEF IInv

\* The program lets go of a procedure, or a procedure in progress keeps one.
LEMMA ProgramSafe ==
    ASSUME IInv, NEW p \in Procs, Drop(p) \/ Keep(p)
    PROVE  IInv'
<1>1. /\ UNCHANGED <<func, protects, freed, running, job, created, group, skipped>>
      /\ held' = held \ {p} \/ held' = held \cup {p}
  BY DEF Drop, Keep
<1>2. TypeOK' /\ JobInv' /\ ProtectedExactly'
  BY <1>1 DEF IInv, TypeOK, JobInv, ProtectedExactly
<1>3. KeptInv'
  BY <1>1 DEF Drop, Keep, IInv, KeptInv
<1>4. LiveInv'
  BY <1>1 DEF Drop, Keep, IInv, LiveInv, CallsLive
<1> QED
  BY <1>2, <1>3, <1>4 DEF IInv

\* The collector finds everything that C may call.
LEMMA CollectSafe ==
    ASSUME IInv, Collect
    PROVE  IInv'
<1> DEFINE roots == held \cup OnStack \cup {p \in Procs : protects[p] > 0}
<1>1. /\ freed' = freed \cup (Procs \ roots)
      /\ UNCHANGED <<held, func, protects, running, job, created, group, skipped>>
  BY DEF Collect
<1>2. TypeOK' /\ JobInv' /\ ProtectedExactly' /\ KeptInv'
  BY <1>1 DEF IInv, TypeOK, JobInv, ProtectedExactly, KeptInv
<1>3. ASSUME ProgramKeeps PROVE LiveInv'
  <2>1. \A s \in Slots : func[s] \notin freed'
    <3>1. ASSUME NEW s \in Slots, func[s] # None PROVE func[s] \in roots
      BY <1>3, <3>1, RegisteredKept DEF IInv
    <3>2. \A s \in Slots : func[s] # None \/ func[s] \notin Procs
      BY NoneAssumption
    <3> QED
      BY <1>1, <1>3, <3>1, <3>2 DEF IInv, LiveInv, CallsLive
  <2>2. \A k \in DOMAIN running : running[k].proc \in roots
    BY DEF OnStack
  <2>3. job.proc \in roots \/ job.proc \notin Procs
    BY NoneAssumption DEF OnStack
  <2> QED
    BY <1>1, <1>3, <2>1, <2>2, <2>3 DEF IInv, LiveInv, CallsLive
<1> QED
  BY <1>2, <1>3 DEF IInv, LiveInv

\* At the start the program has everything.
LEMMA InitSafe == Init => IInv
<1> SUFFICES ASSUME Init PROVE IInv
  OBVIOUS
<1>1. \A p \in Procs : Holders(func, p) = {}
  BY NoneAssumption DEF Init, Holders, OfKind
<1>2. ProtectedExactly
  BY <1>1, FS_EmptySet DEF Init, ProtectedExactly, Holders
<1>3. TypeOK
  <2>1. Cardinality(Slots) \in Nat /\ MaxDepth \in Nat
    BY KindsAssumption, FS_CardinalityType
  <2>2. <<>> \in Seq(Calls) /\ Len(<<>>) = 0
    OBVIOUS
  <2>3. protects \in [Procs -> 0 .. Cardinality(Slots)]
    BY <2>1 DEF Init
  <2>4. running \in Seq(Calls) /\ Len(running) <= MaxDepth
    BY <2>1, <2>2 DEF Init
  <2> QED
    BY <2>3, <2>4 DEF Init, TypeOK, Jobs
<1>4. KeptInv /\ LiveInv /\ JobInv
  BY NoneAssumption DEF Init, KeptInv, LiveInv, CallsLive, JobInv, NoJob
<1> QED
  BY <1>2, <1>3, <1>4 DEF IInv

\* Every step keeps it.
LEMMA StepSafe == IInv /\ [Next]_vars => IInv'
<1> SUFFICES ASSUME IInv, [Next]_vars PROVE IInv'
  OBVIOUS
<1>1. CASE \E s \in Slots : Remove(s) \/ RemoveAction(s) \/ \E loop \in BOOLEAN : Call(s, loop)
  BY <1>1, RemoveSafe, CallSafe
<1>2. CASE \E s \in Slots, p \in Procs :
             AddWatch(s, p) \/ NotifyAdd(s, p) \/ AddRadioActions(s, p) \/ SetCellDataFunc(s, p)
  BY <1>2, AddNewSafe, SetCellDataFuncSafe DEF AddWatch, NotifyAdd, AddRadioActions
<1>3. CASE \E s \in Slots, p \in Procs \cup {None} : Popup(s, p)
  BY <1>3, PopupSafe
<1>4. CASE AddActions \/ ConnectMany
  BY <1>4, AddActionsSafe, ConnectManySafe
<1>5. CASE Throw \/ \E keep \in BOOLEAN : Return(keep)
  BY <1>5, EndSafe
<1>6. CASE \E p \in Procs : Drop(p) \/ Keep(p)
  BY <1>6, ProgramSafe
<1>7. CASE Collect
  BY <1>7, CollectSafe
<1>8. CASE UNCHANGED vars
  BY <1>8 DEF vars, IInv, TypeOK, JobInv, ProtectedExactly, KeptInv, LiveInv, CallsLive
<1> QED
  BY <1>1, <1>2, <1>3, <1>4, <1>5, <1>6, <1>7, <1>8 DEF Next

\* The invariant holds throughout.
LEMMA Invariant == Spec => []IInv
  BY InitSafe, StepSafe, PTL DEF Spec

-----------------------------------------------------------------------------
\* Whatever is registered, removed and replaced, and whenever the collector
\* runs: a procedure is protected exactly as often as registrations of it ask
\* for it.
THEOREM ProtectionsExact == Spec => []ProtectedExactly
<1>1. IInv => ProtectedExactly
  BY DEF IInv
<1> QED
  BY <1>1, Invariant, PTL

\* If the program keeps the procedures of IO watches, menus and radio actions,
\* which the wrappers do not protect, no procedure that C may call and none
\* in progress is ever freed.
THEOREM CalledIsAlive == ASSUME ProgramKeeps PROVE Spec => []CallsLive
<1>1. IInv => CallsLive
  BY DEF IInv, LiveInv
<1> QED
  BY <1>1, Invariant, PTL
================================================================================
