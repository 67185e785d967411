---------------------------- MODULE ClosuresProofs ----------------------------
(***************************************************************************)
(* For any closures, procedures, handlers and depth of emissions: every    *)
(* reference of a closure has one owner, its procedure is protected for    *)
(* exactly as long as it can be called, and no handler is called without   *)
(* its procedure.  The table that protects the procedures is at the end.   *)
(*                                                                         *)
(* A closure has its procedure until the last reference goes (FuncInv),    *)
(* and an invocation has a reference of its own from its start to its end  *)
(* (FrameInv), whoever disconnects or disposes meanwhile.                  *)
(***************************************************************************)
EXTENDS Closures, GcMarker, FiniteSetTheorems, SequenceTheorems, TLAPS

FuncInv == \A c \in Closures : func[c] # None <=> refs[c] > 0

\* Handlers that do not exist yet have no closure.
YoungInv == \A h \in Handlers : h >= next => conn[h] = None

FrameInv ==
    \A i \in 1..Len(emissions) :
        /\ emissions[i].at = "between" <=> emissions[i].closure = None
        /\ emissions[i].at = "calling" => emissions[i].proc # None

IInv == TypeOK /\ FuncInv /\ YoungInv /\ FrameInv /\ RefsExact /\ ProtectionExact

-----------------------------------------------------------------------------
(* Counting owners *)

Boxes(b, c) == IF b[c] = "none" THEN 0 ELSE 1
HandlersOf(f, c) == {h \in Handlers : f[h] = c}
FramesOf(e, c) == {i \in 1..Len(e) : e[i].closure = c}

\* The property in these terms
LEMMA OwnersCount ==
    RefsExact <=> \A c \in Closures :
        refs[c] = Boxes(box, c) + Cardinality(HandlersOf(conn, c))
                                + Cardinality(FramesOf(emissions, c))
  BY DEF RefsExact, Owners, Boxes, HandlersOf, FramesOf

\* Handlers are finitely many.
LEMMA HandlersFinite ==
    ASSUME NEW f, NEW c
    PROVE  IsFiniteSet(HandlersOf(f, c)) /\ Cardinality(HandlersOf(f, c)) \in Nat
<1>1. IsFiniteSet(1..MaxHandlers)
  BY BoundsAssumption, FS_Interval
<1>2. HandlersOf(f, c) \in SUBSET (1..MaxHandlers)
  BY DEF HandlersOf, Handlers
<1> QED
  BY <1>1, <1>2, FS_Subset, FS_CardinalityType

\* So are invocations in progress.
LEMMA FramesFinite ==
    ASSUME NEW e, Len(e) \in Nat, NEW c
    PROVE  IsFiniteSet(FramesOf(e, c)) /\ Cardinality(FramesOf(e, c)) \in Nat
<1>1. IsFiniteSet(1..Len(e))
  BY FS_Interval
<1>2. FramesOf(e, c) \in SUBSET (1..Len(e))
  BY DEF FramesOf
<1> QED
  BY <1>1, <1>2, FS_Subset, FS_CardinalityType

\* A set that gains or loses one element, or neither
LEMMA CountOne ==
    ASSUME NEW S, NEW T, IsFiniteSet(S), NEW x, \A y : y # x => (y \in S <=> y \in T)
    PROVE  Cardinality(T) = Cardinality(S) + (IF x \in T THEN 1 ELSE 0)
                                           - (IF x \in S THEN 1 ELSE 0)
<1>0. Cardinality(S) \in Nat
  BY FS_CardinalityType
<1>1. CASE x \in T /\ x \notin S
  <2>1. T = S \cup {x} /\ Cardinality(S \cup {x}) = Cardinality(S) + 1
    BY <1>1, FS_AddElement
  <2> QED
    BY <1>0, <1>1, <2>1
<1>2. CASE x \notin T /\ x \in S
  <2>1. T = S \ {x} /\ Cardinality(S \ {x}) = Cardinality(S) - 1
    BY <1>2, FS_RemoveElement
  <2> QED
    BY <1>0, <1>2, <2>1
<1>3. CASE x \in T <=> x \in S
  <2>1. T = S
    BY <1>3
  <2> QED
    BY <1>0, <1>3, <2>1
<1> QED
  BY <1>1, <1>2, <1>3

\* One handler gets or loses its closure.
LEMMA HandlersMove ==
    ASSUME NEW k \in Handlers, \A h \in Handlers : h # k => conn'[h] = conn[h], NEW c
    PROVE  Cardinality(HandlersOf(conn', c))
             = Cardinality(HandlersOf(conn, c)) + (IF conn'[k] = c THEN 1 ELSE 0)
                                                - (IF conn[k] = c THEN 1 ELSE 0)
<1>1. \A y : y # k => (y \in HandlersOf(conn, c) <=> y \in HandlersOf(conn', c))
  BY DEF HandlersOf
<1>2. /\ k \in HandlersOf(conn, c) <=> conn[k] = c
      /\ k \in HandlersOf(conn', c) <=> conn'[k] = c
  BY DEF HandlersOf
<1>3. Cardinality(HandlersOf(conn', c))
        = Cardinality(HandlersOf(conn, c)) + (IF k \in HandlersOf(conn', c) THEN 1 ELSE 0)
                                           - (IF k \in HandlersOf(conn, c) THEN 1 ELSE 0)
  BY <1>1, HandlersFinite, CountOne
<1> QED
  BY <1>2, <1>3

\* One emission begins or ends an invocation.
LEMMA FramesMove ==
    ASSUME NEW d, NEW e, Len(d) \in Nat, Len(e) = Len(d), NEW k \in 1..Len(d),
           \A i \in 1..Len(d) : i # k => e[i].closure = d[i].closure, NEW c
    PROVE  Cardinality(FramesOf(e, c))
             = Cardinality(FramesOf(d, c)) + (IF e[k].closure = c THEN 1 ELSE 0)
                                           - (IF d[k].closure = c THEN 1 ELSE 0)
<1>1. \A y : y # k => (y \in FramesOf(d, c) <=> y \in FramesOf(e, c))
  BY DEF FramesOf
<1>2. /\ k \in FramesOf(d, c) <=> d[k].closure = c
      /\ k \in FramesOf(e, c) <=> e[k].closure = c
  BY DEF FramesOf
<1>3. Cardinality(FramesOf(e, c))
        = Cardinality(FramesOf(d, c)) + (IF k \in FramesOf(e, c) THEN 1 ELSE 0)
                                      - (IF k \in FramesOf(d, c) THEN 1 ELSE 0)
  BY <1>1, FramesFinite, CountOne
<1> QED
  BY <1>2, <1>3

-----------------------------------------------------------------------------
(* References and protections *)

\* The closures that can call a procedure
Callers(r, f, p) == {c \in Closures : r[c] > 0 /\ f[c] = p}

LEMMA CallersFinite ==
    ASSUME NEW r, NEW f, NEW p
    PROVE  IsFiniteSet(Callers(r, f, p)) /\ Cardinality(Callers(r, f, p)) \in Nat
<1>1. IsFiniteSet(Closures) /\ Callers(r, f, p) \in SUBSET Closures
  BY ClosuresAssumption DEF Callers
<1> QED
  BY <1>1, FS_Subset, FS_CardinalityType

\* No step but Construct takes a protection, and no step gives one back but
\* Unref, for the closures whose last reference it is.
LEMMA UnrefExact ==
    ASSUME TypeOK, FuncInv, ProtectionExact,
           NEW drops \in [Closures -> Nat], \A c \in Closures : drops[c] <= refs[c],
           Unref(drops)
    PROVE  /\ refs' \in [Closures -> Nat]
           /\ \A c \in Closures : refs'[c] = refs[c] - drops[c]
           /\ func' \in [Closures -> Procs \cup {None}] /\ count' \in [Procs -> Nat]
           /\ FuncInv' /\ ProtectionExact'
<1> DEFINE dead == Freed(drops)
<1>1. /\ refs \in [Closures -> Nat] /\ func \in [Closures -> Procs \cup {None}]
      /\ refs' = [c \in Closures |-> refs[c] - drops[c]]
      /\ func' = [c \in Closures |-> IF c \in dead THEN None ELSE func[c]]
      /\ count' = [p \in Procs |-> count[p] - Cardinality({c \in dead : func[c] = p})]
  BY DEF TypeOK, Unref, FreeClosures
<1>2. \A c \in Closures :
        /\ refs[c] - drops[c] \in Nat
        /\ c \in dead <=> (refs[c] > 0 /\ refs[c] - drops[c] = 0 /\ drops[c] > 0)
  BY <1>1 DEF Freed
<1> HIDE DEF dead
<1>3. refs' \in [Closures -> Nat] /\ \A c \in Closures : refs'[c] = refs[c] - drops[c]
  BY <1>1, <1>2
<1>4. func' \in [Closures -> Procs \cup {None}]
  BY <1>1
<1>5. FuncInv'
  <2> SUFFICES ASSUME NEW c \in Closures PROVE func'[c] # None <=> refs'[c] > 0
    BY DEF FuncInv
  <2>1. func[c] # None <=> refs[c] > 0
    BY DEF FuncInv
  <2> QED
    BY <1>1, <1>2, <1>3, <2>1
<1>6. ASSUME NEW p \in Procs
      PROVE  count'[p] = Cardinality(Callers(refs', func', p))
  <2> DEFINE gone == {c \in dead : func[c] = p}
  <2>1. dead \subseteq Closures
    BY DEF dead, Freed
  <2>2. gone = Callers(refs, func, p) \cap gone
    BY <1>2, <2>1 DEF Callers
  <2>3. Callers(refs', func', p) = Callers(refs, func, p) \ gone
    <3> SUFFICES ASSUME NEW c \in Closures
                 PROVE  (refs'[c] > 0 /\ func'[c] = p)
                          <=> (refs[c] > 0 /\ func[c] = p /\ ~(c \in dead /\ func[c] = p))
      BY DEF Callers
    <3>1. refs[c] \in Nat /\ drops[c] \in Nat /\ drops[c] <= refs[c]
      BY <1>1
    <3>2. refs'[c] > 0 <=> (refs[c] > 0 /\ c \notin dead)
      BY <1>2, <1>3, <3>1
    <3>3. c \notin dead => func'[c] = func[c]
      BY <1>1
    <3> QED
      BY <3>2, <3>3
  <2>4. Cardinality(Callers(refs, func, p) \ gone)
          = Cardinality(Callers(refs, func, p)) - Cardinality(Callers(refs, func, p) \cap gone)
    BY CallersFinite, FS_Difference
  <2>5. count[p] = Cardinality(Callers(refs, func, p))
    BY DEF ProtectionExact, Callers
  <2>6. count'[p] = count[p] - Cardinality(gone)
    BY <1>1
  <2> QED
    BY <2>2, <2>3, <2>4, <2>5, <2>6
<1>7. ProtectionExact'
  BY <1>6 DEF ProtectionExact, Callers
<1>8. count' \in [Procs -> Nat]
  <2>1. \A p \in Procs : count'[p] \in Nat
    BY <1>6, CallersFinite
  <2> QED
    BY <1>1, <2>1
<1> QED
  BY <1>3, <1>4, <1>5, <1>7, <1>8

\* One reference given back
LEMMA UnrefOne ==
    ASSUME TypeOK, FuncInv, ProtectionExact,
           NEW d \in Closures, refs[d] > 0, Unref(One(d))
    PROVE  /\ refs' \in [Closures -> Nat]
           /\ \A c \in Closures : refs'[c] = refs[c] - (IF c = d THEN 1 ELSE 0)
           /\ func' \in [Closures -> Procs \cup {None}] /\ count' \in [Procs -> Nat]
           /\ FuncInv' /\ ProtectionExact'
<1> DEFINE drops == One(d)
<1>1. drops \in [Closures -> Nat] /\ \A c \in Closures : drops[c] = IF c = d THEN 1 ELSE 0
  BY DEF One
<1>2. \A c \in Closures : drops[c] <= refs[c]
  <2>1. \A c \in Closures : refs[c] \in Nat
    BY DEF TypeOK
  <2> HIDE DEF drops
  <2> QED
    BY <1>1, <2>1
<1>3. Unref(drops)
  OBVIOUS
<1> HIDE DEF drops
<1> QED
  BY <1>1, <1>2, <1>3, UnrefExact

\* One reference taken
LEMMA RefOne ==
    ASSUME TypeOK, FuncInv, ProtectionExact,
           NEW d \in Closures, refs[d] > 0, refs' = [refs EXCEPT ![d] = @ + 1],
           UNCHANGED <<func, count>>
    PROVE  /\ refs' \in [Closures -> Nat]
           /\ \A c \in Closures : refs'[c] = refs[c] + (IF c = d THEN 1 ELSE 0)
           /\ FuncInv' /\ ProtectionExact'
<1>1. /\ refs' \in [Closures -> Nat]
      /\ \A c \in Closures : refs'[c] = refs[c] + (IF c = d THEN 1 ELSE 0)
      /\ \A c \in Closures : refs'[c] > 0 <=> refs[c] > 0
  BY DEF TypeOK
<1>2. \A p \in Procs : Callers(refs', func, p) = Callers(refs, func, p)
  BY <1>1 DEF Callers
<1> QED
  BY <1>1, <1>2 DEF FuncInv, ProtectionExact, Callers

\* Who owns a closure keeps it.
LEMMA OwnerHolds ==
    ASSUME IInv
    PROVE  /\ Len(emissions) \in Nat /\ DOMAIN emissions = 1..Len(emissions)
           /\ \A i \in 1..Len(emissions) : emissions[i] \in Frames
           /\ emissions # <<>> => Len(emissions) \in 1..Len(emissions) /\ Top \in Frames
           /\ \A c \in Closures : refs[c] \in Nat /\ (box[c] # "none" => refs[c] > 0)
           /\ \A h \in Handlers : conn[h] # None => conn[h] \in Closures /\ refs[conn[h]] > 0
           /\ \A i \in 1..Len(emissions) : emissions[i].closure # None =>
                emissions[i].closure \in Closures /\ refs[emissions[i].closure] > 0
<1>1. /\ emissions \in Seq(Frames) /\ Len(emissions) \in Nat
      /\ DOMAIN emissions = 1..Len(emissions)
      /\ \A i \in 1..Len(emissions) : emissions[i] \in Frames
      /\ emissions # <<>> => Len(emissions) > 0
  BY LenProperties, EmptySeq, ElementOfSeq DEF IInv, TypeOK
<1>2. ASSUME NEW c \in Closures
      PROVE  /\ refs[c] = Boxes(box, c) + Cardinality(HandlersOf(conn, c))
                                        + Cardinality(FramesOf(emissions, c))
             /\ Boxes(box, c) \in Nat
             /\ Cardinality(HandlersOf(conn, c)) \in Nat
             /\ Cardinality(FramesOf(emissions, c)) \in Nat
             /\ Cardinality(HandlersOf(conn, c)) = 0 => HandlersOf(conn, c) = {}
             /\ Cardinality(FramesOf(emissions, c)) = 0 => FramesOf(emissions, c) = {}
  BY <1>1, OwnersCount, HandlersFinite, FramesFinite, FS_EmptySet DEF IInv, Boxes
<1>3. \A c \in Closures : refs[c] \in Nat /\ (box[c] # "none" => refs[c] > 0)
  BY <1>2 DEF Boxes, IInv, TypeOK
<1>4. ASSUME NEW h \in Handlers, conn[h] # None
      PROVE  conn[h] \in Closures /\ refs[conn[h]] > 0
  <2>1. conn[h] \in Closures
    BY <1>4 DEF IInv, TypeOK
  <2>2. HandlersOf(conn, conn[h]) # {}
    BY DEF HandlersOf
  <2> QED
    BY <1>2, <2>1, <2>2
<1>5. ASSUME NEW i \in 1..Len(emissions), emissions[i].closure # None
      PROVE  emissions[i].closure \in Closures /\ refs[emissions[i].closure] > 0
  <2>1. emissions[i].closure \in Closures
    BY <1>1, <1>5 DEF Frames
  <2>2. FramesOf(emissions, emissions[i].closure) # {}
    BY DEF FramesOf
  <2> QED
    BY <1>2, <2>1, <2>2
<1> QED
  BY <1>1, <1>3, <1>4, <1>5 DEF Top

\* The innermost emission goes on.
LEMMA TopMoves ==
    ASSUME IInv, emissions # <<>>, NEW f \in Frames, SetTop(f)
    PROVE  /\ emissions' \in Seq(Frames) /\ Len(emissions') = Len(emissions)
           /\ \A i \in 1..Len(emissions) :
                emissions'[i] = IF i = Len(emissions) THEN f ELSE emissions[i]
  BY OwnerHolds, ExceptSeq DEF IInv, TypeOK, SetTop

-----------------------------------------------------------------------------
(* Scheme *)

\* A new closure, with its procedure protected
LEMMA ConstructSafe ==
    ASSUME IInv, NEW c \in Closures, NEW p \in Procs, Construct(c, p)
    PROVE  IInv'
<1>1. /\ refs[c] = 0 /\ box[c] = "none"
      /\ count' = [count EXCEPT ![p] = @ + 1] /\ func' = [func EXCEPT ![c] = p]
      /\ refs' = [refs EXCEPT ![c] = 1] /\ box' = [box EXCEPT ![c] = "held"]
      /\ UNCHANGED <<conn, next, emissions, disposed>>
  BY DEF Construct, RefsOfNew
<1>2. /\ refs' \in [Closures -> Nat] /\ refs'[c] = 1 /\ func'[c] = p /\ p # None
      /\ func' \in [Closures -> Procs \cup {None}] /\ count' \in [Procs -> Nat]
      /\ box' \in [Closures -> {"none", "held", "dropped"}] /\ box'[c] = "held"
      /\ \A d \in Closures : d # c => refs'[d] = refs[d] /\ func'[d] = func[d] /\ box'[d] = box[d]
      /\ \A q \in Procs : count'[q] = count[q] + (IF q = p THEN 1 ELSE 0)
  BY <1>1, NoneAssumption DEF IInv, TypeOK
<1>3. TypeOK' /\ YoungInv' /\ FrameInv'
  BY <1>1, <1>2 DEF IInv, TypeOK, YoungInv, FrameInv
<1>4. FuncInv'
  BY <1>2 DEF IInv, FuncInv
<1>5. RefsExact'
  <2>1. ASSUME NEW d \in Closures
        PROVE  /\ refs[d] = Boxes(box, d) + Cardinality(HandlersOf(conn, d))
                                          + Cardinality(FramesOf(emissions, d))
               /\ Cardinality(HandlersOf(conn, d)) \in Nat
               /\ Cardinality(FramesOf(emissions, d)) \in Nat
    BY OwnersCount, OwnerHolds, HandlersFinite, FramesFinite DEF IInv
  <2>2. ASSUME NEW d \in Closures
        PROVE  refs'[d] = Boxes(box', d) + Cardinality(HandlersOf(conn, d))
                                         + Cardinality(FramesOf(emissions, d))
    BY <1>1, <1>2, <2>1 DEF Boxes
  <2> QED
    BY <1>1, <2>2 DEF RefsExact, Owners, Boxes, HandlersOf, FramesOf
<1>6. ProtectionExact'
  <2>1. ASSUME NEW q \in Procs PROVE count'[q] = Cardinality(Callers(refs', func', q))
    <3>1. count[q] = Cardinality(Callers(refs, func, q))
      BY DEF IInv, ProtectionExact, Callers
    <3>2. \A y : y # c => (y \in Callers(refs, func, q) <=> y \in Callers(refs', func', q))
      BY <1>2 DEF Callers
    <3>3. (c \in Callers(refs', func', q) <=> q = p) /\ c \notin Callers(refs, func, q)
      BY <1>1, <1>2 DEF Callers
    <3>4. Cardinality(Callers(refs', func', q)) = Cardinality(Callers(refs, func, q))
            + (IF c \in Callers(refs', func', q) THEN 1 ELSE 0)
            - (IF c \in Callers(refs, func, q) THEN 1 ELSE 0)
      BY <3>2, CallersFinite, CountOne
    <3> QED
      BY <1>2, <3>1, <3>3, <3>4, CallersFinite
  <2> QED
    BY <2>1 DEF ProtectionExact, Callers
<1> QED
  BY <1>3, <1>4, <1>5, <1>6 DEF IInv

\* A handler gets a reference of the closure.
LEMMA ConnectSafe ==
    ASSUME IInv, NEW d \in Closures, Connect(d)
    PROVE  IInv'
<1>1. /\ box[d] = "held" /\ next \in Handlers /\ conn' = [conn EXCEPT ![next] = d]
      /\ next' = next + 1 /\ refs' = [refs EXCEPT ![d] = @ + 1]
      /\ UNCHANGED <<box, func, count, emissions, disposed>>
  BY DEF Connect
<1>2. refs[d] > 0
  BY <1>1, OwnerHolds
<1>3. /\ refs' \in [Closures -> Nat]
      /\ \A c \in Closures : refs'[c] = refs[c] + (IF c = d THEN 1 ELSE 0)
      /\ FuncInv' /\ ProtectionExact'
  BY <1>1, <1>2, RefOne DEF IInv
<1>4. /\ conn' \in [Handlers -> Closures \cup {None}] /\ conn'[next] = d /\ conn[next] = None
      /\ \A h \in Handlers : h # next => conn'[h] = conn[h]
  BY <1>1 DEF IInv, TypeOK, YoungInv, Handlers
<1>5. next' \in 1..(MaxHandlers + 1)
  BY <1>1, BoundsAssumption DEF Handlers
<1>6. TypeOK' /\ FrameInv'
  BY <1>1, <1>3, <1>4, <1>5 DEF IInv, TypeOK, FrameInv
<1>7. YoungInv'
  <2> SUFFICES ASSUME NEW h \in Handlers, h >= next + 1 PROVE conn'[h] = None
    BY <1>1 DEF YoungInv
  <2>1. h # next /\ h >= next
    BY <1>1, BoundsAssumption DEF Handlers
  <2> QED
    BY <1>4, <2>1 DEF IInv, YoungInv
<1>8. RefsExact'
  <2>1. ASSUME NEW c \in Closures
        PROVE  refs'[c] = Boxes(box, c) + Cardinality(HandlersOf(conn', c))
                                        + Cardinality(FramesOf(emissions, c))
    <3>1. refs[c] = Boxes(box, c) + Cardinality(HandlersOf(conn, c))
                                  + Cardinality(FramesOf(emissions, c))
      BY OwnersCount DEF IInv
    <3>2. Cardinality(HandlersOf(conn', c)) = Cardinality(HandlersOf(conn, c))
            + (IF conn'[next] = c THEN 1 ELSE 0) - (IF conn[next] = c THEN 1 ELSE 0)
      <4>1. PICK k \in Handlers : k = next
        BY <1>1
      <4>2. \A h \in Handlers : h # k => conn'[h] = conn[h]
        BY <1>4, <4>1
      <4>3. Cardinality(HandlersOf(conn', c)) = Cardinality(HandlersOf(conn, c))
              + (IF conn'[k] = c THEN 1 ELSE 0) - (IF conn[k] = c THEN 1 ELSE 0)
        BY <4>2, HandlersMove
      <4> QED
        BY <4>1, <4>3
    <3>3. /\ Cardinality(HandlersOf(conn, c)) \in Nat
          /\ Cardinality(FramesOf(emissions, c)) \in Nat /\ Boxes(box, c) \in Nat
      BY OwnerHolds, HandlersFinite, FramesFinite DEF Boxes
    <3>4. None # c
      BY NoneAssumption
    <3> QED
      BY <1>3, <1>4, <3>1, <3>2, <3>3, <3>4
  <2> QED
    BY <1>1, <2>1 DEF RefsExact, Owners, Boxes, HandlersOf, FramesOf
<1> QED
  BY <1>3, <1>6, <1>7, <1>8 DEF IInv

\* A handler gives its reference back.
LEMMA DisconnectSafe ==
    ASSUME IInv, NEW k \in Handlers, Disconnect(k)
    PROVE  IInv'
<1> DEFINE d == conn[k]
<1>1. /\ d # None /\ conn' = [conn EXCEPT ![k] = None] /\ Unref(One(d))
      /\ UNCHANGED <<box, next, emissions, disposed>>
  BY DEF Disconnect
<1>2. d \in Closures /\ refs[d] > 0
  BY <1>1, OwnerHolds
<1>3. /\ conn' \in [Handlers -> Closures \cup {None}] /\ conn'[k] = None /\ conn[k] = d
      /\ \A h \in Handlers : h # k => conn'[h] = conn[h]
  BY <1>1 DEF IInv, TypeOK
<1> HIDE DEF d
<1>4. /\ refs' \in [Closures -> Nat]
      /\ \A c \in Closures : refs'[c] = refs[c] - (IF c = d THEN 1 ELSE 0)
      /\ func' \in [Closures -> Procs \cup {None}] /\ count' \in [Procs -> Nat]
      /\ FuncInv' /\ ProtectionExact'
  BY <1>1, <1>2, UnrefOne DEF IInv
<1>5. TypeOK' /\ FrameInv'
  BY <1>1, <1>3, <1>4 DEF IInv, TypeOK, FrameInv
<1>6. YoungInv'
  BY <1>1, <1>3 DEF IInv, YoungInv
<1>7. RefsExact'
  <2>1. ASSUME NEW c \in Closures
        PROVE  refs'[c] = Boxes(box, c) + Cardinality(HandlersOf(conn', c))
                                        + Cardinality(FramesOf(emissions, c))
    <3>1. refs[c] = Boxes(box, c) + Cardinality(HandlersOf(conn, c))
                                  + Cardinality(FramesOf(emissions, c))
      BY OwnersCount DEF IInv
    <3>2. Cardinality(HandlersOf(conn', c)) = Cardinality(HandlersOf(conn, c))
            + (IF conn'[k] = c THEN 1 ELSE 0) - (IF conn[k] = c THEN 1 ELSE 0)
      BY <1>3, HandlersMove
    <3>3. /\ Cardinality(HandlersOf(conn, c)) \in Nat
          /\ Cardinality(FramesOf(emissions, c)) \in Nat /\ Boxes(box, c) \in Nat
      BY OwnerHolds, HandlersFinite, FramesFinite DEF Boxes
    <3>4. None # c
      BY NoneAssumption
    <3> QED
      BY <1>3, <1>4, <3>1, <3>2, <3>3, <3>4
  <2> QED
    BY <1>1, <2>1 DEF RefsExact, Owners, Boxes, HandlersOf, FramesOf
<1> QED
  BY <1>4, <1>5, <1>6, <1>7 DEF IInv

\* Scheme drops a <gclosure>; it still has its reference.
LEMMA DropBoxSafe ==
    ASSUME IInv, NEW d \in Closures, DropBox(d)
    PROVE  IInv'
<1>1. /\ box[d] = "held" /\ box' = [box EXCEPT ![d] = "dropped"]
      /\ UNCHANGED <<refs, func, count, conn, next, emissions, disposed>>
  BY DEF DropBox
<1>2. /\ box' \in [Closures -> {"none", "held", "dropped"}]
      /\ \A c \in Closures : Boxes(box', c) = Boxes(box, c)
  BY <1>1 DEF IInv, TypeOK, Boxes
<1>3. RefsExact'
  BY <1>1, <1>2, OwnersCount DEF IInv, RefsExact, Owners, Boxes, HandlersOf, FramesOf
<1> QED
  BY <1>1, <1>2, <1>3 DEF IInv, TypeOK, FuncInv, YoungInv, FrameInv, ProtectionExact

\* The finalizer gives the reference of a <gclosure> back.
LEMMA FinalizeBoxSafe ==
    ASSUME IInv, NEW d \in Closures, FinalizeBox(d)
    PROVE  IInv'
<1>1. /\ box[d] = "dropped" /\ box' = [box EXCEPT ![d] = "none"] /\ Unref(One(d))
      /\ UNCHANGED <<conn, next, emissions, disposed>>
  BY DEF FinalizeBox
<1>2. refs[d] > 0
  BY <1>1, OwnerHolds
<1>3. /\ box' \in [Closures -> {"none", "held", "dropped"}]
      /\ \A c \in Closures : Boxes(box', c) = Boxes(box, c) - (IF c = d THEN 1 ELSE 0)
      /\ \A c \in Closures : Boxes(box, c) \in Nat
  BY <1>1 DEF IInv, TypeOK, Boxes
<1>4. /\ refs' \in [Closures -> Nat]
      /\ \A c \in Closures : refs'[c] = refs[c] - (IF c = d THEN 1 ELSE 0)
      /\ func' \in [Closures -> Procs \cup {None}] /\ count' \in [Procs -> Nat]
      /\ FuncInv' /\ ProtectionExact'
  BY <1>1, <1>2, UnrefOne DEF IInv
<1>5. TypeOK' /\ FrameInv' /\ YoungInv'
  BY <1>1, <1>3, <1>4 DEF IInv, TypeOK, FrameInv, YoungInv
<1>6. RefsExact'
  <2>1. ASSUME NEW c \in Closures
        PROVE  refs'[c] = Boxes(box', c) + Cardinality(HandlersOf(conn, c))
                                         + Cardinality(FramesOf(emissions, c))
    <3>1. refs[c] = Boxes(box, c) + Cardinality(HandlersOf(conn, c))
                                  + Cardinality(FramesOf(emissions, c))
      BY OwnersCount DEF IInv
    <3>2. /\ Cardinality(HandlersOf(conn, c)) \in Nat
          /\ Cardinality(FramesOf(emissions, c)) \in Nat
      BY OwnerHolds, HandlersFinite, FramesFinite
    <3> QED
      BY <1>3, <1>4, <3>1, <3>2
  <2> QED
    BY <1>1, <2>1 DEF RefsExact, Owners, Boxes, HandlersOf, FramesOf
<1> QED
  BY <1>4, <1>5, <1>6 DEF IInv

-----------------------------------------------------------------------------
(* Emissions *)

\* An emission begins or ends: it has no invocation in progress.
LEMMA EmissionSafe ==
    ASSUME IInv, Emit \/ EndEmission
    PROVE  IInv'
<1> DEFINE new == [limit |-> next, last |-> 0, closure |-> None,
                   at |-> "between", proc |-> None]
<1>0. /\ emissions \in Seq(Frames) /\ Len(emissions) \in Nat
      /\ \A i \in 1..Len(emissions) : emissions[i] \in Frames
  BY OwnerHolds DEF IInv, TypeOK
<1>1. UNCHANGED <<box, refs, func, count, conn, next, disposed>>
  BY DEF Emit, EndEmission
<1>2. /\ emissions' \in Seq(Frames) /\ FrameInv'
      /\ \A c \in Closures : FramesOf(emissions', c) = FramesOf(emissions, c)
  <2>1. CASE Emit
    <3>1. new \in Frames /\ new.at = "between" /\ new.closure = None
      BY BoundsAssumption DEF Frames, IInv, TypeOK
    <3>2. emissions' = Append(emissions, new)
      BY <2>1 DEF Emit
    <3> HIDE DEF new
    <3>3. /\ emissions' \in Seq(Frames) /\ Len(emissions') = Len(emissions) + 1
          /\ \A i \in 1..Len(emissions) : emissions'[i] = emissions[i]
          /\ emissions'[Len(emissions) + 1] = new
      BY <1>0, <3>1, <3>2, AppendProperties
    <3>4. \A i \in 1..Len(emissions') : i \in 1..Len(emissions) \/ i = Len(emissions) + 1
      BY <1>0, <3>3
    <3>5. FrameInv'
      BY <3>1, <3>3, <3>4 DEF IInv, FrameInv
    <3>6. 1..Len(emissions) \subseteq 1..Len(emissions')
      BY <1>0, <3>3
    <3>7. ASSUME NEW c \in Closures PROVE FramesOf(emissions', c) = FramesOf(emissions, c)
      <4>1. None # c
        BY NoneAssumption
      <4> QED
        BY <3>1, <3>3, <3>4, <3>6, <4>1 DEF FramesOf
    <3> QED
      BY <3>3, <3>5, <3>7
  <2>2. CASE EndEmission
    <3> DEFINE n == Len(emissions)
    <3>1. /\ emissions # <<>> /\ emissions[n].at = "between"
          /\ emissions' = SubSeq(emissions, 1, n - 1)
      BY <2>2 DEF EndEmission, Top
    <3>2. n \in 1..n /\ n \in Nat
      BY <3>1, OwnerHolds
    <3>3. emissions[n].closure = None
      BY <3>1, <3>2 DEF IInv, FrameInv
    <3>4. /\ \A i \in 1..(n - 1) : emissions[i] \in Frames
          /\ n - 1 \in Int /\ 1 \in Int
      BY <1>0, <3>2
    <3> HIDE DEF n
    <3>5. /\ emissions' \in Seq(Frames)
          /\ Len(emissions') = IF 1 <= n - 1 THEN (n - 1) - 1 + 1 ELSE 0
          /\ \A i \in 1..((n - 1) - 1 + 1) : emissions'[i] = emissions[1 + i - 1]
      BY <3>1, <3>4, SubSeqProperties
    <3>6. Len(emissions') = n - 1 /\ \A i \in 1..(n - 1) : emissions'[i] = emissions[i]
      BY <3>2, <3>5
    <3>7. 1..(n - 1) = (1..n) \ {n}
      BY <3>2
    <3>8. FrameInv'
      BY <3>6, <3>7 DEF n, IInv, FrameInv
    <3>9. ASSUME NEW c \in Closures PROVE FramesOf(emissions', c) = FramesOf(emissions, c)
      <4>1. None # c
        BY NoneAssumption
      <4> QED
        BY <3>3, <3>6, <3>7, <4>1 DEF n, FramesOf
    <3> QED
      BY <3>5, <3>8, <3>9
  <2> QED
    BY <2>1, <2>2
<1>3. RefsExact'
  BY <1>1, <1>2, OwnersCount DEF IInv, RefsExact, Owners, Boxes, HandlersOf, FramesOf
<1> QED
  BY <1>1, <1>2, <1>3 DEF IInv, TypeOK, FuncInv, YoungInv, ProtectionExact

\* An invocation begins, with a reference of its own.
LEMMA InvokeSafe ==
    ASSUME IInv, NEW h \in Handlers, Invoke(h)
    PROVE  IInv'
<1> DEFINE d == conn[h]
           f == [Top EXCEPT !.last = h, !.closure = d, !.at = "converting"]
           n == Len(emissions)
<1>1. /\ emissions # <<>> /\ Top.at = "between" /\ d # None
      /\ refs' = [refs EXCEPT ![d] = @ + 1] /\ SetTop(f)
      /\ UNCHANGED <<box, func, count, conn, next, disposed>>
  BY DEF Invoke, ToCall
<1>2. d \in Closures /\ refs[d] > 0 /\ n \in 1..n /\ n \in Nat /\ Top \in Frames
  BY <1>1, OwnerHolds
<1>3. Top = emissions[n] /\ emissions[n].closure = None
  BY <1>1, <1>2 DEF Top, IInv, FrameInv
<1> HIDE DEF d
<1>4. f \in Frames /\ f.closure = d /\ f.at = "converting"
  <2>1. h \in 0..MaxHandlers
    BY BoundsAssumption DEF Handlers
  <2> QED
    BY <1>2, <2>1 DEF Frames
<1> HIDE DEF f
<1>5. /\ emissions' \in Seq(Frames) /\ Len(emissions') = n
      /\ \A i \in 1..n : emissions'[i] = IF i = n THEN f ELSE emissions[i]
  BY <1>1, <1>4, TopMoves
<1>6. /\ refs' \in [Closures -> Nat]
      /\ \A c \in Closures : refs'[c] = refs[c] + (IF c = d THEN 1 ELSE 0)
      /\ FuncInv' /\ ProtectionExact'
  BY <1>1, <1>2, RefOne DEF IInv
<1>7. TypeOK' /\ YoungInv'
  BY <1>1, <1>5, <1>6 DEF IInv, TypeOK, YoungInv
<1>8. d # None
  BY <1>1
<1>9. FrameInv'
  BY <1>4, <1>5, <1>8 DEF IInv, FrameInv
<1>10. RefsExact'
  <2>1. ASSUME NEW c \in Closures
        PROVE  refs'[c] = Boxes(box, c) + Cardinality(HandlersOf(conn, c))
                                        + Cardinality(FramesOf(emissions', c))
    <3>1. refs[c] = Boxes(box, c) + Cardinality(HandlersOf(conn, c))
                                  + Cardinality(FramesOf(emissions, c))
      BY OwnersCount DEF IInv
    <3>2. Cardinality(FramesOf(emissions', c)) = Cardinality(FramesOf(emissions, c))
            + (IF emissions'[n].closure = c THEN 1 ELSE 0)
            - (IF emissions[n].closure = c THEN 1 ELSE 0)
      BY <1>2, <1>5, FramesMove
    <3>3. /\ Cardinality(HandlersOf(conn, c)) \in Nat
          /\ Cardinality(FramesOf(emissions, c)) \in Nat /\ Boxes(box, c) \in Nat
      BY OwnerHolds, HandlersFinite, FramesFinite DEF Boxes
    <3>4. None # c /\ emissions'[n].closure = d
      BY NoneAssumption, <1>2, <1>4, <1>5
    <3> QED
      BY <1>3, <1>6, <3>1, <3>2, <3>3, <3>4
  <2> QED
    BY <1>1, <2>1 DEF RefsExact, Owners, Boxes, HandlersOf, FramesOf
<1> QED
  BY <1>6, <1>7, <1>9, <1>10 DEF IInv

\* The closure that is invoked has its procedure still.
LEMMA ApplySafe ==
    ASSUME IInv, Apply
    PROVE  IInv'
<1> DEFINE p == func[Top.closure]
           f == [Top EXCEPT !.at = "calling", !.proc = p]
           n == Len(emissions)
<1>1. /\ emissions # <<>> /\ Top.at = "converting" /\ SetTop(f)
      /\ UNCHANGED <<box, refs, func, count, conn, next, disposed>>
  BY DEF Apply
<1>2. n \in 1..n /\ n \in Nat /\ Top \in Frames /\ Top = emissions[n]
  BY <1>1, OwnerHolds DEF Top
<1>3. Top.closure # None
  BY <1>1, <1>2 DEF IInv, FrameInv
<1>4. Top.closure \in Closures /\ refs[Top.closure] > 0
  BY <1>2, <1>3, OwnerHolds
<1>5. p # None /\ p \in Procs \cup {None}
  BY <1>4 DEF IInv, FuncInv, TypeOK
<1>6. f \in Frames /\ f.closure = Top.closure /\ f.at = "calling" /\ f.proc = p
  BY <1>2, <1>5 DEF Frames
<1> HIDE DEF f, p
<1>7. /\ emissions' \in Seq(Frames) /\ Len(emissions') = n
      /\ \A i \in 1..n : emissions'[i] = IF i = n THEN f ELSE emissions[i]
  BY <1>1, <1>6, TopMoves
<1>8. FrameInv'
  BY <1>2, <1>3, <1>5, <1>6, <1>7 DEF IInv, FrameInv
<1>9. \A c \in Closures : FramesOf(emissions', c) = FramesOf(emissions, c)
  BY <1>2, <1>6, <1>7 DEF FramesOf
<1>10. RefsExact'
  BY <1>1, <1>9, OwnersCount DEF IInv, RefsExact, Owners, Boxes, HandlersOf, FramesOf
<1> QED
  BY <1>1, <1>7, <1>8, <1>10 DEF IInv, TypeOK, FuncInv, YoungInv, ProtectionExact

\* The invocation gives its reference back.
LEMMA ReturnSafe ==
    ASSUME IInv, Return
    PROVE  IInv'
<1> DEFINE d == Top.closure
           f == [Top EXCEPT !.at = "between", !.closure = None, !.proc = None]
           n == Len(emissions)
<1>1. /\ emissions # <<>> /\ Top.at = "calling" /\ SetTop(f) /\ Unref(One(d))
      /\ UNCHANGED <<box, conn, next, disposed>>
  BY DEF Return
<1>2. n \in 1..n /\ n \in Nat /\ Top \in Frames /\ Top = emissions[n]
  BY <1>1, OwnerHolds DEF Top
<1>3. d # None /\ emissions[n].closure = d
  BY <1>1, <1>2 DEF IInv, FrameInv
<1>4. d \in Closures /\ refs[d] > 0
  BY <1>2, <1>3, OwnerHolds
<1>5. f \in Frames /\ f.closure = None /\ f.at = "between"
  BY <1>2 DEF Frames
<1> HIDE DEF d, f
<1>6. /\ emissions' \in Seq(Frames) /\ Len(emissions') = n
      /\ \A i \in 1..n : emissions'[i] = IF i = n THEN f ELSE emissions[i]
  BY <1>1, <1>5, TopMoves
<1>7. /\ refs' \in [Closures -> Nat]
      /\ \A c \in Closures : refs'[c] = refs[c] - (IF c = d THEN 1 ELSE 0)
      /\ func' \in [Closures -> Procs \cup {None}] /\ count' \in [Procs -> Nat]
      /\ FuncInv' /\ ProtectionExact'
  BY <1>1, <1>4, UnrefOne DEF IInv
<1>8. TypeOK' /\ YoungInv'
  BY <1>1, <1>6, <1>7 DEF IInv, TypeOK, YoungInv
<1>9. FrameInv'
  BY <1>5, <1>6 DEF IInv, FrameInv
<1>10. RefsExact'
  <2>1. ASSUME NEW c \in Closures
        PROVE  refs'[c] = Boxes(box, c) + Cardinality(HandlersOf(conn, c))
                                        + Cardinality(FramesOf(emissions', c))
    <3>1. refs[c] = Boxes(box, c) + Cardinality(HandlersOf(conn, c))
                                  + Cardinality(FramesOf(emissions, c))
      BY OwnersCount DEF IInv
    <3>2. Cardinality(FramesOf(emissions', c)) = Cardinality(FramesOf(emissions, c))
            + (IF emissions'[n].closure = c THEN 1 ELSE 0)
            - (IF emissions[n].closure = c THEN 1 ELSE 0)
      BY <1>2, <1>6, FramesMove
    <3>3. /\ Cardinality(HandlersOf(conn, c)) \in Nat
          /\ Cardinality(FramesOf(emissions, c)) \in Nat /\ Boxes(box, c) \in Nat
      BY OwnerHolds, HandlersFinite, FramesFinite DEF Boxes
    <3>4. None # c /\ emissions'[n].closure = None
      BY NoneAssumption, <1>2, <1>5, <1>6
    <3> QED
      BY <1>3, <1>7, <3>1, <3>2, <3>3, <3>4
  <2> QED
    BY <1>1, <2>1 DEF RefsExact, Owners, Boxes, HandlersOf, FramesOf
<1> QED
  BY <1>7, <1>8, <1>9, <1>10 DEF IInv

\* All handlers give their references back at once; invocations keep theirs.
LEMMA DisposeSafe ==
    ASSUME IInv, Dispose
    PROVE  IInv'
<1> DEFINE drops == [c \in Closures |-> Cardinality(HandlersOf(conn, c))]
<1>1. /\ disposed' = TRUE /\ conn' = [h \in Handlers |-> None] /\ Unref(drops)
      /\ UNCHANGED <<box, next, emissions>>
  BY DEF Dispose, HandlersOf
<1>2. ASSUME NEW c \in Closures
      PROVE  /\ refs[c] = Boxes(box, c) + drops[c] + Cardinality(FramesOf(emissions, c))
             /\ drops[c] \in Nat /\ Boxes(box, c) \in Nat
             /\ Cardinality(FramesOf(emissions, c)) \in Nat
  BY OwnersCount, OwnerHolds, HandlersFinite, FramesFinite DEF IInv, Boxes
<1>3. drops \in [Closures -> Nat] /\ \A c \in Closures : drops[c] <= refs[c]
  BY <1>2
<1> HIDE DEF drops
<1>4. /\ refs' \in [Closures -> Nat]
      /\ \A c \in Closures : refs'[c] = refs[c] - drops[c]
      /\ func' \in [Closures -> Procs \cup {None}] /\ count' \in [Procs -> Nat]
      /\ FuncInv' /\ ProtectionExact'
  BY <1>1, <1>3, UnrefExact DEF IInv
<1>5. TypeOK' /\ FrameInv' /\ YoungInv'
  BY <1>1, <1>4 DEF IInv, TypeOK, FrameInv, YoungInv
<1>6. RefsExact'
  <2>1. ASSUME NEW c \in Closures
        PROVE  refs'[c] = Boxes(box, c) + Cardinality(HandlersOf(conn', c))
                                        + Cardinality(FramesOf(emissions, c))
    <3>1. HandlersOf(conn', c) = {}
      BY <1>1, NoneAssumption DEF HandlersOf
    <3>2. Cardinality(HandlersOf(conn', c)) = 0
      BY <3>1, FS_EmptySet
    <3> QED
      BY <1>2, <1>4, <3>2
  <2> QED
    BY <1>1, <2>1 DEF RefsExact, Owners, Boxes, HandlersOf, FramesOf
<1> QED
  BY <1>4, <1>5, <1>6 DEF IInv

-----------------------------------------------------------------------------
\* At the start there are no closures.
LEMMA InitSafe == Init => IInv
<1> SUFFICES ASSUME Init PROVE IInv
  OBVIOUS
<1>1. emissions = <<>> /\ Len(emissions) = 0 /\ 1..Len(emissions) = {}
  BY DEF Init
<1>2. TypeOK
  <2>1. 1 \in 1..(MaxHandlers + 1)
    BY BoundsAssumption
  <2>2. emissions \in Seq(Frames)
    BY <1>1
  <2> QED
    BY <2>1, <2>2 DEF Init, TypeOK
<1>3. FuncInv /\ YoungInv /\ FrameInv
  BY <1>1 DEF Init, FuncInv, YoungInv, FrameInv
<1>4. RefsExact
  <2> SUFFICES ASSUME NEW c \in Closures PROVE refs[c] = Owners(c)
    BY DEF RefsExact
  <2>1. /\ {h \in Handlers : conn[h] = c} = {}
        /\ {i \in 1..Len(emissions) : emissions[i].closure = c} = {}
    BY <1>1, NoneAssumption DEF Init
  <2>2. refs[c] = 0 /\ box[c] = "none"
    BY DEF Init
  <2>3. Cardinality({}) = 0
    BY FS_EmptySet
  <2>4. /\ Cardinality({h \in Handlers : conn[h] = c}) = 0
        /\ Cardinality({i \in 1..Len(emissions) : emissions[i].closure = c}) = 0
    BY <2>1, <2>3
  <2> QED
    BY <2>2, <2>4 DEF Owners
<1>5. ProtectionExact
  <2> SUFFICES ASSUME NEW p \in Procs PROVE count[p] = Cardinality(Callers(refs, func, p))
    BY DEF ProtectionExact, Callers
  <2>1. Callers(refs, func, p) = {}
    BY DEF Init, Callers
  <2> QED
    BY <2>1, FS_EmptySet DEF Init
<1> QED
  BY <1>2, <1>3, <1>4, <1>5 DEF IInv

\* Every step keeps it.
LEMMA StepSafe == IInv /\ [Next]_vars => IInv'
<1> SUFFICES ASSUME IInv, [Next]_vars PROVE IInv'
  OBVIOUS
<1>1. CASE \E c \in Closures :
             \/ \E p \in Procs : Construct(c, p)
             \/ Connect(c) \/ DropBox(c) \/ FinalizeBox(c)
  BY <1>1, ConstructSafe, ConnectSafe, DropBoxSafe, FinalizeBoxSafe
<1>2. CASE \E h \in Handlers : Disconnect(h) \/ Invoke(h)
  BY <1>2, DisconnectSafe, InvokeSafe
<1>3. CASE Emit \/ EndEmission
  BY <1>3, EmissionSafe
<1>4. CASE Apply \/ Return \/ Dispose
  BY <1>4, ApplySafe, ReturnSafe, DisposeSafe
<1>5. CASE UNCHANGED vars
  <2>1. UNCHANGED <<box, refs, func, count, conn, next, emissions, disposed>>
    BY <1>5 DEF vars
  <2>2. TypeOK' /\ FuncInv' /\ YoungInv' /\ FrameInv'
    BY <2>1 DEF IInv, TypeOK, FuncInv, YoungInv, FrameInv
  <2>3. RefsExact' /\ ProtectionExact'
    BY <2>1 DEF IInv, RefsExact, Owners, ProtectionExact
  <2> QED
    BY <2>2, <2>3 DEF IInv
<1> QED
  BY <1>1, <1>2, <1>3, <1>4, <1>5 DEF Next

\* The invariant holds throughout.
LEMMA Invariant == Spec => []IInv
  BY InitSafe, StepSafe, PTL DEF Spec

-----------------------------------------------------------------------------
\* Connecting, emitting, disconnecting, disposing and finalizing in any order
\* and to any depth leave each closure with one reference per owner.
THEOREM ReferencesOwned == Spec => []RefsExact
<1>1. IInv => RefsExact
  BY DEF IInv
<1> QED
  BY <1>1, Invariant, PTL

\* gc.c's table has each procedure once for every closure that can call it:
\* none is freed under a handler, and none stays for ever.
THEOREM ProceduresProtected == Spec => []ProtectionExact
<1>1. IInv => ProtectionExact
  BY DEF IInv
<1> QED
  BY <1>1, Invariant, PTL

\* scm_gclosure_marshal calls the procedure that was connected, whatever the
\* conversion of its parameters did to the handler.
THEOREM HandlersHaveProcedures == Spec => []AppliesProcedure
<1>1. IInv => AppliesProcedure
  BY DEF IInv, FrameInv, AppliesProcedure
<1> QED
  BY <1>1, Invariant, PTL

-----------------------------------------------------------------------------
(***************************************************************************)
(* The table itself (GcMarker)                                             *)
(*                                                                         *)
(* A closure relies on the table of gc.c for the protection that count     *)
(* stands for.  For any number of threads and objects: no protection is    *)
(* lost, and what a GLib data structure protects is never collected.  The  *)
(* lock is what makes it inductive: only its holder is between lookup and  *)
(* insert, so that the value it read is still the value in the table.      *)
(***************************************************************************)
\* Only the holder of the lock is inside protect or unprotect, and the value
\* it has read is still right.
LockHeld ==
    \A t \in Threads :
        /\ op[t] # Idle => lock = t
        /\ op[t] # Idle /\ op[t].at = "read" => op[t].val = entries[op[t].obj]
        /\ op[t] # Idle /\ op[t].kind = "protect" => op[t].obj \in root

KeysInv ==
    /\ \A o \in Objects : entries[o] > 0 => o \in keys
    /\ root \subseteq alive

TableInv == TableTypeOK /\ LockHeld /\ KeysInv /\ NoLostUpdate /\ ProtectedSurvives

-----------------------------------------------------------------------------
\* What an operation in progress is made of.
LEMMA TableOpType ==
    ASSUME TableTypeOK, NEW t \in Threads, op[t] # Idle
    PROVE  /\ op[t].kind \in Kinds /\ op[t].obj \in Objects
           /\ op[t].at \in {"locked", "read"}
           /\ op[t].at = "read" => op[t].val \in Nat
  BY DEF TableTypeOK, Ops, Idle, Kinds

\* At the start nothing is protected.
LEMMA TableInitSafe == TableInit => TableInv
  BY DEF TableInit, TableInv, TableTypeOK, LockHeld, KeysInv, NoLostUpdate,
         Unprotecting, ProtectedSurvives, Ops, Idle

\* protect, before it has read the table.
LEMMA ProtectSafe ==
    ASSUME TableInv, NEW t \in Threads, NEW o \in Objects,
           Protect(t, o)
    PROVE  TableInv'
<1> USE DEF TableInv
<1> DEFINE new == [kind |-> "protect", obj |-> o, at |-> "locked"]
<1>1. /\ lock = Nobody /\ lock' = t /\ op[t] = Idle
      /\ op' = [op EXCEPT ![t] = new]
      /\ root' = root \cup {o}
      /\ o \in root \/ owed[o] > 0
      /\ UNCHANGED <<keys, entries, owed, alive, gc>>
  BY DEF Protect, Lock
<1>2. new \in Ops /\ new # Idle
  BY DEF Ops, Idle, Kinds
<1>3. /\ op'[t] = new
      /\ \A u \in Threads : u # t => op'[u] = Idle /\ op[u] = Idle
  BY <1>1, NobodyAssumption DEF TableTypeOK, LockHeld
<1>4. TableTypeOK'
  BY <1>1, <1>2 DEF TableTypeOK
<1>5. LockHeld'
  BY <1>1, <1>3 DEF LockHeld
<1>6. \A x \in Objects : Unprotecting(x)' <=> Unprotecting(x)
  BY <1>1, <1>3 DEF Unprotecting
<1>7. NoLostUpdate'
  BY <1>1, <1>6 DEF NoLostUpdate
<1>8. KeysInv' /\ ProtectedSurvives'
  BY <1>1 DEF KeysInv, ProtectedSurvives
<1> QED
  BY <1>4, <1>5, <1>7, <1>8

\* unprotect, before it has read the table.
LEMMA UnprotectSafe ==
    ASSUME TableInv, NEW t \in Threads, NEW o \in Objects,
           Unprotect(t, o)
    PROVE  TableInv'
<1> USE DEF TableInv
<1> DEFINE new == [kind |-> "unprotect", obj |-> o, at |-> "locked"]
<1>1. /\ lock = Nobody /\ lock' = t /\ op[t] = Idle /\ owed[o] > 0
      /\ op' = [op EXCEPT ![t] = new]
      /\ owed' = [owed EXCEPT ![o] = @ - 1]
      /\ UNCHANGED <<keys, entries, root, alive, gc>>
  BY DEF Unprotect, Lock
<1>2. new \in Ops /\ new # Idle
  BY DEF Ops, Idle, Kinds
<1>3. /\ op'[t] = new
      /\ \A u \in Threads : u # t => op'[u] = Idle /\ op[u] = Idle
  BY <1>1, NobodyAssumption DEF TableTypeOK, LockHeld
<1>4. /\ owed' \in [Objects -> Nat] /\ owed'[o] = owed[o] - 1 /\ owed[o] \in Nat
      /\ \A x \in Objects : x # o => owed'[x] = owed[x]
  BY <1>1 DEF TableTypeOK
<1>5. TableTypeOK'
  BY <1>1, <1>2, <1>4 DEF TableTypeOK
<1>6. LockHeld'
  BY <1>1, <1>3 DEF LockHeld
<1>7. /\ \A x \in Objects : ~Unprotecting(x)
      /\ \A x \in Objects : Unprotecting(x)' <=> x = o
  BY <1>1, <1>2, <1>3 DEF Unprotecting
<1>8. NoLostUpdate'
  BY <1>1, <1>4, <1>7 DEF NoLostUpdate, TableTypeOK
<1>9. KeysInv' /\ ProtectedSurvives'
  BY <1>1, <1>4 DEF KeysInv, ProtectedSurvives
<1> QED
  BY <1>5, <1>6, <1>8, <1>9

\* The value just looked up is the value in the table.
LEMMA LookupSafe ==
    ASSUME TableInv, NEW t \in Threads, Lookup(t)
    PROVE  TableInv'
<1> USE DEF TableInv
<1> DEFINE new == [kind |-> op[t].kind, obj |-> op[t].obj,
                   at |-> "read", val |-> entries[op[t].obj]]
<1>1. /\ op[t] # Idle
      /\ op' = [op EXCEPT ![t] = new]
      /\ UNCHANGED <<keys, entries, lock, owed, root, alive, gc>>
  BY DEF Lookup
<1>2. op[t].kind \in Kinds /\ op[t].obj \in Objects
  BY <1>1, TableOpType
<1>3. new \in Ops /\ new # Idle
  BY <1>2 DEF TableTypeOK, Ops, Idle
<1>4. op'[t] = new /\ \A u \in Threads : u # t => op'[u] = op[u]
  BY <1>1 DEF TableTypeOK
<1>5. TableTypeOK'
  BY <1>1, <1>3 DEF TableTypeOK
<1>6. LockHeld'
  BY <1>1, <1>4 DEF LockHeld
<1>7. \A x \in Objects : Unprotecting(x)' <=> Unprotecting(x)
  BY <1>1, <1>3, <1>4 DEF Unprotecting
<1>8. NoLostUpdate' /\ KeysInv' /\ ProtectedSurvives'
  BY <1>1, <1>7 DEF NoLostUpdate, KeysInv, ProtectedSurvives
<1> QED
  BY <1>5, <1>6, <1>8

\* The value is inserted and the lock released.
LEMMA InsertSafe ==
    ASSUME TableInv, NEW t \in Threads, Insert(t)
    PROVE  TableInv'
<1> USE DEF TableInv
<1>1. PICK o \in Objects : o = op[t].obj
  BY TableOpType DEF Insert
<1>2. PICK v \in Nat : v = op[t].val
  BY TableOpType DEF Insert
<1>3. PICK k \in Kinds : k = op[t].kind
  BY TableOpType DEF Insert
<1>4. /\ op[t] # Idle /\ lock' = Nobody
      /\ keys' = IF Removes(k, v) THEN keys \ {o} ELSE keys \cup {o}
      /\ entries' = [entries EXCEPT ![o] = NewValue(k, v)]
      /\ op' = [op EXCEPT ![t] = Idle]
      /\ owed' = IF k = "protect" THEN [owed EXCEPT ![o] = @ + 1] ELSE owed
      /\ UNCHANGED <<root, alive, gc>>
  BY <1>1, <1>2, <1>3 DEF Insert, Unlock
<1>5. v = entries[o] /\ lock = t /\ (k = "protect" => o \in root)
  BY <1>1, <1>2, <1>3, <1>4 DEF LockHeld, Insert
<1>6. /\ \A u \in Threads : op'[u] = Idle
      /\ \A u \in Threads : u # t => op[u] = Idle
  BY <1>4, <1>5 DEF LockHeld, TableTypeOK
<1>7. /\ \A x \in Objects : ~Unprotecting(x)'
      /\ \A x \in Objects : Unprotecting(x) <=> x = o /\ k = "unprotect"
  BY <1>1, <1>3, <1>4, <1>6 DEF Unprotecting
<1>8. entries[o] = owed[o] + (IF k = "unprotect" THEN 1 ELSE 0) /\ owed[o] \in Nat
  BY <1>7 DEF NoLostUpdate, TableTypeOK
<1>9. ~Removes(k, v)
  BY <1>2, <1>5, <1>8 DEF Removes
<1>10. /\ NewValue(k, v) \in Nat
       /\ NewValue(k, v) = IF k = "protect" THEN owed[o] + 1 ELSE owed[o]
  BY <1>3, <1>5, <1>8, <1>9 DEF NewValue, Kinds
<1>11. /\ owed' \in [Objects -> Nat] /\ entries' \in [Objects -> Nat]
       /\ owed'[o] = NewValue(k, v) /\ entries'[o] = NewValue(k, v)
       /\ \A x \in Objects : x # o => owed'[x] = owed[x] /\ entries'[x] = entries[x]
  BY <1>4, <1>10 DEF TableTypeOK
<1>12. TableTypeOK'
  BY <1>4, <1>11 DEF TableTypeOK, Ops
<1>13. LockHeld'
  BY <1>6 DEF LockHeld
<1>14. NoLostUpdate'
  BY <1>7, <1>10, <1>11 DEF NoLostUpdate, TableTypeOK
<1>15. KeysInv'
  BY <1>4, <1>9, <1>11 DEF KeysInv
<1>16. ProtectedSurvives'
  BY <1>3, <1>4, <1>5, <1>10, <1>11 DEF ProtectedSurvives, KeysInv, Kinds
<1> QED
  BY <1>12, <1>13, <1>14, <1>15, <1>16

\* A collection frees nothing that has a count.
LEMMA CollectSafe ==
    ASSUME TableInv, Collect
    PROVE  TableInv'
<1> USE DEF TableInv, Collect
<1>1. TableTypeOK' /\ LockHeld'
  BY DEF TableTypeOK, LockHeld
<1>2. NoLostUpdate'
  BY DEF NoLostUpdate, Unprotecting
<1>3. \A o \in Objects : owed[o] > 0 => o \in keys
  BY DEF NoLostUpdate, KeysInv, TableTypeOK
<1>4. KeysInv' /\ ProtectedSurvives'
  BY <1>3 DEF KeysInv, ProtectedSurvives, Marked
<1> QED
  BY <1>1, <1>2, <1>4

\* Every step keeps the invariant.
LEMMA TableStepSafe == TableInv /\ [TableNext]_tableVars => TableInv'
<1> SUFFICES ASSUME TableInv, [TableNext]_tableVars PROVE TableInv'
  OBVIOUS
<1> USE DEF TableInv
<1>1. ASSUME NEW o \in Objects, Allocate(o) PROVE TableInv'
  BY <1>1 DEF Allocate, TableTypeOK, LockHeld, KeysInv, NoLostUpdate,
              Unprotecting, ProtectedSurvives
<1>2. ASSUME NEW o \in Objects, Forget(o) PROVE TableInv'
  BY <1>2 DEF Forget, OnStack, TableTypeOK, LockHeld, KeysInv, NoLostUpdate,
              Unprotecting, ProtectedSurvives
<1>3. ASSUME NEW o \in Objects, Use(o) PROVE TableInv'
  BY <1>3 DEF Use, TableTypeOK, LockHeld, KeysInv, NoLostUpdate,
              Unprotecting, ProtectedSurvives
<1>4. ASSUME NEW t \in Threads, StopWorld(t) PROVE TableInv'
  BY <1>4 DEF StopWorld, TableTypeOK, LockHeld, KeysInv, NoLostUpdate,
              Unprotecting, ProtectedSurvives
<1>5. CASE UNCHANGED tableVars
  BY <1>5 DEF tableVars, TableTypeOK, LockHeld, KeysInv, NoLostUpdate,
              Unprotecting, ProtectedSurvives
<1> HIDE DEF TableInv
<1> QED
  BY <1>1, <1>2, <1>3, <1>4, <1>5, ProtectSafe, UnprotectSafe, LookupSafe,
     InsertSafe, CollectSafe DEF TableNext

-----------------------------------------------------------------------------
\* No protection is lost or counted twice, whatever threads do it at once.
THEOREM CountsExact == TableSpec => []NoLostUpdate
<1>1. TableInv => NoLostUpdate
  BY DEF TableInv
<1> QED
  BY <1>1, TableInitSafe, TableStepSafe, PTL DEF TableSpec

\* What a GLib data structure protects is never collected.
THEOREM ProtectionHolds == TableSpec => []ProtectedSurvives
<1>1. TableInv => ProtectedSurvives
  BY DEF TableInv
<1> QED
  BY <1>1, TableInitSafe, TableStepSafe, PTL DEF TableSpec
=============================================================================
