------------------------ MODULE InstanceWrapperProofs ------------------------
(***************************************************************************)
(* Whatever the surroundings do, and for any number of instances, wrappers *)
(* and threads, the bindings never let an instance be freed while a        *)
(* wrapper is bound to it or C code holds a reference.                     *)
(*                                                                         *)
(* NoUseAfterFree is not inductive: it needs to know which instances are   *)
(* inside g_object_new (CallsInv), who holds the references of those       *)
(* (NewInv), that the fluid has an entry to pop (FluidInv), and that an    *)
(* instance returned as `caller-owned' keeps its reference until the       *)
(* wrapper is bound (PendInv).                                             *)
(***************************************************************************)
EXTENDS InstanceWrapper, FiniteSetTheorems, SequenceTheorems, TLAPS

NewInv ==
    \A i \in Instances :
        /\ by[i] # None => InNew(i)
        /\ kind[i] = "toplevel" => crefs[i] > 0
        /\ kind[i] = "plain" => ~floating[i]
        /\ refs[i] = 0 => cache[i] = None
        /\ cache[i] # None => ~floating[i]
        /\ \A w \in Wrappers : slot[w] = i => ~floating[i]

PendInv ==
    \A t \in Threads :
        pend[t] # None =>
            /\ \/ crefs[pend[t].inst] > 0
               \/ pend[t].drop /\ floating[pend[t].inst]
               \/ ~pend[t].drop /\ pend[t].inst \in Calling(t)
            /\ pend[t].drop =>
                  /\ ~InNew(pend[t].inst)
                  /\ \A u \in Threads :
                        u # t /\ pend[u] # None => pend[u].inst # pend[t].inst

CallsInv ==
    /\ \A t \in Threads : \A n \in 1..Len(calls[t]) : InNew(calls[t][n])
    /\ \A t, u \in Threads :
          \A m \in 1..Len(calls[t]), n \in 1..Len(calls[u]) :
              calls[t][m] = calls[u][n] => t = u /\ m = n

SchemeCalls(t) == {i \in Calling(t) : by[i] # None}
FluidInv == \A t \in Threads : Len(fluid[t]) = Cardinality(SchemeCalls(t))

IInv == TypeOK /\ NoUseAfterFree /\ NewInv /\ PendInv /\ CallsInv /\ FluidInv

-----------------------------------------------------------------------------
(* Counting bound wrappers *)

\* The wrappers of an instance are finitely many.
LEMMA BoundFinite ==
    ASSUME NEW i
    PROVE  IsFiniteSet(BoundTo(i)) /\ Cardinality(BoundTo(i)) \in Nat
<1>1. BoundTo(i) \in SUBSET Wrappers
  BY DEF BoundTo
<1>2. IsFiniteSet(BoundTo(i))
  BY <1>1, FS_Subset, FiniteAssumption
<1> QED
  BY <1>2, FS_CardinalityType

\* Setting a slot to i adds at most one wrapper to i and none elsewhere.
LEMMA BindCount ==
    ASSUME TypeOK, NEW w \in Wrappers, NEW i,
           slot' = [slot EXCEPT ![w] = i]
    PROVE  /\ Cardinality(BoundTo(i)') \in Nat
           /\ Cardinality(BoundTo(i)') <= Cardinality(BoundTo(i)) + 1
           /\ \A j : j # i => /\ Cardinality(BoundTo(j)') \in Nat
                              /\ Cardinality(BoundTo(j)') <= Cardinality(BoundTo(j))
<1>1. BoundTo(i)' \in SUBSET (BoundTo(i) \cup {w})
  BY DEF BoundTo, TypeOK
<1>a. IsFiniteSet(BoundTo(i)) /\ Cardinality(BoundTo(i)) \in Nat
  BY BoundFinite
<1>b. /\ IsFiniteSet(BoundTo(i) \cup {w})
      /\ Cardinality(BoundTo(i) \cup {w}) =
            IF w \in BoundTo(i) THEN Cardinality(BoundTo(i))
            ELSE Cardinality(BoundTo(i)) + 1
  BY <1>a, FS_AddElement
<1>2. /\ IsFiniteSet(BoundTo(i) \cup {w})
      /\ Cardinality(BoundTo(i) \cup {w}) <= Cardinality(BoundTo(i)) + 1
      /\ Cardinality(BoundTo(i) \cup {w}) \in Nat
  BY <1>a, <1>b
<1>3. /\ IsFiniteSet(BoundTo(i)')
      /\ Cardinality(BoundTo(i)') <= Cardinality(BoundTo(i) \cup {w})
  BY <1>1, <1>2, FS_Subset
<1>4. Cardinality(BoundTo(i)') \in Nat
  BY <1>3, FS_CardinalityType
<1>5. ASSUME NEW j, j # i
      PROVE  /\ Cardinality(BoundTo(j)') \in Nat
             /\ Cardinality(BoundTo(j)') <= Cardinality(BoundTo(j))
  <2>1. BoundTo(j)' \in SUBSET BoundTo(j)
    BY <1>5 DEF BoundTo, TypeOK
  <2>2. /\ IsFiniteSet(BoundTo(j)')
        /\ Cardinality(BoundTo(j)') <= Cardinality(BoundTo(j))
    BY <2>1, BoundFinite, FS_Subset
  <2> QED
    BY <2>2, FS_CardinalityType
<1> QED
  BY <1>2, <1>3, <1>4, <1>5, BoundFinite

\* Clearing the slot of a wrapper bound to i takes one wrapper from i.
LEMMA UnbindCount ==
    ASSUME TypeOK, NEW w \in Wrappers, NEW i \in Instances, slot[w] = i,
           slot' = [slot EXCEPT ![w] = "destroyed"]
    PROVE  /\ Cardinality(BoundTo(i)) \in Nat \ {0}
           /\ Cardinality(BoundTo(i)') = Cardinality(BoundTo(i)) - 1
           /\ \A j \in Instances : j # i => BoundTo(j)' = BoundTo(j)
<1>1. "destroyed" \notin Instances
  BY SlotAssumption
<1>2. w \in BoundTo(i)
  BY DEF BoundTo
<1>3. BoundTo(i)' = BoundTo(i) \ {w}
  BY <1>1 DEF BoundTo, TypeOK
<1>4. Cardinality(BoundTo(i)) \in Nat /\ IsFiniteSet(BoundTo(i))
  BY BoundFinite
<1>5. Cardinality(BoundTo(i) \ {w}) = Cardinality(BoundTo(i)) - 1
  BY <1>2, <1>4, FS_RemoveElement
<1>6. Cardinality(BoundTo(i)) # 0
  BY <1>2, <1>4, FS_EmptySet
<1>7. \A j \in Instances : j # i => BoundTo(j)' = BoundTo(j)
  BY <1>1 DEF BoundTo, TypeOK
<1> QED
  BY <1>3, <1>4, <1>5, <1>6, <1>7

-----------------------------------------------------------------------------
(* The sequences of calls *)

\* What is inside g_object_new when one more call starts.
LEMMA CallsPush ==
    ASSUME TypeOK, NEW t \in Threads, NEW i \in Instances,
           calls' = [calls EXCEPT ![t] = Append(@, i)]
    PROVE  /\ calls' \in [Threads -> Seq(Instances)]
           /\ Calling(t)' = Calling(t) \cup {i}
           /\ Len(calls'[t]) = Len(calls[t]) + 1
           /\ calls'[t][Len(calls[t]) + 1] = i
           /\ \A n \in 1..Len(calls[t]) : calls'[t][n] = calls[t][n]
           /\ \A u \in Threads : u # t => calls'[u] = calls[u]
<1>1. calls[t] \in Seq(Instances) /\ calls'[t] = Append(calls[t], i)
  BY DEF TypeOK
<1>2. /\ calls'[t] \in Seq(Instances)
      /\ Len(calls'[t]) = Len(calls[t]) + 1
      /\ calls'[t][Len(calls[t]) + 1] = i
      /\ \A n \in 1..Len(calls[t]) : calls'[t][n] = calls[t][n]
  BY <1>1, AppendProperties
<1>3. Len(calls[t]) \in Nat
  BY <1>1, LenProperties
<1>4. Calling(t)' = Calling(t) \cup {i}
  BY <1>2, <1>3 DEF Calling
<1>5. calls' \in [Threads -> Seq(Instances)]
  BY <1>2 DEF TypeOK
<1> QED
  BY <1>2, <1>4, <1>5 DEF TypeOK

\* What is inside g_object_new when the innermost call returns.
LEMMA CallsPop ==
    ASSUME TypeOK, CallsInv, NEW t \in Threads, calls[t] # <<>>,
           calls' = [calls EXCEPT ![t] = SubSeq(@, 1, Len(@) - 1)]
    PROVE  /\ calls' \in [Threads -> Seq(Instances)]
           /\ Current(t) \in Instances
           /\ InNew(Current(t))
           /\ Current(t) \in Calling(t)
           /\ Len(calls[t]) \in Nat \ {0}
           /\ Len(calls'[t]) = Len(calls[t]) - 1
           /\ \A n \in 1..Len(calls'[t]) : calls'[t][n] = calls[t][n]
           /\ \A n \in 1..Len(calls'[t]) : calls'[t][n] # Current(t)
           /\ \A u \in Threads : u # t => calls'[u] = calls[u]
           /\ \A u \in Threads : u # t => Current(t) \notin Calling(u)
           /\ \A n \in 1..Len(calls'[t]) : n \in 1..Len(calls[t])
           /\ Calling(t)' = Calling(t) \ {Current(t)}
<1>1. /\ calls[t] \in Seq(Instances)
      /\ calls'[t] = SubSeq(calls[t], 1, Len(calls[t]) - 1)
  BY DEF TypeOK
<1>2. Len(calls[t]) \in Nat /\ Len(calls[t]) # 0
  BY <1>1, LenProperties, EmptySeq
<1>3. /\ calls'[t] \in Seq(Instances)
      /\ Len(calls'[t]) = Len(calls[t]) - 1
      /\ \A n \in 1..Len(calls[t]) - 1 : calls'[t][n] = calls[t][n]
  BY <1>1, <1>2
<1>4. Len(calls[t]) \in 1..Len(calls[t])
  BY <1>2
<1>5. /\ Current(t) \in Instances /\ InNew(Current(t))
      /\ Current(t) \in Calling(t)
  BY <1>1, <1>4, ElementOfSeq DEF Current, CallsInv, Calling
<1>6. \A n \in 1..Len(calls'[t]) : n \in 1..Len(calls[t]) /\ n # Len(calls[t])
  BY <1>2, <1>3
<1>7. \A n \in 1..Len(calls'[t]) : calls'[t][n] # Current(t)
  BY <1>3, <1>4, <1>6 DEF Current, CallsInv
<1>8. \A u \in Threads : u # t => Current(t) \notin Calling(u)
  BY <1>4 DEF Current, CallsInv, Calling
<1>9. Calling(t)' = Calling(t) \ {Current(t)}
  <2>1. \A n \in 1..Len(calls[t]) :
           n \in 1..Len(calls'[t]) \/ n = Len(calls[t])
    BY <1>2, <1>3
  <2>2. \A n \in 1..Len(calls'[t]) : calls'[t][n] \in Calling(t)
    BY <1>2, <1>3, <1>6 DEF Calling
  <2>3. ASSUME NEW x \in Calling(t), x # Current(t)
        PROVE  x \in Calling(t)'
    <3>1. PICK n \in 1..Len(calls[t]) : x = calls[t][n]
      BY DEF Calling
    <3>2. n \in 1..Len(calls'[t])
      BY <2>1, <2>3, <3>1 DEF Current
    <3>3. x = calls'[t][n]
      BY <1>3, <3>1, <3>2
    <3> QED
      BY <3>2, <3>3 DEF Calling
  <2> QED
    BY <1>7, <2>2, <2>3 DEF Calling
<1>10. calls' \in [Threads -> Seq(Instances)]
  BY <1>3 DEF TypeOK
<1> QED
  BY <1>2, <1>3, <1>5, <1>6, <1>7, <1>8, <1>9, <1>10 DEF TypeOK

\* Only instances are inside g_object_new.
LEMMA CallingInInstances ==
    ASSUME TypeOK, NEW t \in Threads
    PROVE  Calling(t) \subseteq Instances
<1>1. calls[t] \in Seq(Instances)
  BY DEF TypeOK
<1> SUFFICES ASSUME NEW x \in Calling(t) PROVE x \in Instances
  OBVIOUS
<1>2. PICK n \in 1..Len(calls[t]) : x = calls[t][n]
  BY DEF Calling
<1> QED
  BY <1>1, <1>2, ElementOfSeq

\* The constructions from Scheme a thread is in are finitely many.
LEMMA SchemeCallsFinite ==
    ASSUME TypeOK, NEW t \in Threads
    PROVE  IsFiniteSet(SchemeCalls(t)) /\ Cardinality(SchemeCalls(t)) \in Nat
<1>1. SchemeCalls(t) \in SUBSET Instances
  BY CallingInInstances DEF SchemeCalls
<1>2. IsFiniteSet(SchemeCalls(t))
  BY <1>1, FS_Subset, FiniteAssumption
<1> QED
  BY <1>2, FS_CardinalityType

-----------------------------------------------------------------------------
(* What a step leaves alone *)

\* Steps outside g_object_new keep the call structure.
LEMMA SameCalls ==
    ASSUME IInv, UNCHANGED <<fluid, calls, by, kind>>
    PROVE  CallsInv' /\ FluidInv'
<1>1. CallsInv'
  BY DEF IInv, CallsInv, InNew
<1>2. \A t \in Threads : SchemeCalls(t)' = SchemeCalls(t)
  BY DEF SchemeCalls, Calling
<1>3. FluidInv'
  BY <1>2 DEF IInv, FluidInv
<1> QED
  BY <1>1, <1>3

\* Steps that leave alone the instances to_scm is wrapping keep PendInv.
LEMMA SamePending ==
    ASSUME IInv, UNCHANGED <<calls, kind, pend>>,
           \A j \in Instances :
              Borrowed(j) => /\ crefs'[j] = crefs[j]
                             /\ InNew(j) \/ floating'[j] = floating[j]
    PROVE  PendInv'
<1>1. ASSUME NEW t \in Threads, pend[t] # None
      PROVE  /\ pend[t].inst \in Instances /\ pend[t].drop \in BOOLEAN
             /\ Calling(t)' = Calling(t)
             /\ crefs'[pend[t].inst] = crefs[pend[t].inst]
             /\ InNew(pend[t].inst)' <=> InNew(pend[t].inst)
             /\ pend[t].drop =>
                   floating'[pend[t].inst] = floating[pend[t].inst]
  <2>1. pend[t].inst \in Instances /\ pend[t].drop \in BOOLEAN
    BY <1>1 DEF IInv, TypeOK, Pending
  <2>2. Borrowed(pend[t].inst)
    BY <1>1 DEF Borrowed
  <2>3. pend[t].drop => ~InNew(pend[t].inst)
    BY <1>1 DEF IInv, PendInv
  <2> QED
    BY <2>1, <2>2, <2>3 DEF Calling, InNew
<1> QED
  BY <1>1 DEF IInv, PendInv, InNew

\* An instance that is inside g_object_new, or that a caller-owned result
\* stands for, exists.
LEMMA ExistsWhileUsed ==
    ASSUME IInv, NEW i \in Instances,
           InNew(i) \/ crefs[i] > 0 \/ floating[i] \/ by[i] # None
    PROVE  refs[i] > 0
<1>1. Cardinality(BoundTo(i)) \in Nat
  BY BoundFinite
<1>2. InNew(i) \/ crefs[i] > 0 \/ floating[i]
  BY DEF IInv, NewInv
<1>3. /\ refs[i] >= Cardinality(BoundTo(i)) + crefs[i] + NewRef(i)
      /\ refs[i] \in Nat /\ crefs[i] \in Nat
      /\ kind[i] \in {"none", "plain", "floating", "toplevel"}
      /\ kind[i] = "toplevel" => crefs[i] > 0
  BY DEF IInv, NoUseAfterFree, Accounted, TypeOK, NewInv
<1> QED
  BY <1>1, <1>2, <1>3 DEF NewRef, InNew

\* An address without an object has no wrapper bound to it.
LEMMA NothingAtFreeAddress ==
    ASSUME IInv, NEW i \in Instances, refs[i] = 0
    PROVE  /\ ~InNew(i) /\ crefs[i] = 0 /\ ~floating[i] /\ by[i] = None
           /\ cache[i] = None
           /\ Cardinality(BoundTo(i)) = 0
           /\ \A w \in Wrappers : slot[w] # i
<1>1. ~InNew(i) /\ ~(crefs[i] > 0) /\ ~floating[i] /\ by[i] = None
  BY ExistsWhileUsed
<1>2. Cardinality(BoundTo(i)) \in Nat /\ IsFiniteSet(BoundTo(i))
  BY BoundFinite
<1>3. /\ refs[i] >= Cardinality(BoundTo(i)) + crefs[i] + NewRef(i)
      /\ crefs[i] \in Nat /\ NewRef(i) \in Nat
  BY DEF IInv, NoUseAfterFree, Accounted, TypeOK, NewRef
<1>4. Cardinality(BoundTo(i)) = 0 /\ crefs[i] = 0
  BY <1>2, <1>3
<1>5. BoundTo(i) = {}
  BY <1>2, <1>4, FS_EmptySet
<1>6. cache[i] = None
  BY DEF IInv, NewInv
<1> QED
  BY <1>1, <1>4, <1>5, <1>6 DEF BoundTo

-----------------------------------------------------------------------------
(* Binding and unbinding *)

\* Binding i to w costs one reference; when the caller drops `unrefs' at once,
\* it must have owned as many beyond what is accounted for afterwards.
LEMMA BindSafe ==
    ASSUME IInv, NEW i \in Instances, NEW w \in Wrappers, NEW u \in {0, 1},
           BindToObject(i, w, u),
           crefs' \in [Instances -> Nat],
           kind' \in [Instances -> {"none", "plain", "floating", "toplevel"}],
           refs[i] > 0,
           crefs'[i] + (IF kind'[i] \in {"plain", "floating"} THEN 1 ELSE 0) + u
             <= crefs[i] + NewRef(i),
           \A j \in Instances : j # i => crefs'[j] = crefs[j] /\ kind'[j] = kind[j]
    PROVE  /\ refs' \in [Instances -> Nat] /\ floating' \in [Instances -> BOOLEAN]
           /\ slot' \in [Wrappers -> Slots]
           /\ cache' \in [Instances -> Wrappers \cup {None}]
           /\ NoUseAfterFree'
           /\ \A j \in Instances :
                 /\ refs'[j] = 0 => cache'[j] = None
                 /\ cache'[j] # None => ~floating'[j]
                 /\ \A v \in Wrappers : slot'[v] = j => ~floating'[j]
                 /\ floating'[j] => floating[j]
<1> USE DEF IInv
<1>1. TypeOK
  OBVIOUS
<1>2. /\ refs' = [refs EXCEPT ![i] = @ + 1 - u]
      /\ floating' = [floating EXCEPT ![i] = FALSE]
      /\ slot' = [slot EXCEPT ![w] = i]
      /\ cache' = [cache EXCEPT ![i] = w]
  BY DEF BindToObject
<1>3. /\ Cardinality(BoundTo(i)') \in Nat
      /\ Cardinality(BoundTo(i)') <= Cardinality(BoundTo(i)) + 1
      /\ \A j : j # i => /\ Cardinality(BoundTo(j)') \in Nat
                         /\ Cardinality(BoundTo(j)') <= Cardinality(BoundTo(j))
  BY <1>1, <1>2, BindCount
<1>4. /\ refs' \in [Instances -> Nat] /\ floating' \in [Instances -> BOOLEAN]
      /\ slot' \in [Wrappers -> Slots]
      /\ cache' \in [Instances -> Wrappers \cup {None}]
  BY <1>1, <1>2 DEF TypeOK, Slots
<1>5. ASSUME NEW j \in Instances
      PROVE  refs'[j] >= Accounted(j)'
  <2>1. /\ refs[j] >= Cardinality(BoundTo(j)) + crefs[j] + NewRef(j)
        /\ Cardinality(BoundTo(j)) \in Nat /\ refs[j] \in Nat
        /\ crefs[j] \in Nat /\ crefs'[j] \in Nat
    BY BoundFinite DEF NoUseAfterFree, Accounted, TypeOK
  <2>2. CASE j = i
    <3>1. refs'[i] = refs[i] + 1 - u /\ floating'[i] = FALSE
      BY <1>1, <1>2 DEF TypeOK
    <3>2. NewRef(i)' = IF kind'[i] \in {"plain", "floating"} THEN 1 ELSE 0
      BY <3>1 DEF NewRef
    <3>3. NewRef(i) \in Nat /\ NewRef(i)' \in Nat
      BY <3>2 DEF NewRef
    <3> QED
      BY <1>3, <2>1, <2>2, <3>1, <3>2, <3>3 DEF Accounted
  <2>3. CASE j # i
    <3>1. refs'[j] = refs[j] /\ crefs'[j] = crefs[j] /\ NewRef(j)' = NewRef(j)
      BY <1>1, <1>2, <2>3 DEF TypeOK, NewRef
    <3>2. NewRef(j) \in Nat
      BY DEF NewRef
    <3> QED
      BY <1>3, <2>1, <2>3, <3>1, <3>2 DEF Accounted
  <2> QED
    BY <2>2, <2>3
<1>6. \A j \in Instances :
         /\ refs'[j] = 0 => cache'[j] = None
         /\ cache'[j] # None => ~floating'[j]
         /\ \A v \in Wrappers : slot'[v] = j => ~floating'[j]
         /\ floating'[j] => floating[j]
  BY <1>1, <1>2 DEF NewInv, TypeOK
<1> QED
  BY <1>4, <1>5, <1>6 DEF NoUseAfterFree

\* Unbinding w drops the one reference that w accounts for.
LEMMA UnbindSafe ==
    ASSUME IInv, NEW w \in Wrappers, Unbind(w), UNCHANGED <<crefs, kind, by>>
    PROVE  /\ refs' \in [Instances -> Nat] /\ floating' \in [Instances -> BOOLEAN]
           /\ slot' \in [Wrappers -> Slots]
           /\ cache' \in [Instances -> Wrappers \cup {None}]
           /\ NoUseAfterFree' /\ NewInv'
           /\ \A j \in Instances : floating'[j] = floating[j]
<1> USE DEF IInv
<1>1. TypeOK
  OBVIOUS
<1>2. CASE slot[w] \notin Instances
  <2>1. UNCHANGED <<slot, cache, refs, floating>>
    BY <1>2 DEF Unbind
  <2>2. \A j : BoundTo(j)' = BoundTo(j)
    BY <2>1 DEF BoundTo
  <2>3. NoUseAfterFree'
    BY <2>1, <2>2 DEF NoUseAfterFree, Accounted, NewRef
  <2> QED
    BY <2>1, <2>3 DEF TypeOK, NewInv, InNew
<1>3. CASE slot[w] \in Instances
  <2> DEFINE i == slot[w]
  <2>1. PICK k \in Instances : slot[w] = k
    BY <1>3
  <2>2. /\ slot' = [slot EXCEPT ![w] = "destroyed"]
        /\ cache' = [cache EXCEPT ![k] = None]
        /\ refs' = [refs EXCEPT ![k] = @ - 1]
        /\ floating' = [floating EXCEPT ![k] = @ /\ refs[k] > 1]
    BY <2>1 DEF Unbind
  <2>3. /\ Cardinality(BoundTo(k)) \in Nat \ {0}
        /\ Cardinality(BoundTo(k)') = Cardinality(BoundTo(k)) - 1
        /\ \A j \in Instances : j # k => BoundTo(j)' = BoundTo(j)
    BY <1>1, <2>1, <2>2, UnbindCount
  <2>4. ~floating[k]
    BY <2>1 DEF NewInv
  <2>5. floating' = floating
    BY <1>1, <2>2, <2>4 DEF TypeOK
  <2>6. /\ refs[k] >= Cardinality(BoundTo(k)) + crefs[k] + NewRef(k)
        /\ refs[k] \in Nat /\ crefs[k] \in Nat /\ NewRef(k) \in Nat
    BY DEF NoUseAfterFree, Accounted, TypeOK, NewRef
  <2>7. refs'[k] = refs[k] - 1 /\ refs'[k] \in Nat
    BY <1>1, <2>2, <2>3, <2>6 DEF TypeOK
  <2>8. \A j \in Instances : NewRef(j)' = NewRef(j)
    BY <2>5 DEF NewRef
  <2>9. refs' \in [Instances -> Nat]
    BY <1>1, <2>2, <2>7 DEF TypeOK
  <2>10. ASSUME NEW j \in Instances
         PROVE  refs'[j] >= Accounted(j)'
    <3>1. CASE j = k
      BY <2>3, <2>6, <2>7, <2>8, <3>1 DEF Accounted
    <3>2. CASE j # k
      <4>1. refs'[j] = refs[j] /\ BoundTo(j)' = BoundTo(j)
        BY <1>1, <2>2, <2>3, <3>2 DEF TypeOK
      <4> QED
        BY <2>8, <4>1 DEF NoUseAfterFree, Accounted
    <3> QED
      BY <3>1, <3>2
  <2>11. "destroyed" \notin Instances
    BY SlotAssumption
  <2>12. NewInv'
    BY <1>1, <2>2, <2>5, <2>11 DEF NewInv, TypeOK, InNew
  <2>13. slot' \in [Wrappers -> Slots] /\ cache' \in [Instances -> Wrappers \cup {None}]
    BY <1>1, <2>2 DEF TypeOK, Slots
  <2> QED
    BY <1>1, <2>5, <2>9, <2>10, <2>12, <2>13 DEF NoUseAfterFree, TypeOK
<1> QED
  BY <1>2, <1>3

\* C code, or the generated code, drops a reference that it owns: either it is
\* counted in crefs, or it is the floating one and the last.
LEMMA UnrefSafe ==
    ASSUME IInv, NEW i \in Instances, Unref(i), crefs[i] > 0, ~InNew(i),
           crefs' = [crefs EXCEPT ![i] = @ - 1],
           UNCHANGED <<slot, by, kind>>
    PROVE  /\ refs' \in [Instances -> Nat] /\ floating' \in [Instances -> BOOLEAN]
           /\ crefs' \in [Instances -> Nat]
           /\ cache' \in [Instances -> Wrappers \cup {None}]
           /\ NoUseAfterFree' /\ NewInv'
           /\ \A j \in Instances :
                 j # i => crefs'[j] = crefs[j] /\ floating'[j] = floating[j]
<1> USE DEF IInv
<1>1. TypeOK
  OBVIOUS
<1>2. /\ refs' = [refs EXCEPT ![i] = @ - 1]
      /\ floating' = [floating EXCEPT ![i] = @ /\ refs[i] > 1]
      /\ cache' = [cache EXCEPT ![i] = IF refs[i] > 1 THEN @ ELSE None]
  BY DEF Unref
<1>3. \A j \in Instances :
         /\ refs[j] >= Cardinality(BoundTo(j)) + crefs[j] + NewRef(j)
         /\ refs[j] \in Nat /\ crefs[j] \in Nat
         /\ Cardinality(BoundTo(j)) \in Nat
  BY BoundFinite DEF NoUseAfterFree, Accounted, TypeOK
<1>4. \A j \in Instances : NewRef(j) \in Nat
  BY DEF NewRef
<1>5. \A j \in Instances : BoundTo(j)' = BoundTo(j)
  BY DEF BoundTo
<1>6. refs'[i] = refs[i] - 1 /\ refs'[i] \in Nat /\ crefs'[i] = crefs[i] - 1
  BY <1>1, <1>2, <1>3, <1>4 DEF TypeOK
<1>7. /\ refs' \in [Instances -> Nat] /\ floating' \in [Instances -> BOOLEAN]
      /\ crefs' \in [Instances -> Nat]
      /\ cache' \in [Instances -> Wrappers \cup {None}]
  <2>1. crefs[i] - 1 \in Nat
    BY <1>3
  <2> QED
    BY <1>1, <1>2, <1>6, <2>1 DEF TypeOK
<1>8. \A j \in Instances : floating'[j] => floating[j]
  BY <1>1, <1>2 DEF TypeOK
<1>9. \A j \in Instances : NewRef(j)' <= NewRef(j) /\ NewRef(j)' \in Nat
  BY <1>8 DEF NewRef
<1>10. ASSUME NEW j \in Instances
       PROVE  refs'[j] >= Accounted(j)'
  <2>1. CASE j = i
    BY <1>3, <1>4, <1>5, <1>6, <1>9, <2>1 DEF Accounted
  <2>2. CASE j # i
    <3>1. refs'[j] = refs[j] /\ crefs'[j] = crefs[j]
      BY <1>1, <1>2, <2>2 DEF TypeOK
    <3> QED
      BY <1>3, <1>4, <1>5, <1>9, <3>1 DEF Accounted
  <2> QED
    BY <2>1, <2>2
<1>11. NewInv'
  <2> SUFFICES ASSUME NEW j \in Instances
               PROVE  /\ by'[j] # None => InNew(j)'
                      /\ kind'[j] = "toplevel" => crefs'[j] > 0
                      /\ kind'[j] = "plain" => ~floating'[j]
                      /\ refs'[j] = 0 => cache'[j] = None
                      /\ cache'[j] # None => ~floating'[j]
                      /\ \A w \in Wrappers : slot'[w] = j => ~floating'[j]
    BY DEF NewInv
  <2>1. by'[j] # None => InNew(j)'
    BY DEF NewInv, InNew
  <2>2. /\ kind'[j] = "toplevel" => crefs'[j] > 0
        /\ kind'[j] = "plain" => ~floating'[j]
    BY <1>1, <1>8 DEF NewInv, InNew, TypeOK
  <2>3. refs'[j] = 0 => cache'[j] = None
    BY <1>1, <1>2, <1>3, <1>6 DEF NewInv, TypeOK
  <2>4. cache'[j] # None => cache[j] # None
    BY <1>1, <1>2 DEF TypeOK
  <2> QED
    BY <1>8, <2>1, <2>2, <2>3, <2>4 DEF NewInv
<1>12. \A j \in Instances :
          j # i => crefs'[j] = crefs[j] /\ floating'[j] = floating[j]
  BY <1>1, <1>2 DEF TypeOK
<1> QED
  BY <1>7, <1>10, <1>11, <1>12 DEF NoUseAfterFree

-----------------------------------------------------------------------------
(* One lemma per action *)

\* A fresh wrapper is bound to nothing.
LEMMA AllocateInstanceStep ==
    ASSUME IInv, NEW w \in Wrappers, AllocateInstance(w)
    PROVE  IInv'
<1> USE DEF IInv, AllocateInstance
<1>1. TypeOK'
  BY DEF TypeOK, cvars, newvars, Slots
<1>2. "unbound" \notin Instances
  BY SlotAssumption
<1>3. NoUseAfterFree'
  <2> SUFFICES ASSUME NEW j \in Instances PROVE refs'[j] >= Accounted(j)'
    BY DEF NoUseAfterFree
  <2>1. /\ Cardinality(BoundTo(j)') \in Nat
        /\ Cardinality(BoundTo(j)') <= Cardinality(BoundTo(j))
    BY <1>2, BindCount
  <2>2. refs'[j] = refs[j] /\ crefs'[j] = crefs[j] /\ NewRef(j)' = NewRef(j)
    BY DEF cvars, newvars, NewRef
  <2>3. /\ refs[j] >= Cardinality(BoundTo(j)) + crefs[j] + NewRef(j)
        /\ refs[j] \in Nat /\ crefs[j] \in Nat /\ NewRef(j) \in Nat
        /\ Cardinality(BoundTo(j)) \in Nat
    BY BoundFinite DEF NoUseAfterFree, Accounted, TypeOK, NewRef
  <2> QED
    BY <2>1, <2>2, <2>3 DEF Accounted
<1>4. NewInv'
  BY <1>2 DEF NewInv, TypeOK, cvars, newvars, InNew
<1>5. PendInv'
  BY SamePending DEF cvars, newvars
<1> QED
  BY <1>1, <1>3, <1>4, <1>5, SameCalls DEF newvars

\* The collector only queues a wrapper; its finalizer is a step of its own.
LEMMA CollectStep ==
    ASSUME IInv, NEW w \in Wrappers, Collect(w)
    PROVE  IInv'
<1> USE DEF IInv, Collect
<1>1. TypeOK'
  BY DEF TypeOK, cvars, newvars
<1>2. \A j : BoundTo(j)' = BoundTo(j)
  BY DEF BoundTo
<1>3. NoUseAfterFree' /\ NewInv'
  BY <1>2 DEF NoUseAfterFree, Accounted, NewRef, NewInv, InNew, cvars, newvars
<1>4. PendInv'
  BY SamePending DEF cvars, newvars
<1> QED
  BY <1>1, <1>3, <1>4, SameCalls DEF newvars

\* A finalizer drops at most the reference of its own wrapper.
LEMMA FinalizeStep ==
    ASSUME IInv, NEW w \in Wrappers, Finalize(w)
    PROVE  IInv'
<1> USE DEF IInv, Finalize
<1>1. /\ refs' \in [Instances -> Nat] /\ floating' \in [Instances -> BOOLEAN]
      /\ slot' \in [Wrappers -> Slots]
      /\ cache' \in [Instances -> Wrappers \cup {None}]
      /\ NoUseAfterFree' /\ NewInv'
      /\ \A j \in Instances : floating'[j] = floating[j]
  BY UnbindSafe DEF newvars
<1>2. TypeOK'
  BY <1>1 DEF TypeOK, newvars
<1>3. PendInv'
  BY <1>1, SamePending DEF newvars
<1> QED
  BY <1>1, <1>2, <1>3, SameCalls DEF newvars

\* destroy! drops the reference of its wrapper and forgets the instance.
LEMMA DestroyXStep ==
    ASSUME IInv, NEW t \in Threads, NEW w \in Wrappers, DestroyX(t, w)
    PROVE  IInv'
<1> USE DEF IInv, DestroyX
<1>1. /\ refs' \in [Instances -> Nat] /\ floating' \in [Instances -> BOOLEAN]
      /\ slot' \in [Wrappers -> Slots]
      /\ cache' \in [Instances -> Wrappers \cup {None}]
      /\ NoUseAfterFree' /\ NewInv'
      /\ \A j \in Instances : floating'[j] = floating[j]
  BY UnbindSafe DEF newvars
<1>2. TypeOK'
  BY <1>1 DEF TypeOK, newvars, gcvars
<1>3. PendInv'
  BY <1>1, SamePending DEF newvars
<1> QED
  BY <1>1, <1>2, <1>3, SameCalls DEF newvars

\* C code drops only references that it counts as its own.
LEMMA CUnrefStep ==
    ASSUME IInv, NEW i \in Instances, CUnref(i)
    PROVE  IInv'
<1> USE DEF IInv, CUnref
<1>1. /\ refs' \in [Instances -> Nat] /\ floating' \in [Instances -> BOOLEAN]
      /\ crefs' \in [Instances -> Nat]
      /\ cache' \in [Instances -> Wrappers \cup {None}]
      /\ NoUseAfterFree' /\ NewInv'
      /\ \A j \in Instances :
            j # i => crefs'[j] = crefs[j] /\ floating'[j] = floating[j]
  BY UnrefSafe DEF newvars
<1>2. TypeOK'
  BY <1>1 DEF TypeOK, newvars, gcvars
<1>3. PendInv'
  BY <1>1, SamePending DEF newvars
<1> QED
  BY <1>1, <1>2, <1>3, SameCalls DEF newvars

\* C code that takes a reference also owns it, or it sinks the floating one.
LEMMA CRefStep ==
    ASSUME IInv, NEW i \in Instances, CRef(i)
    PROVE  IInv'
<1> USE DEF IInv, CRef
<1>1. TypeOK'
  <2>1. crefs[i] + 1 \in Nat /\ refs[i] + 1 \in Nat
    BY DEF TypeOK
  <2> QED
    BY <2>1 DEF TypeOK, newvars, gcvars
<1>2. \A j : BoundTo(j)' = BoundTo(j)
  BY DEF BoundTo
<1>3. NoUseAfterFree'
  <2> SUFFICES ASSUME NEW j \in Instances PROVE refs'[j] >= Accounted(j)'
    BY DEF NoUseAfterFree
  <2>1. /\ refs[j] >= Cardinality(BoundTo(j)) + crefs[j] + NewRef(j)
        /\ refs[j] \in Nat /\ crefs[j] \in Nat /\ Cardinality(BoundTo(j)) \in Nat
    BY BoundFinite DEF NoUseAfterFree, Accounted, TypeOK
  <2>2. CASE j # i
    <3>1. refs'[j] = refs[j] /\ crefs'[j] = crefs[j] /\ NewRef(j)' = NewRef(j)
      BY <2>2 DEF TypeOK, NewRef, newvars
    <3> QED
      BY <1>2, <2>1, <3>1 DEF Accounted
  <2>3. CASE j = i
    <3>1. kind[i] = "none" /\ kind'[i] = "none" /\ floating'[i] = FALSE
      BY DEF InNew, newvars, TypeOK
    <3>2. NewRef(i)' = 0 /\ NewRef(i) = IF floating[i] THEN 1 ELSE 0
      BY <3>1 DEF NewRef
    <3>3. /\ crefs'[i] = crefs[i] + 1
          /\ refs'[i] = IF floating[i] THEN refs[i] ELSE refs[i] + 1
      BY DEF TypeOK
    <3> QED
      BY <1>2, <2>1, <2>3, <3>2, <3>3 DEF Accounted
  <2> QED
    BY <2>2, <2>3
<1>4. NewInv'
  BY DEF NewInv, TypeOK, newvars, InNew
<1>5. PendInv'
  BY SamePending DEF newvars, TypeOK
<1> QED
  BY <1>1, <1>3, <1>4, <1>5, SameCalls DEF newvars

\* A `caller-owned' result that has a wrapper loses just the caller's reference.
LEMMA ToScmCachedStep ==
    ASSUME IInv, NEW t \in Threads, NEW i \in Instances, NEW drop \in BOOLEAN,
           ToScmCached(t, i, drop)
    PROVE  IInv'
<1> USE DEF IInv, ToScmCached
<1>1. cache[i] \in Wrappers
  BY DEF TypeOK
<1>2. CASE ~drop
  <2>1. UNCHANGED cvars
    BY <1>2
  <2>2. TypeOK'
    BY <1>1, <2>1 DEF TypeOK, cvars, newvars
  <2>3. \A j : BoundTo(j)' = BoundTo(j)
    BY DEF BoundTo
  <2>4. NoUseAfterFree' /\ NewInv'
    BY <2>1, <2>3 DEF NoUseAfterFree, Accounted, NewRef, NewInv, InNew,
                      cvars, newvars
  <2>5. PendInv'
    BY <2>1, SamePending DEF cvars, newvars
  <2> QED
    BY <2>2, <2>4, <2>5, SameCalls DEF newvars
<1>3. CASE drop
  <2>1. ~floating[i]
    BY DEF NewInv
  <2>2. ~InNew(i) /\ crefs[i] > 0 /\ ~Borrowed(i)
    BY <1>3, <2>1 DEF MayReturn
  <2>3. Unref(i) /\ crefs' = [crefs EXCEPT ![i] = @ - 1]
    BY <1>3, <2>1 DEF DropResult
  <2>4. /\ refs' \in [Instances -> Nat] /\ floating' \in [Instances -> BOOLEAN]
        /\ crefs' \in [Instances -> Nat]
        /\ cache' \in [Instances -> Wrappers \cup {None}]
        /\ NoUseAfterFree' /\ NewInv'
        /\ \A j \in Instances :
              j # i => crefs'[j] = crefs[j] /\ floating'[j] = floating[j]
    BY <2>2, <2>3, UnrefSafe DEF newvars
  <2>5. TypeOK'
    BY <1>1, <2>4 DEF TypeOK, newvars
  <2>6. PendInv'
    BY <2>2, <2>4, SamePending DEF newvars
  <2> QED
    BY <2>4, <2>5, <2>6, SameCalls DEF newvars
<1> QED
  BY <1>2, <1>3

\* A cache miss only records the instance, whose reference stays with the caller.
LEMMA ToScmMissStep ==
    ASSUME IInv, NEW t \in Threads, NEW i \in Instances, NEW drop \in BOOLEAN,
           ToScmMiss(t, i, drop)
    PROVE  IInv'
<1> USE DEF IInv, ToScmMiss
<1>1. pend' \in [Threads -> Pending \cup {None}]
  BY DEF TypeOK, Pending
<1>2. TypeOK'
  BY <1>1 DEF TypeOK, cvars, newvars, gcvars
<1>3. \A j : BoundTo(j)' = BoundTo(j)
  BY DEF BoundTo
<1>4. NoUseAfterFree' /\ NewInv'
  BY <1>3 DEF NoUseAfterFree, Accounted, NewRef, NewInv, InNew, cvars, newvars
<1>5. PendInv'
  <2> SUFFICES ASSUME NEW v \in Threads, pend'[v] # None
               PROVE  /\ \/ crefs[pend'[v].inst] > 0
                         \/ pend'[v].drop /\ floating[pend'[v].inst]
                         \/ ~pend'[v].drop /\ pend'[v].inst \in Calling(v)
                      /\ pend'[v].drop =>
                            /\ ~InNew(pend'[v].inst)
                            /\ \A u \in Threads : u # v /\ pend'[u] # None
                                  => pend'[u].inst # pend'[v].inst
    BY DEF PendInv, InNew, Calling, cvars, newvars
  <2>1. /\ pend'[t] = [inst |-> i, drop |-> drop]
        /\ \A u \in Threads : u # t => pend'[u] = pend[u]
    BY DEF TypeOK
  <2>2. CASE v = t
    <3>1. pend'[v].inst = i /\ pend'[v].drop = drop
      BY <2>1, <2>2
    <3>2. \/ crefs[i] > 0
          \/ drop /\ floating[i]
          \/ ~drop /\ i \in Calling(t)
      BY DEF MayReturn
    <3>3. drop => ~Borrowed(i) /\ ~InNew(i)
      BY DEF MayReturn
    <3>4. drop => \A u \in Threads : u # v /\ pend'[u] # None => pend'[u].inst # i
      BY <2>1, <2>2, <3>3 DEF Borrowed
    <3> QED
      BY <2>2, <3>1, <3>2, <3>3, <3>4
  <2>3. CASE v # t
    <3>1. pend'[v] = pend[v] /\ pend[v] # None
      BY <2>1, <2>3
    <3>2. pend[v].drop => pend[v].inst # i
      BY <3>1 DEF MayReturn, Dropping
    <3> QED
      BY <2>1, <2>3, <3>1, <3>2 DEF PendInv
  <2> QED
    BY <2>2, <2>3
<1> QED
  BY <1>2, <1>4, <1>5, SameCalls DEF newvars

\* After a cache miss the new wrapper takes a reference before the caller's goes.
LEMMA ToScmBindStep ==
    ASSUME IInv, NEW t \in Threads, NEW w \in Wrappers, ToScmBind(t, w)
    PROVE  IInv'
<1> USE DEF IInv
<1>1. PICK i \in Instances : i = pend[t].inst
  BY DEF ToScmBind, TypeOK, Pending
<1>2. PICK d \in BOOLEAN : d = pend[t].drop
  BY DEF ToScmBind, TypeOK, Pending
<1>3. /\ pend[t] # None /\ BindToObject(i, w, IF d THEN 1 ELSE 0)
      /\ IF d THEN DropResult(i) ELSE UNCHANGED crefs
      /\ held' = held \cup {w}
      /\ pend' = [pend EXCEPT ![t] = None]
      /\ UNCHANGED <<queued, newvars>>
  BY <1>1, <1>2 DEF ToScmBind
<1>4. /\ d => ~InNew(i) /\ (crefs[i] > 0 \/ floating[i])
      /\ crefs[i] > 0 \/ floating[i] \/ i \in Calling(t)
  BY <1>1, <1>2, <1>3 DEF PendInv
<1>5. refs[i] \in Nat /\ crefs[i] \in Nat /\ kind[i] \in {"none", "plain", "floating", "toplevel"}
  BY DEF TypeOK
<1>6. /\ crefs' \in [Instances -> Nat]
      /\ \A j \in Instances : j # i => crefs'[j] = crefs[j]
      /\ crefs'[i] = IF d /\ ~floating[i] THEN crefs[i] - 1 ELSE crefs[i]
  <2>1. d /\ ~floating[i] => crefs[i] - 1 \in Nat
    BY <1>4, <1>5
  <2> QED
    BY <1>3, <2>1 DEF DropResult, TypeOK
<1>7. refs[i] > 0
  <2>1. i \in Calling(t) => InNew(i)
    BY DEF CallsInv, Calling
  <2> QED
    BY <1>4, <2>1, ExistsWhileUsed
<1>8. crefs'[i] + (IF kind'[i] \in {"plain", "floating"} THEN 1 ELSE 0)
          + (IF d THEN 1 ELSE 0) <= crefs[i] + NewRef(i)
  BY <1>3, <1>4, <1>5, <1>6 DEF NewRef, InNew, newvars
<1>9. /\ refs' \in [Instances -> Nat] /\ floating' \in [Instances -> BOOLEAN]
      /\ slot' \in [Wrappers -> Slots]
      /\ cache' \in [Instances -> Wrappers \cup {None}]
      /\ NoUseAfterFree'
      /\ \A j \in Instances :
            /\ refs'[j] = 0 => cache'[j] = None
            /\ cache'[j] # None => ~floating'[j]
            /\ \A v \in Wrappers : slot'[v] = j => ~floating'[j]
            /\ floating'[j] => floating[j]
  <2> DEFINE u == IF d THEN 1 ELSE 0
  <2>1. u \in {0, 1}
    OBVIOUS
  <2>2. kind' \in [Instances -> {"none", "plain", "floating", "toplevel"}]
        /\ \A j \in Instances : kind'[j] = kind[j]
    BY <1>3 DEF newvars, TypeOK
  <2>3. crefs'[i] + (IF kind'[i] \in {"plain", "floating"} THEN 1 ELSE 0) + u
          <= crefs[i] + NewRef(i)
    BY <1>8
  <2>4. BindToObject(i, w, u)
    BY <1>3
  <2> HIDE DEF u
  <2> QED
    BY <1>6, <1>7, <2>1, <2>2, <2>3, <2>4, BindSafe
<1>10. TypeOK'
  BY <1>3, <1>6, <1>9 DEF TypeOK, newvars
<1>11. NewInv'
  <2>1. kind[i] = "toplevel" => crefs'[i] > 0
    BY <1>4, <1>6 DEF NewInv, InNew
  <2> QED
    BY <1>3, <1>6, <1>9, <2>1 DEF NewInv, InNew, newvars
<1>12. PendInv'
  <2> SUFFICES ASSUME NEW v \in Threads, pend'[v] # None
               PROVE  /\ \/ crefs'[pend'[v].inst] > 0
                         \/ pend'[v].drop /\ floating'[pend'[v].inst]
                         \/ ~pend'[v].drop /\ pend'[v].inst \in Calling(v)
                      /\ pend'[v].drop =>
                            /\ ~InNew(pend'[v].inst)
                            /\ \A u \in Threads : u # v /\ pend'[u] # None
                                  => pend'[u].inst # pend'[v].inst
    BY <1>3 DEF PendInv, InNew, Calling, newvars
  <2>1. v # t /\ pend'[v] = pend[v] /\ pend[v].inst \in Instances
    BY <1>3 DEF TypeOK, Pending
  <2>2. d => pend[v].inst # i
    BY <1>1, <1>2, <1>3, <2>1 DEF PendInv
  <2>3. pend[v].drop => pend[v].inst # i
    BY <1>1, <1>3, <2>1 DEF PendInv
  <2>4. crefs'[pend[v].inst] = crefs[pend[v].inst]
    BY <1>6, <2>1, <2>2
  <2>5. pend[v].drop => floating'[pend[v].inst] = floating[pend[v].inst]
    BY <1>3, <2>1, <2>3 DEF BindToObject, TypeOK
  <2>6. \A u \in Threads : pend'[u] # None => pend[u] # None /\ pend'[u] = pend[u]
    BY <1>3 DEF TypeOK
  <2> QED
    BY <2>1, <2>4, <2>5, <2>6 DEF PendInv
<1> QED
  BY <1>3, <1>9, <1>10, <1>11, <1>12, SameCalls DEF newvars

\* g_object_new starts at an address where nothing is.
LEMMA NewInstanceSafe ==
    ASSUME IInv, NEW t \in Threads, NEW i \in Instances, NEW n \in Levels,
           NEW k \in Kinds, NewInstance(t, i, n, k),
           by'[i] \in Wrappers \cup {None},
           \A j \in Instances : j # i => by'[j] = by[j],
           UNCHANGED <<cache, slot, pend>>
    PROVE  /\ refs' \in [Instances -> Nat] /\ floating' \in [Instances -> BOOLEAN]
           /\ crefs' \in [Instances -> Nat]
           /\ calls' \in [Threads -> Seq(Instances)]
           /\ todo' \in [Instances -> Nat]
           /\ kind' \in [Instances -> {"none", "plain", "floating", "toplevel"}]
           /\ NoUseAfterFree' /\ NewInv' /\ CallsInv' /\ PendInv'
           /\ Calling(t)' = Calling(t) \cup {i}
           /\ \A u \in Threads : i \notin Calling(u)
           /\ \A u \in Threads : u # t => Calling(u)' = Calling(u)
<1> USE DEF IInv
<1>1. TypeOK
  OBVIOUS
<1>2. /\ Idle(t) /\ refs[i] = 0
      /\ refs' = [refs EXCEPT ![i] = 1]
      /\ floating' = [floating EXCEPT ![i] = (k = "floating")]
      /\ crefs' = [crefs EXCEPT ![i] = IF k = "toplevel" THEN 1 ELSE 0]
      /\ calls' = [calls EXCEPT ![t] = Append(@, i)]
      /\ todo' = [todo EXCEPT ![i] = n]
      /\ kind' = [kind EXCEPT ![i] = k]
  BY DEF NewInstance
<1>3. k \in {"plain", "floating", "toplevel"} /\ n \in Nat
  BY KindsAssumption, LevelsAssumption
<1>4. /\ ~InNew(i) /\ crefs[i] = 0 /\ ~floating[i] /\ by[i] = None
      /\ cache[i] = None /\ Cardinality(BoundTo(i)) = 0
      /\ \A w \in Wrappers : slot[w] # i
  BY <1>2, NothingAtFreeAddress
<1>5. /\ refs' \in [Instances -> Nat] /\ floating' \in [Instances -> BOOLEAN]
      /\ crefs' \in [Instances -> Nat] /\ todo' \in [Instances -> Nat]
      /\ kind' \in [Instances -> {"none", "plain", "floating", "toplevel"}]
  BY <1>1, <1>2, <1>3 DEF TypeOK
<1>6. /\ calls' \in [Threads -> Seq(Instances)]
      /\ Calling(t)' = Calling(t) \cup {i}
      /\ Len(calls'[t]) = Len(calls[t]) + 1
      /\ calls'[t][Len(calls[t]) + 1] = i
      /\ \A m \in 1..Len(calls[t]) : calls'[t][m] = calls[t][m]
      /\ \A u \in Threads : u # t => calls'[u] = calls[u]
  BY <1>1, <1>2, CallsPush
<1>7. \A u \in Threads : u # t => Calling(u)' = Calling(u)
  BY <1>6 DEF Calling
<1>8. \A u \in Threads : i \notin Calling(u)
  BY <1>4 DEF CallsInv, Calling
<1>9. \A j \in Instances : j # i =>
         /\ refs'[j] = refs[j] /\ crefs'[j] = crefs[j]
         /\ floating'[j] = floating[j] /\ kind'[j] = kind[j]
  BY <1>1, <1>2 DEF TypeOK
<1>10. /\ refs'[i] = 1 /\ kind'[i] = k /\ floating'[i] = (k = "floating")
       /\ crefs'[i] = IF k = "toplevel" THEN 1 ELSE 0
  BY <1>1, <1>2 DEF TypeOK
<1>11. NoUseAfterFree'
  <2> SUFFICES ASSUME NEW j \in Instances PROVE refs'[j] >= Accounted(j)'
    BY DEF NoUseAfterFree
  <2>1. BoundTo(j)' = BoundTo(j)
    BY DEF BoundTo
  <2>2. CASE j = i
    <3>1. NewRef(i)' = IF k = "toplevel" THEN 0 ELSE 1
      BY <1>3, <1>10 DEF NewRef
    <3> QED
      BY <1>4, <1>10, <2>1, <2>2, <3>1 DEF Accounted
  <2>3. CASE j # i
    BY <1>9, <2>1, <2>3 DEF NoUseAfterFree, Accounted, NewRef
  <2> QED
    BY <2>2, <2>3
<1>12. NewInv'
  <2> SUFFICES ASSUME NEW j \in Instances
               PROVE  /\ by'[j] # None => kind'[j] # "none"
                      /\ kind'[j] = "toplevel" => crefs'[j] > 0
                      /\ kind'[j] = "plain" => ~floating'[j]
                      /\ refs'[j] = 0 => cache'[j] = None
                      /\ cache'[j] # None => ~floating'[j]
                      /\ \A w \in Wrappers : slot'[w] = j => ~floating'[j]
    BY DEF NewInv, InNew
  <2>1. CASE j = i
    <3>1. k = "plain" => (k = "floating") = FALSE
      OBVIOUS
    <3>2. k = "plain" => ~floating'[i]
      BY <1>10, <3>1, Zenon
    <3>3. \A w \in Wrappers : slot'[w] # i
      BY <1>4
    <3> QED
      BY <1>3, <1>4, <1>10, <2>1, <3>2, <3>3
  <2>2. CASE j # i
    BY <1>9, <2>2 DEF NewInv, InNew
  <2> QED
    BY <2>1, <2>2
<1>13. CallsInv'
  <2>1. \A u \in Threads : Len(calls[u]) \in Nat
    BY <1>1, LenProperties DEF TypeOK
  <2>2. ASSUME NEW u \in Threads, NEW m \in 1..Len(calls'[u])
        PROVE  \/ /\ m \in 1..Len(calls[u])
                  /\ calls'[u][m] = calls[u][m]
                  /\ calls[u][m] # i /\ calls[u][m] \in Instances
                  /\ InNew(calls[u][m])
               \/ u = t /\ m = Len(calls[t]) + 1 /\ calls'[u][m] = i
    <3>1. m \in 1..Len(calls[u]) \/ (u = t /\ m = Len(calls[t]) + 1)
      BY <1>6, <2>1
    <3>2. CASE m \in 1..Len(calls[u])
      <4>1. calls'[u][m] = calls[u][m]
        BY <1>6, <3>2
      <4>2. calls[u][m] \in Instances
        BY <1>1, <3>2, ElementOfSeq DEF TypeOK
      <4>3. calls[u][m] # i /\ InNew(calls[u][m])
        BY <1>4, <3>2 DEF CallsInv
      <4> QED
        BY <3>2, <4>1, <4>2, <4>3
    <3> QED
      BY <1>6, <3>1, <3>2
  <2>3. ASSUME NEW u \in Threads, NEW m \in 1..Len(calls'[u])
        PROVE  kind'[calls'[u][m]] # "none"
    <3>1. CASE /\ calls'[u][m] = calls[u][m]
               /\ calls[u][m] # i /\ calls[u][m] \in Instances
               /\ InNew(calls[u][m])
      BY <1>9, <3>1 DEF InNew
    <3>2. CASE calls'[u][m] = i
      BY <1>3, <1>10, <3>2
    <3> QED
      BY <2>2, <3>1, <3>2
  <2>4. ASSUME NEW u \in Threads, NEW v \in Threads,
               NEW m \in 1..Len(calls'[u]), NEW l \in 1..Len(calls'[v]),
               calls'[u][m] = calls'[v][l]
        PROVE  u = v /\ m = l
    <3>1. CASE /\ m \in 1..Len(calls[u]) /\ l \in 1..Len(calls[v])
               /\ calls[u][m] = calls[v][l]
      BY <3>1 DEF CallsInv
    <3>2. CASE /\ u = t /\ m = Len(calls[t]) + 1
               /\ v = t /\ l = Len(calls[t]) + 1
      BY <3>2
    <3> QED
      BY <2>2, <2>4, <3>1, <3>2
  <2> QED
    BY <2>3, <2>4 DEF CallsInv, InNew
<1>14. PendInv'
  <2> SUFFICES ASSUME NEW v \in Threads, pend[v] # None
               PROVE  /\ \/ crefs'[pend[v].inst] > 0
                         \/ pend[v].drop /\ floating'[pend[v].inst]
                         \/ ~pend[v].drop /\ pend[v].inst \in Calling(v)'
                      /\ pend[v].drop =>
                            /\ ~InNew(pend[v].inst)'
                            /\ \A u \in Threads : u # v /\ pend[u] # None
                                  => pend[u].inst # pend[v].inst
    BY DEF PendInv
  <2>1. pend[v].inst \in Instances /\ v # t
    BY <1>1, <1>2 DEF TypeOK, Pending, Idle
  <2>2. pend[v].inst # i
    BY <1>4, <1>8 DEF PendInv
  <2> QED
    BY <1>7, <1>9, <2>1, <2>2 DEF PendInv, InNew
<1> QED
  BY <1>5, <1>6, <1>7, <1>8, <1>11, <1>12, <1>13, <1>14

\* A construction from Scheme pushes one fluid entry for one call of its own.
LEMMA ConstructStep ==
    ASSUME IInv, NEW t \in Threads, NEW w \in Wrappers, NEW i \in Instances,
           NEW n \in Levels, NEW k \in Kinds, Construct(t, w, i, n, k)
    PROVE  IInv'
<1> USE DEF IInv, Construct
<1>1. by' = [by EXCEPT ![i] = w] /\ fluid' = [fluid EXCEPT ![t] = <<w>> \o @]
  OBVIOUS
<1>2. by'[i] = w /\ \A j \in Instances : j # i => by'[j] = by[j]
  BY <1>1 DEF TypeOK
<1>3. /\ refs' \in [Instances -> Nat] /\ floating' \in [Instances -> BOOLEAN]
      /\ crefs' \in [Instances -> Nat]
      /\ calls' \in [Threads -> Seq(Instances)]
      /\ todo' \in [Instances -> Nat]
      /\ kind' \in [Instances -> {"none", "plain", "floating", "toplevel"}]
      /\ NoUseAfterFree' /\ NewInv' /\ CallsInv' /\ PendInv'
      /\ Calling(t)' = Calling(t) \cup {i}
      /\ \A u \in Threads : i \notin Calling(u)
      /\ \A u \in Threads : u # t => Calling(u)' = Calling(u)
  BY <1>2, NewInstanceSafe
<1>4. /\ fluid' \in [Threads -> Seq(Wrappers)]
      /\ Len(fluid'[t]) = Len(fluid[t]) + 1
      /\ \A u \in Threads : u # t => fluid'[u] = fluid[u]
  <2>1. fluid[t] \in Seq(Wrappers) /\ <<w>> \in Seq(Wrappers) /\ Len(<<w>>) = 1
    BY DEF TypeOK
  <2>2. <<w>> \o fluid[t] \in Seq(Wrappers)
        /\ Len(<<w>> \o fluid[t]) = 1 + Len(fluid[t])
    BY <2>1, ConcatProperties
  <2>3. Len(fluid[t]) \in Nat
    BY <2>1, LenProperties
  <2> QED
    BY <1>1, <2>2, <2>3 DEF TypeOK
<1>5. TypeOK'
  <2>1. by' \in [Instances -> Wrappers \cup {None}]
    BY <1>1 DEF TypeOK
  <2> QED
    BY <1>3, <1>4, <2>1 DEF TypeOK, gcvars
<1>6. FluidInv'
  <2> SUFFICES ASSUME NEW u \in Threads
               PROVE  Len(fluid'[u]) = Cardinality(SchemeCalls(u)')
    BY DEF FluidInv
  <2>1. w # None
    BY NoneAssumption
  <2>2. CASE u = t
    <3>1. SchemeCalls(t)' = SchemeCalls(t) \cup {i}
      <4>1. \A j \in Calling(t) : j # i /\ by'[j] = by[j]
        BY <1>2, <1>3, CallingInInstances
      <4> QED
        BY <1>2, <1>3, <2>1, <4>1 DEF SchemeCalls
    <3>2. i \notin SchemeCalls(t)
      BY <1>3 DEF SchemeCalls
    <3>4. IsFiniteSet(SchemeCalls(t))
      BY SchemeCallsFinite
    <3>5. Cardinality(SchemeCalls(t) \cup {i}) = Cardinality(SchemeCalls(t)) + 1
      BY <3>2, <3>4, FS_AddElement
    <3> QED
      BY <1>4, <2>2, <3>1, <3>5 DEF FluidInv
  <2>3. CASE u # t
    <3>1. \A j \in Calling(u) : j # i /\ by'[j] = by[j]
      BY <1>2, <1>3, CallingInInstances
    <3>2. SchemeCalls(u)' = SchemeCalls(u)
      BY <1>2, <1>3, <2>3, <3>1 DEF SchemeCalls
    <3> QED
      BY <1>4, <2>3, <3>2 DEF FluidInv
  <2> QED
    BY <2>2, <2>3
<1> QED
  BY <1>3, <1>5, <1>6

\* g_object_new called by C code leaves the fluid alone.
LEMMA GObjectNewStep ==
    ASSUME IInv, NEW t \in Threads, NEW i \in Instances, NEW n \in Levels,
           NEW k \in Kinds, GObjectNew(t, i, n, k)
    PROVE  IInv'
<1> USE DEF IInv, GObjectNew
<1>1. by'[i] \in Wrappers \cup {None} /\ by' = by
  BY DEF TypeOK
<1>2. /\ refs' \in [Instances -> Nat] /\ floating' \in [Instances -> BOOLEAN]
      /\ crefs' \in [Instances -> Nat]
      /\ calls' \in [Threads -> Seq(Instances)]
      /\ todo' \in [Instances -> Nat]
      /\ kind' \in [Instances -> {"none", "plain", "floating", "toplevel"}]
      /\ NoUseAfterFree' /\ NewInv' /\ CallsInv' /\ PendInv'
      /\ Calling(t)' = Calling(t) \cup {i}
      /\ \A u \in Threads : i \notin Calling(u)
      /\ \A u \in Threads : u # t => Calling(u)' = Calling(u)
  BY <1>1, NewInstanceSafe
<1>3. TypeOK'
  BY <1>2 DEF TypeOK, gcvars
<1>4. by[i] = None
  BY NothingAtFreeAddress DEF NewInstance
<1>5. ASSUME NEW u \in Threads PROVE SchemeCalls(u)' = SchemeCalls(u)
  <2>1. CASE u = t
    BY <1>1, <1>2, <1>4, <2>1 DEF SchemeCalls
  <2>2. CASE u # t
    BY <1>1, <1>2, <2>2 DEF SchemeCalls
  <2> QED
    BY <2>1, <2>2
<1>6. FluidInv'
  BY <1>5 DEF FluidInv
<1> QED
  BY <1>2, <1>3, <1>6

\* An instance init runs inside g_object_new, which owns the first reference.
LEMMA InstanceInitStep ==
    ASSUME IInv, NEW t \in Threads, InstanceInit(t)
    PROVE  IInv'
<1> USE DEF IInv
<1> DEFINE i == Current(t)
           f == InConstructionFromScheme(t)
<1>1. /\ Idle(t) /\ calls[t] # <<>> /\ todo[i] > 0
      /\ todo' = [todo EXCEPT ![i] = @ - 1]
      /\ UNCHANGED <<crefs, fluid, calls, by, kind, pend>>
  BY DEF InstanceInit
<1>2. i \in Instances /\ InNew(i)
  <2>1. calls[t] \in Seq(Instances)
    BY DEF TypeOK
  <2>2. Len(calls[t]) \in 1..Len(calls[t])
    BY <1>1, <2>1, LenProperties, EmptySeq
  <2> QED
    BY <2>1, <2>2, ElementOfSeq DEF Current, CallsInv
<1>3. todo' \in [Instances -> Nat]
  BY <1>1, <1>2 DEF TypeOK
<1>4. ASSUME NEW w \in Wrappers, BindToObject(i, w, 0), held' \in SUBSET Wrappers,
             queued' = queued
      PROVE  IInv'
  <2> HIDE DEF i
  <2>1. /\ refs' \in [Instances -> Nat] /\ floating' \in [Instances -> BOOLEAN]
        /\ slot' \in [Wrappers -> Slots]
        /\ cache' \in [Instances -> Wrappers \cup {None}]
        /\ NoUseAfterFree'
        /\ \A j \in Instances :
              /\ refs'[j] = 0 => cache'[j] = None
              /\ cache'[j] # None => ~floating'[j]
              /\ \A v \in Wrappers : slot'[v] = j => ~floating'[j]
              /\ floating'[j] => floating[j]
    <3>1. refs[i] > 0
      BY <1>2, ExistsWhileUsed
    <3>2. crefs'[i] + (IF kind'[i] \in {"plain", "floating"} THEN 1 ELSE 0) + 0
            <= crefs[i] + NewRef(i)
      BY <1>1, <1>2 DEF NewRef, TypeOK
    <3>3. /\ crefs' \in [Instances -> Nat]
          /\ kind' \in [Instances -> {"none", "plain", "floating", "toplevel"}]
      BY <1>1 DEF TypeOK
    <3> QED
      BY <1>1, <1>2, <1>4, <3>1, <3>2, <3>3, BindSafe
  <2>2. TypeOK'
    BY <1>1, <1>3, <1>4, <2>1 DEF TypeOK
  <2>3. NewInv'
    BY <1>1, <2>1 DEF NewInv, InNew
  <2>4. \A j \in Instances : j # i => floating'[j] = floating[j]
    BY <1>4 DEF BindToObject, TypeOK
  <2>5. PendInv'
    BY <1>1, <1>2, <2>4, SamePending
  <2> QED
    BY <1>1, <2>1, <2>2, <2>3, <2>5, SameCalls
<1>5. ASSUME UNCHANGED <<refs, floating, cache, slot, held, queued>>
      PROVE  IInv'
  <2> HIDE DEF i
  <2>1. TypeOK'
    BY <1>1, <1>3, <1>5 DEF TypeOK
  <2>2. \A j : BoundTo(j)' = BoundTo(j)
    BY <1>5 DEF BoundTo
  <2>3. NoUseAfterFree' /\ NewInv'
    BY <1>1, <1>5, <2>2 DEF NoUseAfterFree, Accounted, NewRef, NewInv, InNew
  <2>4. PendInv'
    BY <1>1, <1>5, SamePending
  <2> QED
    BY <1>1, <2>1, <2>3, <2>4, SameCalls
<1>6. f # None => f \in Wrappers
  <2>1. fluid[t] \in Seq(Wrappers)
    BY DEF TypeOK
  <2> QED
    BY <2>1, HeadTailProperties DEF InConstructionFromScheme
<1>7. CASE f # None /\ BindToObject(i, f, 0) /\ UNCHANGED gcvars
  BY <1>4, <1>6, <1>7 DEF gcvars, TypeOK
<1>8. CASE UNCHANGED <<refs, floating, cache, slot, gcvars>>
  BY <1>5, <1>8 DEF gcvars
<1>9. CASE /\ \E w \in Wrappers : BindToObject(i, w, 0) /\ held' = held \cup {w}
           /\ UNCHANGED queued
  <2>1. PICK w \in Wrappers : BindToObject(i, w, 0) /\ held' = held \cup {w}
    BY <1>9
  <2> QED
    BY <1>4, <1>9, <2>1 DEF TypeOK
<1>10. \/ f # None /\ BindToObject(i, f, 0) /\ UNCHANGED gcvars
       \/ UNCHANGED <<refs, floating, cache, slot, gcvars>>
       \/ /\ \E w \in Wrappers : BindToObject(i, w, 0) /\ held' = held \cup {w}
          /\ UNCHANGED queued
  BY DEF InstanceInit
<1> QED
  BY <1>7, <1>8, <1>9, <1>10

\* When g_object_new returns, the rest of the call stack is as it was.
LEMMA ReturnSafe ==
    ASSUME IInv, NEW t \in Threads, Idle(t), calls[t] # <<>>,
           calls' = [calls EXCEPT ![t] = SubSeq(@, 1, Len(@) - 1)],
           kind' = [kind EXCEPT ![Current(t)] = "none"],
           \A j \in Instances : crefs[j] > 0 => crefs'[j] > 0,
           \A j \in Instances : j # Current(t) => floating'[j] = floating[j],
           UNCHANGED pend
    PROVE  /\ CallsInv' /\ PendInv'
           /\ calls' \in [Threads -> Seq(Instances)]
           /\ kind' \in [Instances -> {"none", "plain", "floating", "toplevel"}]
           /\ Current(t) \in Instances /\ InNew(Current(t))
           /\ Current(t) \in Calling(t)
           /\ Calling(t)' = Calling(t) \ {Current(t)}
           /\ \A u \in Threads : u # t => /\ Current(t) \notin Calling(u)
                                          /\ Calling(u)' = Calling(u)
           /\ kind'[Current(t)] = "none"
           /\ \A j \in Instances : j # Current(t) => kind'[j] = kind[j]
<1> USE DEF IInv
<1> DEFINE i == Current(t)
<1>1. /\ calls' \in [Threads -> Seq(Instances)]
      /\ i \in Instances /\ InNew(i) /\ i \in Calling(t)
      /\ \A n \in 1..Len(calls'[t]) : calls'[t][n] = calls[t][n]
      /\ \A n \in 1..Len(calls'[t]) : calls'[t][n] # i
      /\ \A u \in Threads : u # t => calls'[u] = calls[u]
      /\ \A u \in Threads : u # t => i \notin Calling(u)
      /\ \A n \in 1..Len(calls'[t]) : n \in 1..Len(calls[t])
      /\ Calling(t)' = Calling(t) \ {i}
  BY CallsPop
<1> HIDE DEF i
<1>2. /\ kind' \in [Instances -> {"none", "plain", "floating", "toplevel"}]
      /\ kind'[i] = "none"
      /\ \A j \in Instances : j # i => kind'[j] = kind[j]
  BY <1>1 DEF TypeOK, i
<1>3. \A u \in Threads : u # t => Calling(u)' = Calling(u)
  BY <1>1 DEF Calling
<1>4. CallsInv'
  <2>1. ASSUME NEW u \in Threads, NEW m \in 1..Len(calls'[u])
        PROVE  /\ m \in 1..Len(calls[u]) /\ calls'[u][m] = calls[u][m]
               /\ calls[u][m] # i /\ calls[u][m] \in Instances
    <3>1. m \in 1..Len(calls[u]) /\ calls'[u][m] = calls[u][m]
      BY <1>1
    <3>2. calls[u][m] \in Calling(u)
      BY <3>1 DEF Calling
    <3>3. calls[u][m] # i
      BY <1>1, <3>1, <3>2
    <3> QED
      BY <3>1, <3>2, <3>3, CallingInInstances
  <2>2. ASSUME NEW u \in Threads, NEW m \in 1..Len(calls'[u])
        PROVE  kind'[calls'[u][m]] # "none"
    <3>1. InNew(calls[u][m])
      BY <2>1 DEF CallsInv
    <3> QED
      BY <1>2, <2>1, <3>1 DEF InNew
  <2>3. ASSUME NEW u \in Threads, NEW v \in Threads,
               NEW m \in 1..Len(calls'[u]), NEW n \in 1..Len(calls'[v]),
               calls'[u][m] = calls'[v][n]
        PROVE  u = v /\ m = n
    <3>1. /\ m \in 1..Len(calls[u]) /\ n \in 1..Len(calls[v])
          /\ calls[u][m] = calls[v][n]
      BY <2>1, <2>3
    <3> QED
      BY <3>1 DEF CallsInv
  <2> QED
    BY <2>2, <2>3 DEF CallsInv, InNew
<1>5. PendInv'
  <2> SUFFICES ASSUME NEW v \in Threads, pend[v] # None
               PROVE  /\ \/ crefs'[pend[v].inst] > 0
                         \/ pend[v].drop /\ floating'[pend[v].inst]
                         \/ ~pend[v].drop /\ pend[v].inst \in Calling(v)'
                      /\ pend[v].drop =>
                            /\ ~InNew(pend[v].inst)'
                            /\ \A u \in Threads : u # v /\ pend[u] # None
                                  => pend[u].inst # pend[v].inst
    BY DEF PendInv
  <2>1. pend[v].inst \in Instances /\ v # t
    BY DEF TypeOK, Pending, Idle
  <2>2. pend[v].drop => pend[v].inst # i
    BY <1>1 DEF PendInv
  <2> QED
    BY <1>2, <1>3, <2>1, <2>2 DEF PendInv, InNew, i
<1> QED
  BY <1>1, <1>2, <1>3, <1>4, <1>5 DEF i

\* FinishConstruct pops the entry that this construction pushed, and what it
\* drops is the reference that g_object_newv returned.
LEMMA FinishConstructStep ==
    ASSUME IInv, NEW t \in Threads, FinishConstruct(t)
    PROVE  IInv'
<1> USE DEF IInv
<1>0. PICK i \in Instances : i = Current(t)
  BY CallsPop DEF FinishConstruct
<1>1. /\ Idle(t) /\ calls[t] # <<>> /\ todo[i] = 0 /\ by[i] # None
      /\ by' = [by EXCEPT ![i] = None]
      /\ kind' = [kind EXCEPT ![i] = "none"]
      /\ fluid' = [fluid EXCEPT ![t] = Tail(@)]
      /\ calls' = [calls EXCEPT ![t] = SubSeq(@, 1, Len(@) - 1)]
      /\ UNCHANGED <<crefs, gcvars, todo, pend>>
      /\ \/ BindToObject(i, by[i], AfterPostMake(i))
         \/ /\ slot[by[i]] = i
            /\ refs' = [refs EXCEPT ![i] = @ - AfterPostMake(i)]
            /\ UNCHANGED <<floating, cache, slot>>
  BY <1>0 DEF FinishConstruct, PopInConstruction, BoundInInit
<1>2. i \in Instances /\ InNew(i)
  BY <1>0, <1>1, CallsPop
<1>3. \A j \in Instances : j # i => floating'[j] = floating[j]
  BY <1>1, <1>2 DEF BindToObject, TypeOK
<1>4. /\ CallsInv' /\ PendInv'
      /\ calls' \in [Threads -> Seq(Instances)]
      /\ kind' \in [Instances -> {"none", "plain", "floating", "toplevel"}]
      /\ i \in Calling(t) /\ Calling(t)' = Calling(t) \ {i}
      /\ \A u \in Threads : u # t => i \notin Calling(u) /\ Calling(u)' = Calling(u)
      /\ kind'[i] = "none"
      /\ \A j \in Instances : j # i => kind'[j] = kind[j]
  BY <1>0, <1>1, <1>3, ReturnSafe
<1>5. /\ by' \in [Instances -> Wrappers \cup {None}]
      /\ by'[i] = None /\ \A j \in Instances : j # i => by'[j] = by[j]
      /\ by[i] \in Wrappers
  BY <1>1, <1>2 DEF TypeOK
<1>6. refs[i] > 0 /\ refs[i] \in Nat /\ crefs[i] \in Nat
  BY <1>2, ExistsWhileUsed DEF TypeOK
<1>7. /\ AfterPostMake(i) \in {0, 1}
      /\ AfterPostMake(i) <= NewRef(i)
  BY <1>2 DEF AfterPostMake, NewRef, InNew, TypeOK
<1>8. /\ refs' \in [Instances -> Nat] /\ floating' \in [Instances -> BOOLEAN]
      /\ slot' \in [Wrappers -> Slots]
      /\ cache' \in [Instances -> Wrappers \cup {None}]
      /\ NoUseAfterFree'
      /\ \A j \in Instances :
            /\ refs'[j] = 0 => cache'[j] = None
            /\ cache'[j] # None => ~floating'[j]
            /\ \A v \in Wrappers : slot'[v] = j => ~floating'[j]
            /\ floating'[j] => floating[j]
  <2>1. CASE BindToObject(i, by[i], AfterPostMake(i))
    <3>1. crefs' = crefs /\ kind'[i] \notin {"plain", "floating"}
      BY <1>1, <1>4
    <3>2. NewRef(i) \in Nat
      BY DEF NewRef
    <3>3. crefs'[i] + (IF kind'[i] \in {"plain", "floating"} THEN 1 ELSE 0)
             + AfterPostMake(i) <= crefs[i] + NewRef(i)
      BY <1>6, <1>7, <3>1, <3>2
    <3>4. /\ crefs' \in [Instances -> Nat]
          /\ \A j \in Instances : j # i => crefs'[j] = crefs[j] /\ kind'[j] = kind[j]
      BY <1>4, <3>1 DEF TypeOK
    <3> QED
      BY <1>2, <1>4, <1>5, <1>6, <1>7, <2>1, <3>3, <3>4, BindSafe
  <2>2. CASE /\ slot[by[i]] = i
             /\ refs' = [refs EXCEPT ![i] = @ - AfterPostMake(i)]
             /\ UNCHANGED <<floating, cache, slot>>
    <3>1. \A j : BoundTo(j)' = BoundTo(j)
      BY <2>2 DEF BoundTo
    <3>2. ~floating[i] /\ Cardinality(BoundTo(i)) # 0
      <4>1. by[i] \in BoundTo(i)
        BY <1>5, <2>2 DEF BoundTo
      <4> QED
        BY <1>2, <1>5, <2>2, <4>1, BoundFinite, FS_EmptySet DEF NewInv
    <3>3. ASSUME NEW j \in Instances
          PROVE  /\ refs'[j] \in Nat /\ refs'[j] >= Accounted(j)'
                 /\ refs'[j] = 0 => cache[j] = None
      <4>1. /\ refs[j] >= Cardinality(BoundTo(j)) + crefs[j] + NewRef(j)
            /\ Cardinality(BoundTo(j)) \in Nat
            /\ refs[j] \in Nat /\ crefs[j] \in Nat
        BY BoundFinite DEF NoUseAfterFree, Accounted, TypeOK
      <4>2. CASE j = i
        <5>1. refs'[i] = refs[i] - AfterPostMake(i)
          BY <1>2, <2>2 DEF TypeOK
        <5>2. NewRef(i)' = 0
          BY <1>4, <2>2, <3>2 DEF NewRef
        <5>3. NewRef(i) \in Nat
          BY DEF NewRef
        <5> QED
          BY <1>1, <1>7, <3>1, <3>2, <4>1, <4>2, <5>1, <5>2, <5>3 DEF Accounted
      <4>3. CASE j # i
        <5>1. refs'[j] = refs[j] /\ NewRef(j)' = NewRef(j)
          BY <1>2, <1>4, <2>2, <4>3 DEF TypeOK, NewRef
        <5> QED
          BY <1>1, <3>1, <4>1, <5>1 DEF Accounted, NoUseAfterFree, NewInv
      <4> QED
        BY <4>2, <4>3
    <3>4. refs' \in [Instances -> Nat]
      BY <2>2, <3>3 DEF TypeOK
    <3> QED
      BY <2>2, <3>3, <3>4 DEF NoUseAfterFree, NewInv, TypeOK
  <2> QED
    BY <1>1, <2>1, <2>2
<1>9. /\ fluid' \in [Threads -> Seq(Wrappers)]
      /\ Len(fluid'[t]) = Len(fluid[t]) - 1
      /\ \A u \in Threads : u # t => fluid'[u] = fluid[u]
      /\ Cardinality(SchemeCalls(t)') = Cardinality(SchemeCalls(t)) - 1
  <2>1. SchemeCalls(t)' = SchemeCalls(t) \ {i}
    <3>1. \A j \in Calling(t) : j # i => by'[j] = by[j]
      BY <1>5, CallingInInstances
    <3> QED
      BY <1>4, <1>5, <3>1 DEF SchemeCalls
  <2>2. i \in SchemeCalls(t)
    BY <1>1, <1>4 DEF SchemeCalls
  <2>3. IsFiniteSet(SchemeCalls(t)) /\ Cardinality(SchemeCalls(t)) \in Nat
    BY SchemeCallsFinite
  <2>4. /\ Cardinality(SchemeCalls(t) \ {i}) = Cardinality(SchemeCalls(t)) - 1
        /\ Cardinality(SchemeCalls(t)) # 0
    BY <2>2, <2>3, FS_RemoveElement, FS_EmptySet
  <2>5. fluid[t] \in Seq(Wrappers) /\ Len(fluid[t]) # 0
    BY <2>4 DEF FluidInv, TypeOK
  <2>6. Tail(fluid[t]) \in Seq(Wrappers) /\ Len(Tail(fluid[t])) = Len(fluid[t]) - 1
    BY <2>5, HeadTailProperties, EmptySeq
  <2>7. fluid'[t] = Tail(fluid[t]) /\ \A u \in Threads : u # t => fluid'[u] = fluid[u]
    BY <1>1 DEF TypeOK
  <2>8. fluid' \in [Threads -> Seq(Wrappers)]
    BY <1>1, <2>6 DEF TypeOK
  <2> QED
    BY <2>1, <2>4, <2>6, <2>7, <2>8
<1>10. FluidInv'
  <2>1. ASSUME NEW u \in Threads, u # t PROVE SchemeCalls(u)' = SchemeCalls(u)
    <3>1. \A j \in Calling(u) : by'[j] = by[j]
      BY <1>4, <1>5, <2>1, CallingInInstances
    <3> QED
      BY <1>4, <2>1, <3>1 DEF SchemeCalls
  <2> QED
    BY <1>9, <2>1 DEF FluidInv
<1>11. TypeOK'
  BY <1>1, <1>4, <1>5, <1>8, <1>9 DEF TypeOK, gcvars
<1>12. NewInv'
  BY <1>1, <1>4, <1>5, <1>8 DEF NewInv, InNew
<1> QED
  BY <1>4, <1>8, <1>10, <1>11, <1>12

\* FinishGObjectNew hands the reference of g_object_new over to the caller.
LEMMA FinishGObjectNewStep ==
    ASSUME IInv, NEW t \in Threads, FinishGObjectNew(t)
    PROVE  IInv'
<1> USE DEF IInv
<1>0. PICK i \in Instances : i = Current(t)
  BY CallsPop DEF FinishGObjectNew
<1>1. /\ Idle(t) /\ calls[t] # <<>> /\ by[i] = None
      /\ calls' = [calls EXCEPT ![t] = SubSeq(@, 1, Len(@) - 1)]
      /\ kind' = [kind EXCEPT ![i] = "none"]
      /\ crefs' = [crefs EXCEPT ![i] = IF kind[i] = "plain" THEN @ + 1 ELSE @]
      /\ UNCHANGED <<refs, floating, cache, slot, gcvars, fluid, by, todo, pend>>
  BY <1>0 DEF FinishGObjectNew
<1>2. i \in Instances
  OBVIOUS
<1>3. /\ crefs' \in [Instances -> Nat]
      /\ crefs'[i] = IF kind[i] = "plain" THEN crefs[i] + 1 ELSE crefs[i]
      /\ \A j \in Instances : j # i => crefs'[j] = crefs[j]
      /\ \A j \in Instances : crefs[j] > 0 => crefs'[j] > 0
  BY <1>1, <1>2 DEF TypeOK
<1>4. /\ CallsInv' /\ PendInv'
      /\ calls' \in [Threads -> Seq(Instances)]
      /\ kind' \in [Instances -> {"none", "plain", "floating", "toplevel"}]
      /\ Calling(t)' = Calling(t) \ {i}
      /\ \A u \in Threads : u # t => Calling(u)' = Calling(u)
      /\ kind'[i] = "none" /\ InNew(i)
      /\ \A j \in Instances : j # i => kind'[j] = kind[j]
  BY <1>0, <1>1, <1>3, ReturnSafe
<1>5. TypeOK'
  BY <1>1, <1>3, <1>4 DEF TypeOK, gcvars
<1>6. NewInv'
  BY <1>1, <1>3, <1>4 DEF NewInv, InNew
<1>7. NoUseAfterFree'
  <2> SUFFICES ASSUME NEW j \in Instances PROVE refs'[j] >= Accounted(j)'
    BY DEF NoUseAfterFree
  <2>1. /\ refs[j] >= Cardinality(BoundTo(j)) + crefs[j] + NewRef(j)
        /\ Cardinality(BoundTo(j)) \in Nat
        /\ refs[j] \in Nat /\ crefs[j] \in Nat
    BY BoundFinite DEF NoUseAfterFree, Accounted, TypeOK
  <2>2. BoundTo(j)' = BoundTo(j) /\ refs'[j] = refs[j]
    BY <1>1 DEF BoundTo
  <2>3. crefs'[j] + NewRef(j)' <= crefs[j] + NewRef(j) /\ NewRef(j)' \in Nat
    <3>1. CASE j = i
      <4>1. NewRef(i)' = IF floating[i] THEN 1 ELSE 0
        BY <1>1, <1>4 DEF NewRef
      <4>2. kind[i] \in {"plain", "floating", "toplevel"}
            /\ (kind[i] = "plain" => ~floating[i])
        BY <1>4 DEF InNew, TypeOK, NewInv
      <4>3. crefs[i] \in Nat
        BY <2>1, <3>1
      <4> QED
        BY <1>3, <3>1, <4>1, <4>2, <4>3 DEF NewRef
    <3>2. CASE j # i
      BY <1>1, <1>3, <1>4, <2>1, <3>2 DEF NewRef
    <3> QED
      BY <3>1, <3>2
  <2>4. crefs'[j] \in Nat /\ NewRef(j) \in Nat
    BY <1>3 DEF NewRef
  <2> QED
    BY <2>1, <2>2, <2>3, <2>4 DEF Accounted
<1>8. ASSUME NEW u \in Threads PROVE SchemeCalls(u)' = SchemeCalls(u)
  <2>1. CASE u = t
    BY <1>1, <1>4, <2>1 DEF SchemeCalls
  <2>2. CASE u # t
    BY <1>1, <1>4, <2>2 DEF SchemeCalls
  <2> QED
    BY <2>1, <2>2
<1>9. FluidInv'
  BY <1>1, <1>8 DEF FluidInv
<1> QED
  BY <1>4, <1>5, <1>6, <1>7, <1>9

-----------------------------------------------------------------------------
(* The invariant and what follows from it *)

\* At the start nothing is allocated and nothing refers to anything.
LEMMA InitSafe == Init => IInv
<1> SUFFICES ASSUME Init PROVE IInv
  OBVIOUS
<1>1. TypeOK
  BY DEF Init, TypeOK, Slots
<1>2. \A i \in Instances : BoundTo(i) = {}
  BY SlotAssumption DEF Init, BoundTo
<1>3. NoUseAfterFree
  <2>1. ASSUME NEW i \in Instances PROVE refs[i] >= Accounted(i)
    <3>1. /\ refs[i] = 0 /\ crefs[i] = 0 /\ ~floating[i]
          /\ kind[i] \notin {"plain", "floating"}
      BY DEF Init
    <3>2. Cardinality(BoundTo(i)) = 0
      BY <1>2, FS_EmptySet
    <3> QED
      BY <3>1, <3>2 DEF Accounted, NewRef
  <2> QED
    BY <2>1 DEF NoUseAfterFree
<1>4. NewInv
  BY SlotAssumption DEF Init, NewInv, InNew
<1>5. PendInv /\ CallsInv
  BY DEF Init, PendInv, CallsInv
<1>6. FluidInv
  <2>1. \A t \in Threads : SchemeCalls(t) = {}
    BY DEF Init, SchemeCalls, Calling
  <2> QED
    BY <2>1, FS_EmptySet DEF Init, FluidInv
<1> QED
  BY <1>1, <1>3, <1>4, <1>5, <1>6 DEF IInv

\* Every step of the bindings, of C code and of the collector keeps IInv.
LEMMA NextSafe == IInv /\ [Next]_vars => IInv'
<1> SUFFICES ASSUME IInv, [Next]_vars PROVE IInv'
  OBVIOUS
<1>1. ASSUME NEW w \in Wrappers, AllocateInstance(w) PROVE IInv'
  BY <1>1, AllocateInstanceStep
<1>2. ASSUME NEW w \in Wrappers, Collect(w) PROVE IInv'
  BY <1>2, CollectStep
<1>3. ASSUME NEW w \in Wrappers, Finalize(w) PROVE IInv'
  BY <1>3, FinalizeStep
<1>4. ASSUME NEW i \in Instances, CRef(i) PROVE IInv'
  BY <1>4, CRefStep
<1>5. ASSUME NEW i \in Instances, CUnref(i) PROVE IInv'
  BY <1>5, CUnrefStep
<1>6. ASSUME NEW t \in Threads, InstanceInit(t) PROVE IInv'
  BY <1>6, InstanceInitStep
<1>7. ASSUME NEW t \in Threads, FinishConstruct(t) PROVE IInv'
  BY <1>7, FinishConstructStep
<1>8. ASSUME NEW t \in Threads, FinishGObjectNew(t) PROVE IInv'
  BY <1>8, FinishGObjectNewStep
<1>9. ASSUME NEW t \in Threads, NEW w \in Wrappers, ToScmBind(t, w) PROVE IInv'
  BY <1>9, ToScmBindStep
<1>10. ASSUME NEW t \in Threads, NEW w \in Wrappers, DestroyX(t, w) PROVE IInv'
  BY <1>10, DestroyXStep
<1>11. ASSUME NEW t \in Threads, NEW i \in Instances, NEW n \in Levels,
              NEW k \in Kinds, GObjectNew(t, i, n, k)
       PROVE  IInv'
  BY <1>11, GObjectNewStep
<1>12. ASSUME NEW t \in Threads, NEW w \in Wrappers, NEW i \in Instances,
              NEW n \in Levels, NEW k \in Kinds, Construct(t, w, i, n, k)
       PROVE  IInv'
  BY <1>12, ConstructStep
<1>13. ASSUME NEW t \in Threads, NEW i \in Instances, NEW drop \in BOOLEAN,
              ToScmCached(t, i, drop)
       PROVE  IInv'
  BY <1>13, ToScmCachedStep
<1>14. ASSUME NEW t \in Threads, NEW i \in Instances, NEW drop \in BOOLEAN,
              ToScmMiss(t, i, drop)
       PROVE  IInv'
  BY <1>14, ToScmMissStep
<1>15. CASE UNCHANGED vars
  <2>1. \A i : BoundTo(i)' = BoundTo(i)
    BY <1>15 DEF vars, BoundTo
  <2>2. TypeOK' /\ NewInv' /\ PendInv'
    BY <1>15 DEF vars, IInv, TypeOK, NewInv, PendInv, InNew, Calling
  <2>3. NoUseAfterFree'
    BY <1>15, <2>1 DEF vars, IInv, NoUseAfterFree, Accounted, NewRef
  <2>4. CallsInv' /\ FluidInv'
    BY <1>15, SameCalls DEF vars
  <2> QED
    BY <2>2, <2>3, <2>4 DEF IInv
<1> QED
  BY <1>1, <1>2, <1>3, <1>4, <1>5, <1>6, <1>7, <1>8, <1>9, <1>10, <1>11,
     <1>12, <1>13, <1>14, <1>15 DEF Next

\* The strengthened invariant holds in every reachable state.
THEOREM Inductive == Spec => []IInv
  BY InitSafe, NextSafe, PTL DEF Spec

\* Every variable keeps to its type: reference counts never go below zero,
\* and no pop of the fluid meets an empty list.
THEOREM TypeCorrect == Spec => []TypeOK
<1>1. IInv => TypeOK
  BY DEF IInv
<1> QED
  BY <1>1, Inductive, PTL

\* However many instances, wrappers and threads there are and whatever C code
\* does in between, no instance is freed while a wrapper is bound to it, C
\* code owns a reference to it or a construction will still use it.
THEOREM NeverFreedInUse == Spec => []NoUseAfterFree
<1>1. IInv => NoUseAfterFree
  BY DEF IInv
<1> QED
  BY <1>1, Inductive, PTL

-----------------------------------------------------------------------------
(***************************************************************************)
(* For programs as the runs check them (Simple), and for any number of     *)
(* instances, wrappers, nested constructions and C references: an instance *)
(* has one wrapper at a time and no reference that nobody will drop, and   *)
(* InstanceWrapper implements WrapperIdentity.                             *)
(*                                                                         *)
(* SameWrapper and CacheCoherent say together that `slot' and `cache' are  *)
(* inverse.  Binding keeps that where the instance has no wrapper and the  *)
(* wrapper no instance, which instance_init has to know of the wrapper     *)
(* that it takes from the fluid (NestInv) and construct of the one that it *)
(* was given (BuildInv).                                                   *)
(***************************************************************************)

\* One thread runs Scheme; an instance is of at most one class defined in
\* Scheme; C code does not create such instances inside a construction or below
\* GInitiallyUnowned, and hands out none that is not ready.
Simple ==
    /\ \A t, u \in Threads : t = u
    /\ Levels \subseteq {0, 1}
    /\ Env \subseteq {"resurrect"}

\* What is under construction has its own wrapper, or none yet.
BuildInv ==
    /\ \A i \in Instances :
          by[i] # None => by[i] \in held /\ (cache[i] # None => cache[i] = by[i])
    /\ \A i, j \in Instances : by[i] # None /\ by[i] = by[j] => i = j
    /\ \A i \in Instances :
          InNew(i) /\ todo[i] > 0 => todo[i] = 1 /\ cache[i] = None

\* The instance that to_scm is wrapping still has no wrapper.
WrapInv ==
    \A t \in Threads :
        pend[t] # None => ~InNew(pend[t].inst) /\ cache[pend[t].inst] = None

\* The entries of the fluid are the constructions from Scheme, from the
\* innermost: g says of each where it is on the stack of calls.
Places(t, g) ==
    /\ g \in [1..Len(fluid[t]) -> 1..Len(calls[t])]
    /\ \A j, k \in 1..Len(fluid[t]) : j < k => g[j] > g[k]
    /\ \A k \in 1..Len(fluid[t]) : by[calls[t][g[k]]] = fluid[t][k]
    /\ \A n \in 1..Len(calls[t]) :
          by[calls[t][n]] # None => \E k \in 1..Len(fluid[t]) : g[k] = n

\* No class defined in Scheme is instantiated by C inside a construction.
NestInv ==
    \A t \in Threads :
        /\ \E g \in [1..Len(fluid[t]) -> 1..Len(calls[t])] : Places(t, g)
        /\ \A m, n \in 1..Len(calls[t]) :
              m < n /\ todo[calls[t][n]] > 0 /\ by[calls[t][n]] = None
                => by[calls[t][m]] = None

Attached(i) == IF cache[i] = None THEN 0 ELSE 1

\* A floating reference is the only one but those of GTK's constructor.
LeakInv ==
    \A i \in Instances :
        /\ floating[i] => crefs[i] = 0 /\ kind[i] \in {"none", "floating"}
        /\ kind[i] = "floating" /\ by[i] = None => floating[i] /\ todo[i] = 0
        /\ refs[i] <= Attached(i) + crefs[i] + NewRef(i)

WInv ==
    /\ SameWrapper /\ CacheCoherent /\ ConstructionKeepsWrapper
    /\ BuildInv /\ WrapInv /\ NestInv /\ LeakInv

\* The instances that exist
Alive == {i \in Instances : refs[i] > 0}

\* What WrapperIdentity lets happen, told of `cache'
IdentityStep ==
    \/ Alive' = Alive /\ cache' = cache
    \/ \E i \in Instances : i \notin Alive /\ Alive' = Alive \cup {i} /\ cache' = cache
    \/ \E i \in Instances, w \in Wrappers :
          /\ i \in Alive /\ cache[i] = None /\ \A j \in Instances : cache[j] # w
          /\ cache' = [cache EXCEPT ![i] = w] /\ Alive' = Alive
    \/ \E i \in Instances :
          /\ cache[i] # None /\ cache' = [cache EXCEPT ![i] = None]
          /\ Alive' \in {Alive, Alive \ {i}}
    \/ \E i \in Instances : cache[i] = None /\ cache' = cache /\ Alive' = Alive \ {i}

-----------------------------------------------------------------------------
(* One wrapper *)

\* An instance's wrappers are the one that its qdata names.
LEMMA OneWrapper ==
    ASSUME TypeOK, SameWrapper, CacheCoherent, NEW i \in Instances
    PROVE  BoundTo(i) = IF cache[i] = None THEN {} ELSE {cache[i]}
<1>1. cache[i] \in Wrappers \cup {None} /\ None \notin Wrappers
  BY NoneAssumption DEF TypeOK
<1>2. \A w \in BoundTo(i) : w \in Wrappers /\ cache[i] = w
  BY DEF BoundTo, SameWrapper
<1>3. cache[i] # None => cache[i] \in BoundTo(i)
  BY <1>1 DEF BoundTo, CacheCoherent
<1> QED
  BY <1>1, <1>2, <1>3

\* The same after a step
LEMMA OneWrapperNext ==
    ASSUME TypeOK', SameWrapper', CacheCoherent', NEW i \in Instances
    PROVE  BoundTo(i)' = IF cache'[i] = None THEN {} ELSE {cache'[i]}
<1>1. cache'[i] \in Wrappers \cup {None} /\ None \notin Wrappers
  BY NoneAssumption DEF TypeOK
<1>2. \A w \in BoundTo(i)' : w \in Wrappers /\ cache'[i] = w
  BY DEF BoundTo, SameWrapper
<1>3. cache'[i] # None => cache'[i] \in BoundTo(i)'
  BY <1>1 DEF BoundTo, CacheCoherent
<1> QED
  BY <1>1, <1>2, <1>3

\* The references of an instance, by who will drop them
LEMMA Balance ==
    ASSUME IInv, SameWrapper, CacheCoherent, NEW i \in Instances
    PROVE  /\ refs[i] >= Attached(i) + crefs[i] + NewRef(i)
           /\ Accounted(i) = Attached(i) + crefs[i] + NewRef(i)
           /\ refs[i] \in Nat /\ crefs[i] \in Nat /\ NewRef(i) \in {0, 1} /\ Attached(i) \in {0, 1}
<1>1. BoundTo(i) = IF cache[i] = None THEN {} ELSE {cache[i]}
  BY OneWrapper DEF IInv
<1>2. Cardinality({}) = 0 /\ Cardinality({cache[i]}) = 1
  BY FS_EmptySet, FS_Singleton
<1>3. Cardinality(BoundTo(i)) = Attached(i)
  BY <1>1, <1>2 DEF Attached
<1>4. refs[i] \in Nat /\ crefs[i] \in Nat /\ NewRef(i) \in {0, 1} /\ Attached(i) \in {0, 1}
  BY DEF IInv, TypeOK, NewRef, Attached
<1>5. refs[i] >= Accounted(i)
  BY DEF IInv, NoUseAfterFree
<1> QED
  BY <1>3, <1>4, <1>5 DEF Accounted

\* After a step, what has a wrapper exists.
LEMMA AttachedExists ==
    ASSUME IInv', SameWrapper', CacheCoherent', NEW i \in Instances, cache'[i] # None
    PROVE  refs'[i] > 0
<1>1. BoundTo(i)' = {cache'[i]}
  BY OneWrapperNext DEF IInv
<1>2. Cardinality(BoundTo(i)') = 1
  BY <1>1, FS_Singleton
<1>3. refs'[i] \in Nat /\ crefs'[i] \in Nat /\ NewRef(i)' \in {0, 1}
  BY DEF IInv, TypeOK, NewRef
<1>4. refs'[i] >= Accounted(i)'
  BY DEF IInv, NoUseAfterFree
<1> QED
  BY <1>2, <1>3, <1>4 DEF Accounted

\* A wrapper that was never handed out, or is gone, stands for nothing.
LEMMA FreshUnbound ==
    ASSUME IInv, WInv, NEW w \in Wrappers, Fresh(w)
    PROVE  /\ slot[w] \notin Instances /\ ~UnderConstruction(w)
           /\ \A i \in Instances : cache[i] # w
<1>1. None \notin Wrappers
  BY NoneAssumption
<1>2. \A i \in Instances : cache[i] # w
  BY <1>1 DEF WInv, CacheCoherent
<1>3. slot[w] \notin Instances
  BY <1>2 DEF WInv, SameWrapper
<1>4. ~UnderConstruction(w)
  BY <1>1 DEF WInv, BuildInv, UnderConstruction, Fresh
<1> QED
  BY <1>2, <1>3, <1>4

\* The program holds what it constructs.
LEMMA BuiltIsHeld ==
    ASSUME WInv, NEW w \in Wrappers, UnderConstruction(w)
    PROVE  w \in held
  BY NoneAssumption DEF WInv, BuildInv, UnderConstruction

-----------------------------------------------------------------------------
(* Binding and unbinding *)

\* An instance without a wrapper and a wrapper without an instance are bound.
LEMMA BindCoherent ==
    ASSUME IInv, WInv, NEW i \in Instances, NEW w \in Wrappers, NEW u, BindToObject(i, w, u),
           cache[i] = None, slot[w] \notin Instances,
           w \in held', held \subseteq held', queued' = queued
    PROVE  /\ SameWrapper' /\ CacheCoherent'
           /\ cache'[i] = w /\ \A j \in Instances : j # i => cache'[j] = cache[j]
           /\ slot'[w] = i /\ \A v \in Wrappers : v # w => slot'[v] = slot[v]
           /\ \A j \in Instances : cache[j] # w
<1>1. None \notin Wrappers
  BY NoneAssumption
<1>2. /\ cache'[i] = w /\ \A j \in Instances : j # i => cache'[j] = cache[j]
      /\ slot'[w] = i /\ \A v \in Wrappers : v # w => slot'[v] = slot[v]
  BY DEF BindToObject, IInv, TypeOK
<1>3. \A j \in Instances : cache[j] # w
  BY <1>1 DEF WInv, CacheCoherent
<1>4. SameWrapper'
  <2> SUFFICES ASSUME NEW v \in Wrappers, slot'[v] \in Instances PROVE cache'[slot'[v]] = v
    BY DEF SameWrapper
  <2>1. CASE v = w
    BY <1>2, <2>1
  <2>2. CASE v # w
    <3>1. slot'[v] = slot[v] /\ cache[slot[v]] = v
      BY <1>2, <2>2 DEF WInv, SameWrapper
    <3>2. slot[v] # i
      BY <1>1, <3>1
    <3> QED
      BY <1>2, <3>1, <3>2
  <2> QED
    BY <2>1, <2>2
<1>5. CacheCoherent'
  <2> SUFFICES ASSUME NEW j \in Instances, cache'[j] # None
               PROVE  slot'[cache'[j]] = j /\ cache'[j] \in held' \cup queued'
    BY DEF CacheCoherent, Fresh
  <2>1. CASE j = i
    BY <1>2, <2>1
  <2>2. CASE j # i
    <3>1. cache'[j] = cache[j] /\ slot[cache[j]] = j /\ ~Fresh(cache[j]) /\ cache[j] \in Wrappers
      BY <1>2, <2>2 DEF WInv, CacheCoherent, IInv, TypeOK
    <3> QED
      BY <1>2, <1>3, <3>1 DEF Fresh
  <2> QED
    BY <2>1, <2>2
<1> QED
  BY <1>2, <1>3, <1>4, <1>5


\* A wrapper's finalizer, or destroy!: its instance has none any more.
LEMMA UnbindCoherent ==
    ASSUME IInv, WInv, NEW w \in Wrappers, Unbind(w),
           held' = held, queued' \in {queued, queued \ {w}}
    PROVE  /\ SameWrapper' /\ CacheCoherent'
           /\ \A j \in Instances : cache'[j] \in {cache[j], None}
           /\ \A v \in Wrappers : slot'[v] \in {slot[v], "destroyed"}
<1>1. None \notin Wrappers /\ "destroyed" \notin Instances
  BY NoneAssumption, SlotAssumption
<1>2. ASSUME NEW j \in Instances, cache[j] # None
      PROVE  cache[j] \in Wrappers /\ slot[cache[j]] = j /\ cache[j] \in held \cup queued
  BY <1>2 DEF WInv, CacheCoherent, IInv, TypeOK, Fresh
<1>3. CASE slot[w] \notin Instances
  <2>1. slot' = slot /\ cache' = cache
    BY <1>3 DEF Unbind
  <2>2. ASSUME NEW j \in Instances, cache[j] # None
        PROVE  slot[cache[j]] = j /\ cache[j] \in held' \cup queued'
    BY <1>2, <1>3, <2>2
  <2>3. CacheCoherent'
    BY <2>1, <2>2 DEF CacheCoherent, Fresh
  <2> QED
    BY <2>1, <2>3 DEF WInv, SameWrapper
<1>4. CASE slot[w] \in Instances
  <2>1. PICK i \in Instances : i = slot[w]
    BY <1>4
  <2>2. /\ cache' = [cache EXCEPT ![i] = None] /\ slot' = [slot EXCEPT ![w] = "destroyed"]
        /\ cache[i] = w
    BY <1>4, <2>1 DEF Unbind, WInv, SameWrapper
  <2>3. /\ cache'[i] = None /\ \A j \in Instances : j # i => cache'[j] = cache[j]
        /\ slot'[w] = "destroyed" /\ \A v \in Wrappers : v # w => slot'[v] = slot[v]
    BY <2>2 DEF IInv, TypeOK
  <2>4. ASSUME NEW v \in Wrappers, slot'[v] \in Instances PROVE cache'[slot'[v]] = v
    <3>1. v # w /\ slot'[v] = slot[v] /\ cache[slot[v]] = v
      BY <1>1, <2>3, <2>4 DEF WInv, SameWrapper
    <3>2. slot[v] # i
      BY <2>2, <3>1
    <3> QED
      BY <2>3, <2>4, <3>1, <3>2
  <2>5. ASSUME NEW j \in Instances, cache'[j] # None
        PROVE  slot'[cache'[j]] = j /\ cache'[j] \in held' \cup queued'
    <3>1. j # i /\ cache'[j] = cache[j]
      BY <2>3, <2>5
    <3>2. cache[j] \in Wrappers /\ slot[cache[j]] = j /\ cache[j] \in held \cup queued
      BY <1>2, <2>5, <3>1
    <3>3. cache[j] # w
      BY <2>1, <3>1, <3>2
    <3> QED
      BY <2>3, <3>1, <3>2, <3>3
  <2>6. SameWrapper' /\ CacheCoherent'
    BY <2>4, <2>5 DEF SameWrapper, CacheCoherent, Fresh
  <2> QED
    BY <2>3, <2>6
<1> QED
  BY <1>3, <1>4

\* While nothing is bound or unbound
LEMMA SameCoherent ==
    ASSUME WInv, UNCHANGED <<slot, cache>>, held \cup queued \subseteq held' \cup queued'
    PROVE  SameWrapper' /\ CacheCoherent'
  BY DEF WInv, SameWrapper, CacheCoherent, Fresh

\* While nothing is created
LEMMA SameNest ==
    ASSUME NestInv, fluid' = fluid, calls' = calls, by' = by, todo' = todo
    PROVE  NestInv'
<1>1. ASSUME NEW t \in Threads, NEW g, Places(t, g) PROVE Places(t, g)'
  BY <1>1 DEF Places
<1>2. ASSUME NEW t \in Threads
      PROVE  \E g \in [1..Len(fluid'[t]) -> 1..Len(calls'[t])] : Places(t, g)'
  <2>1. PICK g \in [1..Len(fluid[t]) -> 1..Len(calls[t])] : Places(t, g)
    BY DEF NestInv
  <2>2. Places(t, g)'
    BY <1>1, <2>1
  <2> QED
    BY <2>2
<1>3. ASSUME NEW t \in Threads, NEW m \in 1..Len(calls'[t]), NEW n \in 1..Len(calls'[t]),
             m < n, todo'[calls'[t][n]] > 0, by'[calls'[t][n]] = None
      PROVE  by'[calls'[t][m]] = None
  BY <1>3 DEF NestInv
<1> QED
  BY <1>2, <1>3 DEF NestInv

\* Steps outside g_object_new leave what is under construction alone.
LEMMA OutsideConstruction ==
    ASSUME IInv, WInv, UNCHANGED newvars,
           SameWrapper', CacheCoherent', WrapInv', LeakInv',
           \A i \in Instances : InNew(i) => cache'[i] \in {cache[i], None},
           \A w \in Wrappers :
              UnderConstruction(w) =>
                 w \in held' /\ slot'[w] \in {slot[w], "destroyed"}
    PROVE  WInv'
<1>1. None \notin Wrappers /\ "destroyed" \notin Instances
  BY NoneAssumption, SlotAssumption
<1>2. /\ by' = by /\ kind' = kind /\ todo' = todo /\ calls' = calls /\ fluid' = fluid
      /\ by \in [Instances -> Wrappers \cup {None}]
  BY DEF newvars, IInv, TypeOK
<1>3. ASSUME NEW i \in Instances, by[i] # None
      PROVE  /\ InNew(i) /\ cache'[i] \in {cache[i], None} /\ by[i] \in held'
             /\ slot'[by[i]] \in {slot[by[i]], "destroyed"}
  <2>1. InNew(i) /\ by[i] \in Wrappers /\ UnderConstruction(by[i])
    BY <1>2, <1>3 DEF IInv, NewInv, UnderConstruction
  <2> QED
    BY <2>1
<1>4. ConstructionKeepsWrapper'
  BY <1>1, <1>2, <1>3 DEF WInv, ConstructionKeepsWrapper
<1>5. BuildInv'
  BY <1>2, <1>3 DEF WInv, BuildInv, InNew
<1>6. NestInv'
  BY <1>2, SameNest DEF WInv
<1> QED
  BY <1>4, <1>5, <1>6 DEF WInv

\* Nor do they disturb an instance that to_scm is wrapping.
LEMMA SameWrapping ==
    ASSUME IInv, WInv, UNCHANGED <<pend, kind>>,
           \A i \in Instances : cache'[i] \in {cache[i], None}
    PROVE  WrapInv'
<1> SUFFICES ASSUME NEW t \in Threads, pend[t] # None
             PROVE  kind[pend[t].inst] = "none" /\ cache'[pend[t].inst] = None
  BY DEF WrapInv, InNew
<1>1. PICK i \in Instances : i = pend[t].inst
  BY DEF IInv, TypeOK, Pending
<1> QED
  BY <1>1 DEF WInv, WrapInv, InNew

-----------------------------------------------------------------------------
(* The steps outside g_object_new *)

\* allocate-instance
LEMMA AllocateIdentity ==
    ASSUME IInv, WInv, NEW w \in Wrappers, AllocateInstance(w)
    PROVE  WInv' /\ IdentityStep
<1>1. /\ Fresh(w) /\ held' = held \cup {w} /\ slot' = [slot EXCEPT ![w] = "unbound"]
      /\ UNCHANGED <<refs, floating, crefs, cache, queued, pend>> /\ UNCHANGED newvars
  BY DEF AllocateInstance, cvars
<1>2. slot[w] \notin Instances /\ ~UnderConstruction(w) /\ \A i \in Instances : cache[i] # w
  BY <1>1, FreshUnbound
<1>3. "unbound" \notin Instances /\ None \notin Wrappers
  BY SlotAssumption, NoneAssumption
<1>4. slot'[w] = "unbound" /\ \A v \in Wrappers : v # w => slot'[v] = slot[v]
  BY <1>1 DEF IInv, TypeOK
<1>5. SameWrapper'
  BY <1>1, <1>3, <1>4 DEF WInv, SameWrapper
<1>6. CacheCoherent'
  <2> SUFFICES ASSUME NEW i \in Instances, cache[i] # None
               PROVE  slot'[cache[i]] = i /\ cache[i] \in held' \cup queued'
    BY <1>1 DEF CacheCoherent, Fresh
  <2>1. cache[i] \in Wrappers /\ slot[cache[i]] = i /\ cache[i] \in held \cup queued
    BY DEF WInv, CacheCoherent, IInv, TypeOK, Fresh
  <2> QED
    BY <1>1, <1>2, <1>4, <2>1
<1>7. WrapInv' /\ LeakInv'
  BY <1>1 DEF WInv, WrapInv, LeakInv, Attached, NewRef, InNew, newvars
<1>8. WInv'
  <2>1. ASSUME NEW v \in Wrappers, UnderConstruction(v)
        PROVE  v \in held' /\ slot'[v] \in {slot[v], "destroyed"}
    BY <1>1, <1>2, <1>4, <2>1, BuiltIsHeld
  <2> QED
    BY <1>1, <1>5, <1>6, <1>7, <2>1, OutsideConstruction
<1>9. IdentityStep
  BY <1>1 DEF IdentityStep, Alive
<1> QED
  BY <1>8, <1>9

\* The collector finds w unreachable.
LEMMA CollectIdentity ==
    ASSUME IInv, WInv, NEW w \in Wrappers, Collect(w)
    PROVE  WInv' /\ IdentityStep
<1>1. /\ held' = held \ {w} /\ queued' = queued \cup {w} /\ ~UnderConstruction(w)
      /\ UNCHANGED <<refs, floating, crefs, cache, slot, pend>> /\ UNCHANGED newvars
  BY DEF Collect, cvars
<1>2. SameWrapper' /\ CacheCoherent'
  BY <1>1, SameCoherent
<1>3. WrapInv' /\ LeakInv'
  BY <1>1 DEF WInv, WrapInv, LeakInv, Attached, NewRef, InNew, newvars
<1>4. ASSUME NEW v \in Wrappers, UnderConstruction(v) PROVE v \in held'
  BY <1>1, <1>4, BuiltIsHeld
<1>5. WInv'
  BY <1>1, <1>2, <1>3, <1>4, OutsideConstruction
<1>6. IdentityStep
  BY <1>1 DEF IdentityStep, Alive
<1> QED
  BY <1>5, <1>6

\* Finalize and DestroyX: the reference goes with the wrapper.
LEMMA UnbindIdentity ==
    ASSUME IInv, IInv', WInv, NEW w \in Wrappers, Unbind(w),
           held' = held, queued' \in {queued, queued \ {w}}, UNCHANGED <<crefs, pend>>,
           UNCHANGED newvars
    PROVE  WInv' /\ IdentityStep
<1>1. /\ SameWrapper' /\ CacheCoherent'
      /\ \A j \in Instances : cache'[j] \in {cache[j], None}
      /\ \A v \in Wrappers : slot'[v] \in {slot[v], "destroyed"}
  BY UnbindCoherent
<1>2. WrapInv'
  BY <1>1, SameWrapping DEF newvars
<1>3. \A v \in Wrappers : UnderConstruction(v) => v \in held'
  BY BuiltIsHeld
<1>4. CASE slot[w] \notin Instances
  <2>1. UNCHANGED <<slot, cache, refs, floating>>
    BY <1>4 DEF Unbind
  <2>2. LeakInv'
    BY <2>1 DEF WInv, LeakInv, Attached, NewRef, InNew, newvars
  <2>3. IdentityStep
    BY <2>1 DEF IdentityStep, Alive
  <2> QED
    BY <1>1, <1>2, <1>3, <2>2, <2>3, OutsideConstruction
<1>5. CASE slot[w] \in Instances
  <2>1. PICK i \in Instances : i = slot[w]
    BY <1>5
  <2>2. /\ cache' = [cache EXCEPT ![i] = None] /\ refs' = [refs EXCEPT ![i] = @ - 1]
        /\ floating' = [floating EXCEPT ![i] = @ /\ refs[i] > 1]
        /\ cache[i] = w
    BY <1>5, <2>1 DEF Unbind, WInv, SameWrapper
  <2>3. ~floating[i] /\ cache[i] # None
    BY <2>1, <2>2, NoneAssumption DEF IInv, NewInv
  <2>4. /\ cache'[i] = None /\ refs'[i] = refs[i] - 1 /\ floating'[i] = FALSE
        /\ \A j \in Instances : j # i => /\ cache'[j] = cache[j] /\ refs'[j] = refs[j]
                                         /\ floating'[j] = floating[j]
    BY <2>2, <2>3 DEF IInv, TypeOK
  <2>5. UNCHANGED <<kind, crefs, by, todo>>
    BY DEF newvars
  <2>6. LeakInv'
    <3> SUFFICES ASSUME NEW j \in Instances
                 PROVE  /\ floating'[j] => crefs[j] = 0 /\ kind[j] \in {"none", "floating"}
                        /\ kind[j] = "floating" /\ by[j] = None => floating'[j] /\ todo[j] = 0
                        /\ refs'[j] <= Attached(j)' + crefs[j] + NewRef(j)'
      BY <2>5 DEF LeakInv
    <3>1. /\ floating[j] => crefs[j] = 0 /\ kind[j] \in {"none", "floating"}
          /\ kind[j] = "floating" /\ by[j] = None => floating[j] /\ todo[j] = 0
          /\ refs[j] <= Attached(j) + crefs[j] + NewRef(j)
      BY DEF WInv, LeakInv
    <3>2. CASE j # i
      BY <2>4, <2>5, <3>1, <3>2 DEF Attached, NewRef
    <3>3. CASE j = i
      <4>1. Attached(i) = 1 /\ Attached(i)' = 0 /\ NewRef(i)' = NewRef(i)
        BY <2>3, <2>4, <2>5 DEF Attached, NewRef
      <4>2. refs[i] \in Nat /\ crefs[i] \in Nat /\ NewRef(i) \in {0, 1}
        BY DEF IInv, TypeOK, NewRef
      <4>3. refs'[i] <= Attached(i)' + crefs[i] + NewRef(i)'
        BY <2>4, <3>1, <3>3, <4>1, <4>2
      <4> QED
        BY <2>3, <2>4, <3>1, <3>3, <4>3
    <3> QED
      BY <3>2, <3>3
  <2>7. IdentityStep
    <3>1. Alive' \in {Alive, Alive \ {i}}
      <4>1. refs[i] \in Nat
        BY DEF IInv, TypeOK
      <4>2. \A j \in Instances : j # i => (j \in Alive' <=> j \in Alive)
        BY <2>4 DEF Alive
      <4>3. i \in Alive' => i \in Alive
        BY <2>4, <4>1 DEF Alive
      <4>4. Alive \subseteq Instances /\ Alive' \subseteq Instances
        BY DEF Alive
      <4> QED
        BY <4>2, <4>3, <4>4
    <3> QED
      BY <2>2, <2>3, <3>1 DEF IdentityStep
  <2> QED
    BY <1>1, <1>2, <1>3, <2>6, <2>7, OutsideConstruction
<1> QED
  BY <1>4, <1>5

\* scm_gtype_instance_struct_free
LEMMA FinalizeIdentity ==
    ASSUME IInv, IInv', WInv, NEW w \in Wrappers, Finalize(w)
    PROVE  WInv' /\ IdentityStep
<1>1. /\ Unbind(w) /\ held' = held /\ queued' = queued \ {w}
      /\ UNCHANGED <<crefs, pend>> /\ UNCHANGED newvars
  BY DEF Finalize
<1> QED
  BY <1>1, UnbindIdentity

\* gtype-instance-destroy!
LEMMA DestroyIdentity ==
    ASSUME IInv, IInv', WInv, NEW t \in Threads, NEW w \in Wrappers, DestroyX(t, w)
    PROVE  WInv' /\ IdentityStep
<1>1. /\ Unbind(w) /\ held' = held /\ queued' = queued
      /\ UNCHANGED <<crefs, pend>> /\ UNCHANGED newvars
  BY DEF DestroyX, gcvars
<1> QED
  BY <1>1, UnbindIdentity

\* g_object_ref_sink
LEMMA CRefIdentity ==
    ASSUME IInv, WInv, NEW i \in Instances, CRef(i)
    PROVE  WInv' /\ IdentityStep
<1>1. /\ refs[i] > 0 /\ kind[i] = "none"
      /\ crefs' = [crefs EXCEPT ![i] = @ + 1]
      /\ refs' = [refs EXCEPT ![i] = IF floating[i] THEN @ ELSE @ + 1]
      /\ floating' = [floating EXCEPT ![i] = FALSE]
      /\ UNCHANGED <<cache, slot, held, queued, pend>> /\ UNCHANGED newvars
  BY DEF CRef, gcvars, InNew
<1>2. UNCHANGED <<kind, by, todo>>
  BY <1>1 DEF newvars
<1>3. /\ crefs'[i] = crefs[i] + 1 /\ floating'[i] = FALSE
      /\ refs'[i] = IF floating[i] THEN refs[i] ELSE refs[i] + 1
      /\ \A j \in Instances : j # i => /\ crefs'[j] = crefs[j] /\ refs'[j] = refs[j]
                                       /\ floating'[j] = floating[j]
  BY <1>1 DEF IInv, TypeOK
<1>4. SameWrapper' /\ CacheCoherent'
  BY <1>1, SameCoherent
<1>5. WrapInv'
  BY <1>1, <1>2, SameWrapping
<1>6. LeakInv'
  <2> SUFFICES ASSUME NEW j \in Instances
               PROVE  /\ floating'[j] => crefs'[j] = 0 /\ kind[j] \in {"none", "floating"}
                      /\ kind[j] = "floating" /\ by[j] = None => floating'[j] /\ todo[j] = 0
                      /\ refs'[j] <= Attached(j)' + crefs'[j] + NewRef(j)'
    BY <1>2 DEF LeakInv
  <2>1. /\ floating[j] => crefs[j] = 0 /\ kind[j] \in {"none", "floating"}
        /\ kind[j] = "floating" /\ by[j] = None => floating[j] /\ todo[j] = 0
        /\ refs[j] <= Attached(j) + crefs[j] + NewRef(j)
    BY DEF WInv, LeakInv
  <2>2. CASE j # i
    BY <1>1, <1>2, <1>3, <2>1, <2>2 DEF Attached, NewRef
  <2>3. CASE j = i
    <3>1. /\ Attached(i)' = Attached(i) /\ NewRef(i)' = 0
          /\ NewRef(i) = IF floating[i] THEN 1 ELSE 0
      BY <1>1, <1>2, <1>3 DEF Attached, NewRef
    <3>2. refs[i] \in Nat /\ crefs[i] \in Nat /\ Attached(i) \in {0, 1} /\ floating[i] \in BOOLEAN
      BY DEF IInv, TypeOK, Attached
    <3>3. refs'[i] <= Attached(i)' + crefs'[i] + NewRef(i)'
      BY <1>3, <2>1, <2>3, <3>1, <3>2
    <3> QED
      BY <1>1, <1>3, <2>3, <3>3
  <2> QED
    BY <2>2, <2>3
<1>7. WInv'
  BY <1>1, <1>4, <1>5, <1>6, BuiltIsHeld, OutsideConstruction
<1>8. IdentityStep
  <2>1. refs[i] \in Nat
    BY DEF IInv, TypeOK
  <2>2. \A j \in Instances : refs'[j] > 0 <=> refs[j] > 0
    BY <1>1, <1>3, <2>1
  <2> QED
    BY <1>1, <2>2 DEF IdentityStep, Alive
<1> QED
  BY <1>7, <1>8

\* A reference of somebody else's does not take the wrapper along.
LEMMA UnrefKeepsCache ==
    ASSUME IInv, WInv, NEW i \in Instances, Unref(i), crefs[i] > 0 \/ floating[i]
    PROVE  /\ cache' = cache /\ (cache[i] # None => refs[i] > 1)
           /\ refs[i] \in Nat /\ refs[i] > 0
           /\ refs'[i] = refs[i] - 1 /\ (floating'[i] <=> floating[i] /\ refs[i] > 1)
           /\ \A j \in Instances : j # i => refs'[j] = refs[j] /\ floating'[j] = floating[j]
<1>1. /\ refs[i] >= Attached(i) + crefs[i] + NewRef(i)
      /\ refs[i] \in Nat /\ crefs[i] \in Nat /\ NewRef(i) \in {0, 1} /\ Attached(i) \in {0, 1}
  BY Balance DEF WInv
<1>2. refs[i] > 0
  BY <1>1 DEF NewRef
<1>3. cache[i] # None => crefs[i] > 0 /\ Attached(i) = 1
  BY DEF IInv, NewInv, Attached
<1>4. cache[i] # None => refs[i] > 1
  BY <1>1, <1>3
<1>5. cache' = cache
  BY <1>4 DEF Unref, IInv, TypeOK
<1>6. /\ refs'[i] = refs[i] - 1 /\ (floating'[i] <=> floating[i] /\ refs[i] > 1)
      /\ \A j \in Instances : j # i => refs'[j] = refs[j] /\ floating'[j] = floating[j]
  BY DEF Unref, IInv, TypeOK
<1> QED
  BY <1>1, <1>2, <1>4, <1>5, <1>6

\* C code, or the generated code for a caller-owned result, drops a reference
\* that it owns.
LEMMA UnrefIdentity ==
    ASSUME IInv, WInv, NEW i \in Instances, Unref(i), crefs[i] > 0, ~InNew(i),
           crefs' = [crefs EXCEPT ![i] = @ - 1],
           UNCHANGED <<slot, pend, queued>>, held \subseteq held', UNCHANGED newvars
    PROVE  WInv' /\ IdentityStep
<1>1. /\ cache' = cache /\ (cache[i] # None => refs[i] > 1)
      /\ refs[i] \in Nat /\ refs[i] > 0
      /\ refs'[i] = refs[i] - 1 /\ (floating'[i] <=> floating[i] /\ refs[i] > 1)
      /\ \A j \in Instances : j # i => refs'[j] = refs[j] /\ floating'[j] = floating[j]
  BY UnrefKeepsCache
<1>2. UNCHANGED <<kind, by, todo>>
  BY DEF newvars
<1>3. /\ crefs[i] \in Nat /\ crefs'[i] = crefs[i] - 1
      /\ \A j \in Instances : j # i => crefs'[j] = crefs[j]
  BY DEF IInv, TypeOK
<1>4. SameWrapper' /\ CacheCoherent'
  BY <1>1, SameCoherent
<1>5. WrapInv'
  BY <1>1, <1>2, SameWrapping
<1>6. LeakInv'
  <2> SUFFICES ASSUME NEW j \in Instances
               PROVE  /\ floating'[j] => crefs'[j] = 0 /\ kind[j] \in {"none", "floating"}
                      /\ kind[j] = "floating" /\ by[j] = None => floating'[j] /\ todo[j] = 0
                      /\ refs'[j] <= Attached(j)' + crefs'[j] + NewRef(j)'
    BY <1>2 DEF LeakInv
  <2>1. /\ floating[j] => crefs[j] = 0 /\ kind[j] \in {"none", "floating"}
        /\ kind[j] = "floating" /\ by[j] = None => floating[j] /\ todo[j] = 0
        /\ refs[j] <= Attached(j) + crefs[j] + NewRef(j)
    BY DEF WInv, LeakInv
  <2>2. CASE j # i
    BY <1>1, <1>2, <1>3, <2>1, <2>2 DEF Attached, NewRef
  <2>3. CASE j = i
    <3>1. ~floating[i] /\ ~floating'[i]
      BY <1>1, <2>1, <2>3
    <3>2. /\ Attached(i)' = Attached(i) /\ NewRef(i)' = NewRef(i)
          /\ Attached(i) \in {0, 1} /\ NewRef(i) \in {0, 1}
      BY <1>1, <1>2, <3>1 DEF Attached, NewRef
    <3>3. refs'[i] <= Attached(i)' + crefs'[i] + NewRef(i)'
      BY <1>1, <1>3, <2>1, <2>3, <3>2
    <3> QED
      BY <2>1, <2>3, <3>1, <3>3 DEF InNew
  <2> QED
    BY <2>2, <2>3
<1>7. WInv'
  <2>1. \A w \in Wrappers : UnderConstruction(w) => w \in held'
    BY BuiltIsHeld
  <2> QED
    BY <1>1, <1>4, <1>5, <1>6, <2>1, OutsideConstruction
<1>8. IdentityStep
  <2>1. CASE refs[i] > 1
    <3>1. \A j \in Instances : refs'[j] > 0 <=> refs[j] > 0
      BY <1>1, <2>1
    <3> QED
      BY <1>1, <3>1 DEF IdentityStep, Alive
  <2>2. CASE ~(refs[i] > 1)
    <3>1. cache[i] = None /\ ~(refs'[i] > 0)
      BY <1>1, <2>2
    <3>2. Alive' = Alive \ {i}
      BY <1>1, <3>1 DEF Alive
    <3> QED
      BY <1>1, <3>1, <3>2 DEF IdentityStep
  <2> QED
    BY <2>1, <2>2
<1> QED
  BY <1>7, <1>8

\* g_object_unref
LEMMA CUnrefIdentity ==
    ASSUME IInv, WInv, NEW i \in Instances, CUnref(i)
    PROVE  WInv' /\ IdentityStep
<1>1. /\ Unref(i) /\ crefs[i] > 0 /\ ~InNew(i) /\ crefs' = [crefs EXCEPT ![i] = @ - 1]
      /\ UNCHANGED <<slot, pend, queued>> /\ held \subseteq held' /\ UNCHANGED newvars
  BY DEF CUnref, gcvars
<1> QED
  BY <1>1, UnrefIdentity

\* to_scm finds the wrapper; a caller-owned reference is dropped.
LEMMA ToScmCachedIdentity ==
    ASSUME IInv, WInv, NEW t \in Threads, NEW i \in Instances, NEW drop \in BOOLEAN,
           ToScmCached(t, i, drop)
    PROVE  WInv' /\ IdentityStep
<1>1. /\ cache[i] # None /\ held' = held \cup {cache[i]}
      /\ UNCHANGED <<slot, queued, pend>> /\ UNCHANGED newvars
  BY DEF ToScmCached
<1>2. held \cup queued \subseteq held' \cup queued' /\ held \subseteq held'
  BY <1>1
<1>3. CASE ~drop
  <2>1. UNCHANGED <<refs, floating, crefs, cache>>
    BY <1>3 DEF ToScmCached, cvars
  <2>2. SameWrapper' /\ CacheCoherent'
    BY <1>1, <1>2, <2>1, SameCoherent
  <2>3. WrapInv' /\ LeakInv'
    BY <1>1, <2>1 DEF WInv, WrapInv, LeakInv, Attached, NewRef, InNew, newvars
  <2>4. \A w \in Wrappers : UnderConstruction(w) => w \in held'
    BY <1>2, BuiltIsHeld
  <2>5. WInv'
    BY <1>1, <2>1, <2>2, <2>3, <2>4, OutsideConstruction
  <2>6. IdentityStep
    BY <2>1 DEF IdentityStep, Alive
  <2> QED
    BY <2>5, <2>6
<1>4. CASE drop
  <2>1. Unref(i) /\ DropResult(i)
    BY <1>4 DEF ToScmCached
  <2>2. ~floating[i]
    BY <1>1 DEF IInv, NewInv
  <2>3. crefs[i] > 0 /\ ~InNew(i)
    BY <1>4, <2>2 DEF ToScmCached, MayReturn
  <2>4. crefs' = [crefs EXCEPT ![i] = @ - 1]
    BY <2>1, <2>2 DEF DropResult
  <2> QED
    BY <1>1, <1>2, <2>1, <2>3, <2>4, UnrefIdentity
<1> QED
  BY <1>3, <1>4

\* to_scm finds none.
LEMMA ToScmMissIdentity ==
    ASSUME Simple, IInv, WInv, NEW t \in Threads, NEW i \in Instances, NEW drop \in BOOLEAN,
           ToScmMiss(t, i, drop)
    PROVE  WInv' /\ IdentityStep
<1>1. /\ cache[i] = None /\ MayReturn(t, i, drop)
      /\ pend' = [pend EXCEPT ![t] = [inst |-> i, drop |-> drop]]
      /\ UNCHANGED <<refs, floating, crefs, cache, slot, held, queued>> /\ UNCHANGED newvars
  BY DEF ToScmMiss, cvars, gcvars
<1>2. ~InNew(i)
  BY <1>1 DEF MayReturn, Simple
<1>3. SameWrapper' /\ CacheCoherent'
  BY <1>1, SameCoherent
<1>4. LeakInv'
  BY <1>1 DEF WInv, LeakInv, Attached, NewRef, newvars
<1>5. WrapInv'
  <2>1. \A u \in Threads : u = t
    BY DEF Simple
  <2>2. pend'[t].inst = i
    BY <1>1 DEF IInv, TypeOK
  <2> QED
    BY <1>1, <1>2, <2>1, <2>2 DEF WrapInv, InNew, newvars
<1>6. WInv'
  BY <1>1, <1>3, <1>4, <1>5, BuiltIsHeld, OutsideConstruction
<1>7. IdentityStep
  BY <1>1 DEF IdentityStep, Alive
<1> QED
  BY <1>6, <1>7

\* Attaching a wrapper is a step of WrapperIdentity.
LEMMA AttachStep ==
    ASSUME IInv, IInv', WInv, NEW i \in Instances, NEW w \in Wrappers, NEW u \in {0, 1},
           BindToObject(i, w, u), refs[i] > 0, cache[i] = None, slot[w] \notin Instances,
           w \in held', held \subseteq held', queued' = queued
    PROVE  /\ SameWrapper' /\ CacheCoherent' /\ IdentityStep
           /\ cache'[i] = w /\ \A j \in Instances : j # i => cache'[j] = cache[j]
           /\ slot'[w] = i /\ \A v \in Wrappers : v # w => slot'[v] = slot[v]
           /\ refs'[i] = refs[i] + 1 - u /\ floating'[i] = FALSE
           /\ \A j \in Instances : j # i => refs'[j] = refs[j] /\ floating'[j] = floating[j]
           /\ Attached(i) = 0 /\ Attached(i)' = 1
           /\ \A j \in Instances : j # i => Attached(j)' = Attached(j)
<1>1. /\ SameWrapper' /\ CacheCoherent'
      /\ cache'[i] = w /\ \A j \in Instances : j # i => cache'[j] = cache[j]
      /\ slot'[w] = i /\ \A v \in Wrappers : v # w => slot'[v] = slot[v]
      /\ \A j \in Instances : cache[j] # w
  BY BindCoherent
<1>2. /\ refs'[i] = refs[i] + 1 - u /\ floating'[i] = FALSE
      /\ \A j \in Instances : j # i => refs'[j] = refs[j] /\ floating'[j] = floating[j]
      /\ cache' = [cache EXCEPT ![i] = w]
  BY DEF BindToObject, IInv, TypeOK
<1>3. w # None
  BY NoneAssumption
<1>4. refs'[i] > 0
  BY <1>1, <1>3, AttachedExists
<1>5. Alive' = Alive
  BY <1>2, <1>4 DEF Alive
<1>6. IdentityStep
  BY <1>1, <1>2, <1>5 DEF IdentityStep, Alive
<1>7. /\ Attached(i) = 0 /\ Attached(i)' = 1
      /\ \A j \in Instances : j # i => Attached(j)' = Attached(j)
  BY <1>1, <1>3 DEF Attached
<1> QED
  BY <1>1, <1>2, <1>6, <1>7

\* to_scm makes a wrapper.
LEMMA ToScmBindIdentity ==
    ASSUME Simple, IInv, IInv', WInv, NEW t \in Threads, NEW w \in Wrappers, ToScmBind(t, w)
    PROVE  WInv' /\ IdentityStep
<1>1. PICK i \in Instances : i = pend[t].inst
  BY DEF ToScmBind, IInv, TypeOK, Pending
<1>2. PICK d \in BOOLEAN : d = pend[t].drop
  BY DEF ToScmBind, IInv, TypeOK, Pending
<1>3. PICK u \in {0, 1} : u = IF d THEN 1 ELSE 0
  OBVIOUS
<1>4. /\ pend[t] # None /\ Fresh(w) /\ BindToObject(i, w, u)
      /\ IF d THEN DropResult(i) ELSE UNCHANGED crefs
      /\ held' = held \cup {w} /\ queued' = queued /\ pend' = [pend EXCEPT ![t] = None]
      /\ UNCHANGED newvars
  BY <1>1, <1>2, <1>3 DEF ToScmBind
<1>5. ~InNew(i) /\ cache[i] = None
  BY <1>1, <1>4 DEF WInv, WrapInv
<1>6. crefs[i] > 0 \/ (d /\ floating[i])
  <2>1. i \notin Calling(t)
    <3>1. \A n \in 1..Len(calls[t]) : InNew(calls[t][n])
      BY DEF IInv, CallsInv
    <3> QED
      BY <1>5, <3>1 DEF Calling
  <2> QED
    BY <1>1, <1>2, <1>4, <2>1 DEF IInv, PendInv
<1>7. refs[i] > 0
  BY <1>6, ExistsWhileUsed
<1>8. slot[w] \notin Instances /\ ~UnderConstruction(w)
  BY <1>4, FreshUnbound
<1>9. /\ SameWrapper' /\ CacheCoherent' /\ IdentityStep
      /\ cache'[i] = w /\ \A j \in Instances : j # i => cache'[j] = cache[j]
      /\ slot'[w] = i /\ \A v \in Wrappers : v # w => slot'[v] = slot[v]
      /\ refs'[i] = refs[i] + 1 - u /\ floating'[i] = FALSE
      /\ \A j \in Instances : j # i => refs'[j] = refs[j] /\ floating'[j] = floating[j]
      /\ Attached(i) = 0 /\ Attached(i)' = 1
      /\ \A j \in Instances : j # i => Attached(j)' = Attached(j)
  BY <1>4, <1>5, <1>7, <1>8, AttachStep
<1>10. WrapInv'
  <2>1. \A v \in Threads : v = t
    BY DEF Simple
  <2>2. pend'[t] = None
    BY <1>4 DEF IInv, TypeOK
  <2> QED
    BY <2>1, <2>2 DEF WrapInv
<1>11. UNCHANGED <<kind, by, todo>>
  BY <1>4 DEF newvars
<1>12. LeakInv'
  <2> SUFFICES ASSUME NEW j \in Instances
               PROVE  /\ floating'[j] => crefs'[j] = 0 /\ kind[j] \in {"none", "floating"}
                      /\ kind[j] = "floating" /\ by[j] = None => floating'[j] /\ todo[j] = 0
                      /\ refs'[j] <= Attached(j)' + crefs'[j] + NewRef(j)'
    BY <1>11 DEF LeakInv
  <2>1. /\ floating[j] => crefs[j] = 0 /\ kind[j] \in {"none", "floating"}
        /\ kind[j] = "floating" /\ by[j] = None => floating[j] /\ todo[j] = 0
        /\ refs[j] <= Attached(j) + crefs[j] + NewRef(j)
    BY DEF WInv, LeakInv
  <2>2. CASE j # i
    <3>1. crefs'[j] = crefs[j]
      BY <1>4, <2>2 DEF DropResult, IInv, TypeOK
    <3> QED
      BY <1>9, <1>11, <2>1, <2>2, <3>1 DEF NewRef
  <2>3. CASE j = i
    <3>1. /\ crefs[i] \in Nat /\ refs[i] \in Nat /\ floating[i] \in BOOLEAN
          /\ crefs'[i] = IF d /\ ~floating[i] THEN crefs[i] - 1 ELSE crefs[i]
      BY <1>4 DEF DropResult, IInv, TypeOK
    <3>2. kind[i] = "none"
      BY <1>5 DEF InNew
    <3>3. NewRef(i) = (IF floating[i] THEN 1 ELSE 0) /\ NewRef(i)' = 0
      BY <1>9, <1>11, <3>2 DEF NewRef
    <3>4. floating[i] => d
      BY <1>6, <2>1, <2>3
    <3>5. refs'[i] <= 1 + crefs'[i]
      <4>1. CASE d /\ floating[i]
        BY <1>3, <1>9, <2>1, <2>3, <3>1, <3>3, <4>1
      <4>2. CASE d /\ ~floating[i]
        BY <1>3, <1>9, <2>1, <2>3, <3>1, <3>3, <4>2
      <4>3. CASE ~d
        BY <1>3, <1>9, <2>1, <2>3, <3>1, <3>3, <3>4, <4>3
      <4> QED
        BY <4>1, <4>2, <4>3
    <3> QED
      BY <1>9, <2>3, <3>1, <3>2, <3>3, <3>5
  <2> QED
    BY <2>2, <2>3
<1>13. WInv'
  <2>1. ASSUME NEW v \in Wrappers, UnderConstruction(v)
        PROVE  v \in held' /\ slot'[v] \in {slot[v], "destroyed"}
    BY <1>4, <1>8, <1>9, <2>1, BuiltIsHeld
  <2>2. ASSUME NEW j \in Instances, InNew(j) PROVE cache'[j] \in {cache[j], None}
    BY <1>5, <1>9, <2>2
  <2> QED
    BY <1>4, <1>9, <1>10, <1>12, <2>1, <2>2, OutsideConstruction
<1> QED
  BY <1>9, <1>13

-----------------------------------------------------------------------------
(* The beginning of g_object_new *)

\* For both callers
LEMMA NewIdentity ==
    ASSUME Simple, IInv, WInv, NEW t \in Threads, NEW i \in Instances, NEW n \in Levels,
           NEW k \in Kinds, NewInstance(t, i, n, k), UNCHANGED <<cache, slot, held, queued, pend>>,
           \A j \in Instances : j # i => by'[j] = by[j],
           k = "floating" /\ by'[i] = None => n = 0
    PROVE  /\ SameWrapper' /\ CacheCoherent' /\ WrapInv' /\ LeakInv' /\ IdentityStep
           /\ cache[i] = None /\ ~InNew(i) /\ by[i] = None
           /\ \A w \in Wrappers : slot[w] # i
           /\ todo'[i] = n /\ \A j \in Instances : j # i => todo'[j] = todo[j]
           /\ \A j \in Instances : j # i => kind'[j] = kind[j]
           /\ n \in {0, 1}
<1>1. /\ refs[i] = 0 /\ pend[t] = None /\ refs' = [refs EXCEPT ![i] = 1]
      /\ floating' = [floating EXCEPT ![i] = (k = "floating")]
      /\ crefs' = [crefs EXCEPT ![i] = IF k = "toplevel" THEN 1 ELSE 0]
      /\ todo' = [todo EXCEPT ![i] = n]
      /\ kind' = [kind EXCEPT ![i] = k]
  BY DEF NewInstance, Idle
<1>2. /\ ~InNew(i) /\ cache[i] = None /\ by[i] = None /\ \A w \in Wrappers : slot[w] # i
  BY <1>1, NothingAtFreeAddress
<1>3. /\ refs'[i] = 1 /\ crefs'[i] = (IF k = "toplevel" THEN 1 ELSE 0)
      /\ todo'[i] = n /\ kind'[i] = k /\ (floating'[i] <=> k = "floating")
      /\ \A j \in Instances : j # i => /\ refs'[j] = refs[j] /\ crefs'[j] = crefs[j]
                                       /\ todo'[j] = todo[j] /\ kind'[j] = kind[j]
                                       /\ floating'[j] = floating[j]
  BY <1>1 DEF IInv, TypeOK
<1>4. SameWrapper' /\ CacheCoherent'
  BY SameCoherent
<1>5. WrapInv'
  BY <1>1 DEF Simple, WrapInv
<1>6. k \in {"plain", "floating", "toplevel"} /\ n \in {0, 1}
  BY KindsAssumption DEF Simple
<1>7. LeakInv'
  <2> SUFFICES ASSUME NEW j \in Instances
               PROVE  /\ floating'[j] => crefs'[j] = 0 /\ kind'[j] \in {"none", "floating"}
                      /\ kind'[j] = "floating" /\ by'[j] = None => floating'[j] /\ todo'[j] = 0
                      /\ refs'[j] <= Attached(j)' + crefs'[j] + NewRef(j)'
    BY DEF LeakInv
  <2>1. CASE j = i
    <3>1. NewRef(i)' = (IF k \in {"plain", "floating"} THEN 1 ELSE 0) /\ Attached(i)' = 0
      BY <1>2, <1>3 DEF NewRef, Attached
    <3>2. refs'[i] <= Attached(i)' + crefs'[i] + NewRef(i)'
      BY <1>3, <1>6, <3>1
    <3> QED
      BY <1>3, <2>1, <3>2
  <2>2. CASE j # i
    <3>1. /\ floating[j] => crefs[j] = 0 /\ kind[j] \in {"none", "floating"}
          /\ kind[j] = "floating" /\ by[j] = None => floating[j] /\ todo[j] = 0
          /\ refs[j] <= Attached(j) + crefs[j] + NewRef(j)
      BY DEF WInv, LeakInv
    <3> QED
      BY <1>3, <2>2, <3>1 DEF NewRef, Attached
  <2> QED
    BY <2>1, <2>2
<1>8. IdentityStep
  <2>1. i \notin Alive /\ Alive' = Alive \cup {i}
    BY <1>1, <1>3 DEF Alive
  <2> QED
    BY <2>1 DEF IdentityStep
<1> QED
  BY <1>2, <1>3, <1>4, <1>5, <1>6, <1>7, <1>8

\* (make <class>)
LEMMA ConstructIdentity ==
    ASSUME Simple, IInv, WInv, NEW t \in Threads, NEW w \in Wrappers, NEW i \in Instances,
           NEW n \in Levels, NEW k \in Kinds, Construct(t, w, i, n, k)
    PROVE  WInv' /\ IdentityStep
<1>1. /\ w \in held /\ slot[w] \notin Instances /\ ~UnderConstruction(w)
      /\ NewInstance(t, i, n, k) /\ by' = [by EXCEPT ![i] = w]
      /\ fluid' = [fluid EXCEPT ![t] = <<w>> \o @]
      /\ UNCHANGED <<cache, slot, held, queued, pend>>
  BY DEF Construct, gcvars
<1>2. by'[i] = w /\ w # None /\ \A j \in Instances : j # i => by'[j] = by[j]
  BY <1>1, NoneAssumption DEF IInv, TypeOK
<1>3. /\ SameWrapper' /\ CacheCoherent' /\ WrapInv' /\ LeakInv' /\ IdentityStep
      /\ cache[i] = None /\ ~InNew(i) /\ by[i] = None
      /\ \A v \in Wrappers : slot[v] # i
      /\ todo'[i] = n /\ \A j \in Instances : j # i => todo'[j] = todo[j]
      /\ \A j \in Instances : j # i => kind'[j] = kind[j]
      /\ n \in {0, 1}
  BY <1>1, <1>2, NewIdentity
<1>4. \A j \in Instances : by[j] # w
  BY <1>1 DEF UnderConstruction
<1>5. ConstructionKeepsWrapper'
  BY <1>1, <1>2 DEF WInv, ConstructionKeepsWrapper
<1>6. BuildInv'
  <2>1. ASSUME NEW j \in Instances, by'[j] # None
        PROVE  by'[j] \in held' /\ (cache'[j] # None => cache'[j] = by'[j])
    BY <1>1, <1>2, <1>3, <2>1 DEF WInv, BuildInv
  <2>2. ASSUME NEW j \in Instances, NEW l \in Instances, by'[j] # None, by'[j] = by'[l]
        PROVE  j = l
    BY <1>2, <1>4, <2>2 DEF WInv, BuildInv
  <2>3. ASSUME NEW j \in Instances, InNew(j)', todo'[j] > 0
        PROVE  todo'[j] = 1 /\ cache'[j] = None
    BY <1>1, <1>3, <2>3 DEF WInv, BuildInv, InNew
  <2> QED
    BY <2>1, <2>2, <2>3 DEF BuildInv
<1>7. /\ calls' = [calls EXCEPT ![t] = Append(@, i)]
  BY <1>1 DEF NewInstance
<1>8. /\ Len(calls'[t]) = Len(calls[t]) + 1 /\ calls'[t][Len(calls[t]) + 1] = i
      /\ \A m \in 1..Len(calls[t]) : calls'[t][m] = calls[t][m]
  BY <1>7, CallsPush DEF IInv
<1>9. /\ Len(calls[t]) \in Nat
      /\ \A m \in 1..Len(calls[t]) : calls[t][m] # i /\ calls[t][m] \in Instances
  <2>1. calls[t] \in Seq(Instances)
    BY DEF IInv, TypeOK
  <2>2. \A m \in 1..Len(calls[t]) : InNew(calls[t][m])
    BY DEF IInv, CallsInv
  <2> QED
    BY <1>3, <2>1, <2>2, ElementOfSeq, LenProperties
<1>10. /\ Len(fluid[t]) \in Nat /\ Len(fluid'[t]) = Len(fluid[t]) + 1 /\ fluid'[t][1] = w
       /\ \A m \in 1..Len(fluid[t]) : fluid'[t][m + 1] = fluid[t][m]
  <2>1. fluid[t] \in Seq(Wrappers) /\ fluid'[t] = <<w>> \o fluid[t]
    BY <1>1 DEF IInv, TypeOK
  <2>2. <<w>> \in Seq(Wrappers) /\ Len(<<w>>) = 1 /\ <<w>>[1] = w
    OBVIOUS
  <2>3. /\ Len(<<w>> \o fluid[t]) = Len(<<w>>) + Len(fluid[t])
        /\ \A m \in 1..(Len(<<w>>) + Len(fluid[t])) :
             (<<w>> \o fluid[t])[m] = IF m <= Len(<<w>>) THEN <<w>>[m] ELSE fluid[t][m - Len(<<w>>)]
    BY <2>1, <2>2, ConcatProperties
  <2>4. Len(fluid[t]) \in Nat
    BY <2>1, LenProperties
  <2>5. /\ Len(fluid'[t]) = Len(fluid[t]) + 1
        /\ \A m \in 1..(1 + Len(fluid[t])) :
             fluid'[t][m] = IF m <= 1 THEN <<w>>[m] ELSE fluid[t][m - 1]
    BY <2>1, <2>2, <2>3, <2>4
  <2>6. fluid'[t][1] = w
    BY <2>2, <2>4, <2>5
  <2>7. ASSUME NEW m \in 1..Len(fluid[t]) PROVE fluid'[t][m + 1] = fluid[t][m]
    <3>1. m + 1 \in 1..(1 + Len(fluid[t])) /\ ~(m + 1 <= 1) /\ (m + 1) - 1 = m
      BY <2>4
    <3>2. fluid'[t][m + 1] = fluid[t][(m + 1) - 1]
      BY <2>5, <3>1
    <3> QED
      BY <3>1, <3>2
  <2> QED
    BY <2>4, <2>5, <2>6, <2>7
<1>11. NestInv'
  <2>1. PICK g \in [1..Len(fluid[t]) -> 1..Len(calls[t])] : Places(t, g)
    BY DEF WInv, NestInv
  <2>2. /\ \A j, l \in 1..Len(fluid[t]) : j < l => g[j] > g[l]
        /\ \A l \in 1..Len(fluid[t]) : by[calls[t][g[l]]] = fluid[t][l]
        /\ \A m \in 1..Len(calls[t]) :
              by[calls[t][m]] # None => \E l \in 1..Len(fluid[t]) : g[l] = m
    BY <2>1 DEF Places
  <2>a. PICK F \in Nat, C \in Nat : F = Len(fluid[t]) /\ C = Len(calls[t])
    BY <1>9, <1>10
  <2>b. PICK h \in [1..(F + 1) -> 1..(C + 1)] :
           \A l \in 1..(F + 1) : h[l] = IF l = 1 THEN C + 1 ELSE g[l - 1]
    <3> DEFINE p == [l \in 1..(F + 1) |-> IF l = 1 THEN C + 1 ELSE g[l - 1]]
    <3>1. ASSUME NEW l \in 1..(F + 1)
          PROVE  (IF l = 1 THEN C + 1 ELSE g[l - 1]) \in 1..(C + 1)
      <4>1. CASE l = 1
        BY <4>1
      <4>2. CASE l # 1
        <5>1. l - 1 \in 1..F
          BY <4>2
        <5>2. g[l - 1] \in 1..C
          BY <2>1, <2>a, <5>1
        <5> QED
          BY <4>2, <5>2
      <4> QED
        BY <4>1, <4>2
    <3>2. p \in [1..(F + 1) -> 1..(C + 1)] /\ \A l \in 1..(F + 1) : p[l] = IF l = 1 THEN C + 1 ELSE g[l - 1]
      BY <3>1
    <3> QED
      BY <3>2
  <2>3. ASSUME NEW l \in 1..(F + 1)
        PROVE  /\ l = 1 => h[l] = C + 1
               /\ l # 1 => l - 1 \in 1..F /\ h[l] = g[l - 1] /\ g[l - 1] \in 1..C
    <3>1. h[l] = IF l = 1 THEN C + 1 ELSE g[l - 1]
      BY <2>b
    <3>2. ASSUME l # 1 PROVE l - 1 \in 1..F /\ g[l - 1] \in 1..C
      <4>1. l - 1 \in 1..F
        BY <3>2
      <4> QED
        BY <2>1, <2>a, <4>1
    <3> QED
      BY <3>1, <3>2
  <2>5. ASSUME NEW j \in 1..(F + 1), NEW l \in 1..(F + 1), j < l PROVE h[j] > h[l]
    <3>1. l # 1 /\ l - 1 \in 1..F /\ h[l] = g[l - 1] /\ g[l - 1] \in 1..C
      BY <1>10, <2>a, <2>3, <2>5
    <3>2. CASE j = 1
      BY <1>9, <2>a, <2>3, <3>1, <3>2
    <3>3. CASE j # 1
      <4>1. j - 1 \in 1..F /\ h[j] = g[j - 1] /\ j - 1 < l - 1
        BY <1>10, <2>a, <2>3, <2>5, <3>3
      <4> QED
        BY <2>2, <2>a, <3>1, <4>1
    <3> QED
      BY <3>2, <3>3
  <2>6. ASSUME NEW l \in 1..(F + 1) PROVE by'[calls'[t][h[l]]] = fluid'[t][l]
    <3>1. CASE l = 1
      BY <1>2, <1>8, <1>10, <2>a, <2>3, <3>1
    <3>2. CASE l # 1
      <4>1. l - 1 \in 1..F /\ h[l] = g[l - 1] /\ g[l - 1] \in 1..C /\ (l - 1) + 1 = l
        BY <1>10, <2>a, <2>3, <3>2
      <4>2. by[calls[t][g[l - 1]]] = fluid[t][l - 1]
        BY <2>2, <2>a, <4>1
      <4>3. calls'[t][h[l]] = calls[t][g[l - 1]] /\ calls[t][g[l - 1]] # i
            /\ calls[t][g[l - 1]] \in Instances
        BY <1>8, <1>9, <2>a, <4>1
      <4>4. fluid'[t][l] = fluid[t][l - 1]
        BY <1>10, <2>a, <4>1
      <4> QED
        BY <1>2, <4>2, <4>3, <4>4
    <3> QED
      BY <3>1, <3>2
  <2>7. ASSUME NEW m \in 1..(C + 1), by'[calls'[t][m]] # None
        PROVE  \E l \in 1..(F + 1) : h[l] = m
    <3>1. CASE m = C + 1
      <4>1. 1 \in 1..(F + 1) /\ h[1] = C + 1
        BY <1>10, <2>a, <2>3
      <4> QED
        BY <3>1, <4>1
    <3>2. CASE m # C + 1
      <4>1. m \in 1..C
        BY <1>9, <2>a, <3>2
      <4>2. by[calls[t][m]] # None
        BY <1>2, <1>8, <1>9, <2>a, <2>7, <4>1
      <4>3. PICK l \in 1..F : g[l] = m
        BY <2>2, <2>a, <4>1, <4>2
      <4>4. l + 1 \in 1..(F + 1) /\ l + 1 # 1 /\ (l + 1) - 1 = l
        BY <1>10, <2>a
      <4>5. h[l + 1] = m
        BY <2>3, <4>3, <4>4
      <4> QED
        BY <4>4, <4>5
    <3> QED
      BY <3>1, <3>2
  <2>8. ASSUME NEW l \in 1..(C + 1), NEW m \in 1..(C + 1), l < m,
               todo'[calls'[t][m]] > 0, by'[calls'[t][m]] = None
        PROVE  by'[calls'[t][l]] = None
    <3>1. m # C + 1
      BY <1>2, <1>8, <2>a, <2>8
    <3>2. m \in 1..C /\ l \in 1..C
      BY <1>9, <2>a, <2>8, <3>1
    <3>3. todo[calls[t][m]] > 0 /\ by[calls[t][m]] = None
      BY <1>2, <1>3, <1>8, <1>9, <2>a, <2>8, <3>2
    <3>4. by[calls[t][l]] = None
      BY <2>a, <2>8, <3>2, <3>3 DEF WInv, NestInv
    <3> QED
      BY <1>2, <1>8, <1>9, <2>a, <3>2, <3>4
  <2>9. Len(fluid'[t]) = F + 1 /\ Len(calls'[t]) = C + 1
    BY <1>8, <1>10, <2>a
  <2>10. Places(t, h)'
    BY <2>b, <2>5, <2>6, <2>7, <2>9 DEF Places
  <2>11. \A u \in Threads : u = t
    BY DEF Simple
  <2>12. h \in [1..Len(fluid'[t]) -> 1..Len(calls'[t])]
    BY <2>b, <2>9
  <2> QED
    BY <2>8, <2>9, <2>10, <2>11, <2>12 DEF NestInv
<1> QED
  BY <1>3, <1>5, <1>6, <1>11 DEF WInv

\* g_object_new called by C code
LEMMA GObjectNewIdentity ==
    ASSUME Simple, IInv, WInv, NEW t \in Threads, NEW i \in Instances,
           NEW n \in Levels, NEW k \in Kinds, GObjectNew(t, i, n, k)
    PROVE  WInv' /\ IdentityStep
<1>1. /\ ~(n > 0 /\ fluid[t] # <<>>) /\ ~(n > 0 /\ k = "floating")
      /\ NewInstance(t, i, n, k)
      /\ UNCHANGED <<cache, slot, held, queued, fluid, by, pend>>
  BY DEF GObjectNew, gcvars, Simple
<1>2. n \in {0, 1}
  BY DEF Simple
<1>3. /\ SameWrapper' /\ CacheCoherent' /\ WrapInv' /\ LeakInv' /\ IdentityStep
      /\ cache[i] = None /\ ~InNew(i) /\ by[i] = None
      /\ todo'[i] = n /\ \A j \in Instances : j # i => todo'[j] = todo[j]
      /\ \A j \in Instances : j # i => kind'[j] = kind[j]
  BY <1>1, <1>2, NewIdentity
<1>4. ConstructionKeepsWrapper'
  BY <1>1 DEF WInv, ConstructionKeepsWrapper
<1>5. BuildInv'
  <2>1. ASSUME NEW j \in Instances, InNew(j)', todo'[j] > 0
        PROVE  todo'[j] = 1 /\ cache'[j] = None
    BY <1>1, <1>2, <1>3, <2>1 DEF WInv, BuildInv, InNew
  <2> QED
    BY <1>1, <2>1 DEF WInv, BuildInv
<1>6. calls' = [calls EXCEPT ![t] = Append(@, i)]
  BY <1>1 DEF NewInstance
<1>7. /\ Len(calls'[t]) = Len(calls[t]) + 1 /\ calls'[t][Len(calls[t]) + 1] = i
      /\ \A m \in 1..Len(calls[t]) : calls'[t][m] = calls[t][m]
  BY <1>6, CallsPush DEF IInv
<1>8. /\ Len(calls[t]) \in Nat
      /\ \A m \in 1..Len(calls[t]) : calls[t][m] # i /\ calls[t][m] \in Instances
  <2>1. calls[t] \in Seq(Instances)
    BY DEF IInv, TypeOK
  <2>2. \A m \in 1..Len(calls[t]) : InNew(calls[t][m])
    BY DEF IInv, CallsInv
  <2> QED
    BY <1>3, <2>1, <2>2, ElementOfSeq, LenProperties
<1>9. NestInv'
  <2>1. PICK g \in [1..Len(fluid[t]) -> 1..Len(calls[t])] : Places(t, g)
    BY DEF WInv, NestInv
  <2>2. PICK F \in Nat, C \in Nat : F = Len(fluid[t]) /\ C = Len(calls[t])
    <3>1. fluid[t] \in Seq(Wrappers)
      BY DEF IInv, TypeOK
    <3> QED
      BY <1>8, <3>1, LenProperties
  <2>3. /\ \A j, l \in 1..F : j < l => g[j] > g[l]
        /\ \A l \in 1..F : by[calls[t][g[l]]] = fluid[t][l]
        /\ \A m \in 1..C : by[calls[t][m]] # None => \E l \in 1..F : g[l] = m
    BY <2>1, <2>2 DEF Places
  <2>4. g \in [1..F -> 1..C] /\ g \in [1..F -> 1..(C + 1)]
    <3>1. \A l \in 1..F : g[l] \in 1..(C + 1)
      BY <2>1, <2>2
    <3> QED
      BY <2>1, <2>2, <3>1
  <2>5. ASSUME NEW l \in 1..F PROVE by'[calls'[t][g[l]]] = fluid'[t][l]
    BY <1>1, <1>7, <2>2, <2>3, <2>4
  <2>6. ASSUME NEW m \in 1..(C + 1), by'[calls'[t][m]] # None
        PROVE  \E l \in 1..F : g[l] = m
    <3>1. m # C + 1
      BY <1>1, <1>3, <1>7, <2>2, <2>6
    <3>2. m \in 1..C
      BY <3>1
    <3> QED
      BY <1>1, <1>7, <2>2, <2>3, <2>6, <3>2
  <2>7. ASSUME NEW l \in 1..(C + 1), NEW m \in 1..(C + 1), l < m,
               todo'[calls'[t][m]] > 0, by'[calls'[t][m]] = None
        PROVE  by'[calls'[t][l]] = None
    <3>1. l \in 1..C /\ by'[calls'[t][l]] = by[calls[t][l]]
      BY <1>1, <1>7, <2>2, <2>7
    <3>2. CASE m = C + 1
      <4>1. fluid[t] = <<>>
        BY <1>1, <1>3, <1>7, <2>2, <2>7, <3>2
      <4>2. F = 0
        BY <2>2, <4>1
      <4> QED
        BY <2>3, <3>1, <4>2
    <3>3. CASE m # C + 1
      <4>1. m \in 1..C
        BY <3>3
      <4>2. todo[calls[t][m]] > 0 /\ by[calls[t][m]] = None
        BY <1>1, <1>3, <1>7, <1>8, <2>2, <2>7, <4>1
      <4> QED
        BY <2>2, <2>7, <3>1, <4>1, <4>2 DEF WInv, NestInv
    <3> QED
      BY <3>2, <3>3
  <2>8. Len(fluid'[t]) = F /\ Len(calls'[t]) = C + 1
    BY <1>1, <1>7, <2>2
  <2>9. Places(t, g)'
    BY <2>3, <2>4, <2>5, <2>6, <2>8 DEF Places
  <2>10. g \in [1..Len(fluid'[t]) -> 1..Len(calls'[t])]
    BY <2>4, <2>8
  <2>11. \A u \in Threads : u = t
    BY DEF Simple
  <2> QED
    BY <2>7, <2>8, <2>9, <2>10, <2>11 DEF NestInv
<1> QED
  BY <1>3, <1>4, <1>5, <1>9 DEF WInv

-----------------------------------------------------------------------------
(* Inside g_object_new *)

\* The innermost construction is the first entry of the fluid, if Scheme began
\* it, and belongs to none otherwise.
LEMMA Innermost ==
    ASSUME IInv, WInv, NEW t \in Threads, calls[t] # <<>>, NEW g, Places(t, g)
    PROVE  /\ Len(fluid[t]) \in Nat /\ Len(calls[t]) \in Nat /\ Len(calls[t]) > 0
           /\ Current(t) \in Instances /\ InNew(Current(t))
           /\ \A k \in 1..Len(fluid[t]) : fluid[t][k] \in Wrappers
           /\ by[Current(t)] # None => Len(fluid[t]) > 0 /\ g[1] = Len(calls[t])
           /\ by[Current(t)] = None => \A k \in 1..Len(fluid[t]) : g[k] < Len(calls[t])
<1>1. calls[t] \in Seq(Instances) /\ fluid[t] \in Seq(Wrappers) /\ None \notin Wrappers
  BY NoneAssumption DEF IInv, TypeOK
<1>2. PICK F \in Nat, C \in Nat : F = Len(fluid[t]) /\ C = Len(calls[t])
  BY <1>1, LenProperties
<1>3. C > 0
  BY <1>1, <1>2, EmptySeq
<1>4. /\ g \in [1..F -> 1..C] /\ \A j, k \in 1..F : j < k => g[j] > g[k]
      /\ \A k \in 1..F : by[calls[t][g[k]]] = fluid[t][k]
      /\ \A n \in 1..C : by[calls[t][n]] # None => \E k \in 1..F : g[k] = n
  BY <1>2 DEF Places
<1>5. C \in 1..C /\ Current(t) = calls[t][C]
  BY <1>2, <1>3 DEF Current
<1>6. Current(t) \in Instances /\ InNew(Current(t))
  BY <1>1, <1>2, <1>5, ElementOfSeq DEF IInv, CallsInv
<1>7. \A k \in 1..F : fluid[t][k] \in Wrappers
  BY <1>1, <1>2, ElementOfSeq
<1>8. ASSUME by[Current(t)] # None PROVE F > 0 /\ g[1] = C
  <2>1. PICK k \in 1..F : g[k] = C
    BY <1>4, <1>5, <1>8
  <2>2. 1 \in 1..F /\ g[1] \in 1..C
    BY <1>4
  <2>3. k = 1
    <3>1. ASSUME k # 1 PROVE FALSE
      <4>1. 1 < k
        BY <3>1
      <4>2. g[1] > g[k]
        BY <1>4, <2>2, <4>1
      <4> QED
        BY <2>1, <2>2, <4>2
    <3> QED
      BY <3>1
  <2> QED
    BY <2>1, <2>2, <2>3
<1>9. ASSUME by[Current(t)] = None, NEW k \in 1..F PROVE g[k] < C
  <2>1. g[k] \in 1..C
    BY <1>4
  <2>2. by[calls[t][g[k]]] = fluid[t][k] /\ fluid[t][k] # None
    BY <1>1, <1>4, <1>7
  <2>3. g[k] # C
    BY <1>5, <1>9, <2>2
  <2> QED
    BY <2>1, <2>3
<1> QED
  BY <1>2, <1>3, <1>6, <1>7, <1>8, <1>9

\* An instance init binds the instance to the wrapper that constructs it, or to
\* a new one.
LEMMA InitBinds ==
    ASSUME Simple, IInv, IInv', WInv, NEW t \in Threads, NEW i \in Instances, NEW w \in Wrappers,
           Idle(t), InNew(i), todo[i] > 0, todo' = [todo EXCEPT ![i] = @ - 1],
           BindToObject(i, w, 0), slot[w] \notin Instances,
           by[i] \in {w, None}, \A j \in Instances : by[j] = w => j = i,
           w \in held', held \subseteq held', queued' = queued,
           UNCHANGED <<crefs, fluid, calls, by, kind, pend>>
    PROVE  WInv' /\ IdentityStep
<1>1. todo[i] = 1 /\ cache[i] = None
  BY DEF WInv, BuildInv
<1>2. refs[i] > 0
  BY ExistsWhileUsed
<1>3. /\ SameWrapper' /\ CacheCoherent' /\ IdentityStep
      /\ cache'[i] = w /\ \A j \in Instances : j # i => cache'[j] = cache[j]
      /\ slot'[w] = i /\ \A v \in Wrappers : v # w => slot'[v] = slot[v]
      /\ refs'[i] = refs[i] + 1 - 0 /\ floating'[i] = FALSE
      /\ \A j \in Instances : j # i => refs'[j] = refs[j] /\ floating'[j] = floating[j]
      /\ Attached(i) = 0 /\ Attached(i)' = 1
      /\ \A j \in Instances : j # i => Attached(j)' = Attached(j)
  BY <1>1, <1>2, AttachStep
<1>4. todo'[i] = 0 /\ \A j \in Instances : j # i => todo'[j] = todo[j]
  BY <1>1 DEF IInv, TypeOK
<1>5. \A j \in Instances : by[j] \in Wrappers \cup {None}
  BY DEF IInv, TypeOK
<1>6. ConstructionKeepsWrapper'
  BY <1>3, <1>5 DEF WInv, ConstructionKeepsWrapper
<1>7. BuildInv'
  <2>1. ASSUME NEW j \in Instances, by[j] # None
        PROVE  by[j] \in held' /\ (cache'[j] # None => cache'[j] = by[j])
    BY <1>3, <2>1 DEF WInv, BuildInv
  <2>2. ASSUME NEW j \in Instances, InNew(j), todo'[j] > 0
        PROVE  todo'[j] = 1 /\ cache'[j] = None
    BY <1>3, <1>4, <2>2 DEF WInv, BuildInv
  <2> QED
    BY <2>1, <2>2 DEF WInv, BuildInv, InNew
<1>8. WrapInv'
  BY DEF Simple, WrapInv, Idle
<1>9. \A j \in Instances : todo'[j] > 0 => todo[j] > 0
  BY <1>4
<1>10. NestInv'
  <2> SUFFICES ASSUME NEW u \in Threads
               PROVE  /\ \E g \in [1..Len(fluid[u]) -> 1..Len(calls[u])] : Places(u, g)'
                      /\ \A m, n \in 1..Len(calls[u]) :
                            m < n /\ todo'[calls[u][n]] > 0 /\ by[calls[u][n]] = None
                              => by[calls[u][m]] = None
    BY DEF NestInv
  <2>1. \A n \in 1..Len(calls[u]) : calls[u][n] \in Instances
    BY ElementOfSeq DEF IInv, TypeOK
  <2>2. \E g \in [1..Len(fluid[u]) -> 1..Len(calls[u])] : Places(u, g)
    BY DEF WInv, NestInv
  <2>3. \E g \in [1..Len(fluid[u]) -> 1..Len(calls[u])] : Places(u, g)'
    BY <2>2 DEF Places
  <2> QED
    BY <1>9, <2>1, <2>3 DEF WInv, NestInv
<1>11. LeakInv'
  <2> SUFFICES ASSUME NEW j \in Instances
               PROVE  /\ floating'[j] => crefs[j] = 0 /\ kind[j] \in {"none", "floating"}
                      /\ kind[j] = "floating" /\ by[j] = None => floating'[j] /\ todo'[j] = 0
                      /\ refs'[j] <= Attached(j)' + crefs[j] + NewRef(j)'
    BY DEF LeakInv
  <2>1. /\ floating[j] => crefs[j] = 0 /\ kind[j] \in {"none", "floating"}
        /\ kind[j] = "floating" /\ by[j] = None => floating[j] /\ todo[j] = 0
        /\ refs[j] <= Attached(j) + crefs[j] + NewRef(j)
        /\ refs[j] \in Nat /\ crefs[j] \in Nat
    BY DEF WInv, LeakInv, IInv, TypeOK
  <2>2. CASE j # i
    BY <1>3, <1>4, <2>1, <2>2 DEF NewRef
  <2>3. CASE j = i
    <3>1. NewRef(i)' = NewRef(i) /\ NewRef(i) \in {0, 1}
      BY <1>3, <2>1, <2>3 DEF NewRef, InNew
    <3>2. refs'[i] <= Attached(i)' + crefs[i] + NewRef(i)'
      BY <1>3, <2>1, <2>3, <3>1
    <3> QED
      BY <1>1, <1>3, <2>1, <2>3, <3>2
  <2> QED
    BY <2>2, <2>3
<1> QED
  BY <1>3, <1>6, <1>7, <1>8, <1>10, <1>11 DEF WInv

\* instance_init
LEMMA InstanceInitIdentity ==
    ASSUME Simple, IInv, IInv', WInv, NEW t \in Threads, InstanceInit(t)
    PROVE  WInv' /\ IdentityStep
<1>1. calls[t] # <<>> /\ Idle(t)
  BY DEF InstanceInit
<1>2. PICK g \in [1..Len(fluid[t]) -> 1..Len(calls[t])] : Places(t, g)
  BY DEF WInv, NestInv
<1>3. PICK i \in Instances : i = Current(t)
  BY <1>1, <1>2, Innermost
<1>4. PICK F \in Nat, C \in Nat : F = Len(fluid[t]) /\ C = Len(calls[t]) /\ C > 0
  BY <1>1, <1>2, Innermost
<1>5. /\ InNew(i) /\ i = calls[t][C]
      /\ \A k \in 1..F : fluid[t][k] \in Wrappers
      /\ by[i] # None => F > 0 /\ g[1] = C
      /\ by[i] = None => \A k \in 1..F : g[k] < C
  BY <1>1, <1>2, <1>3, <1>4, Innermost DEF Current
<1>6. /\ \A k \in 1..F : by[calls[t][g[k]]] = fluid[t][k] /\ g[k] \in 1..C
  BY <1>2, <1>4 DEF Places
<1>7. /\ todo[i] > 0 /\ todo' = [todo EXCEPT ![i] = @ - 1]
      /\ UNCHANGED <<crefs, fluid, calls, by, kind, pend>>
      /\ \/ /\ InConstructionFromScheme(t) # None
            /\ BindToObject(i, InConstructionFromScheme(t), 0)
            /\ UNCHANGED gcvars
         \/ InConstructionFromScheme(t) = None /\ cache[i] # None
         \/ /\ InConstructionFromScheme(t) = None
            /\ \E w \in Wrappers : /\ Fresh(w) /\ BindToObject(i, w, 0)
                                   /\ held' = held \cup {w}
            /\ UNCHANGED queued
  BY <1>3 DEF InstanceInit
<1>8. todo[i] = 1 /\ cache[i] = None
  BY <1>5, <1>7 DEF WInv, BuildInv
<1>9. None \notin Wrappers /\ fluid[t] \in Seq(Wrappers)
  BY NoneAssumption DEF IInv, TypeOK
<1>10. CASE F > 0
  <2>1. InConstructionFromScheme(t) = fluid[t][1] /\ fluid[t][1] \in Wrappers
    <3>1. fluid[t] # <<>> /\ 1 \in 1..F
      BY <1>4, <1>9, <1>10, EmptySeq
    <3>2. Head(fluid[t]) = fluid[t][1]
      BY <1>9, <3>1
    <3> QED
      BY <1>5, <3>1, <3>2 DEF InConstructionFromScheme
  <2>2. by[i] # None
    <3>1. ASSUME by[i] = None PROVE FALSE
      <4>1. 1 \in 1..F /\ C \in 1..C
        BY <1>4, <1>10
      <4>2. g[1] \in 1..C /\ g[1] < C /\ by[calls[t][g[1]]] = fluid[t][1]
        BY <1>5, <1>6, <3>1, <4>1
      <4>3. by[calls[t][g[1]]] = None
        BY <1>4, <1>5, <1>7, <3>1, <4>1, <4>2 DEF WInv, NestInv
      <4> QED
        BY <1>9, <2>1, <4>2, <4>3
    <3> QED
      BY <3>1
  <2>3. PICK w \in Wrappers : w = InConstructionFromScheme(t) /\ by[i] = w
    <3>1. 1 \in 1..F
      BY <1>10
    <3>2. by[i] = fluid[t][1]
      BY <1>5, <1>6, <2>2, <3>1
    <3> QED
      BY <2>1, <3>2
  <2>4. BindToObject(i, w, 0) /\ held' = held /\ queued' = queued
    BY <1>7, <1>9, <2>3 DEF gcvars
  <2>5. slot[w] \notin Instances
    <3>1. ASSUME slot[w] \in Instances PROVE FALSE
      <4>1. slot[w] = i
        BY <1>9, <2>3, <3>1 DEF WInv, ConstructionKeepsWrapper
      <4>2. cache[i] = w
        BY <3>1, <4>1 DEF WInv, SameWrapper
      <4> QED
        BY <1>8, <1>9, <4>2
    <3> QED
      BY <3>1
  <2>6. w \in held /\ \A j \in Instances : by[j] = w => j = i
    BY <1>9, <2>3 DEF WInv, BuildInv
  <2> QED
    BY <1>1, <1>5, <1>7, <2>3, <2>4, <2>5, <2>6, InitBinds
<1>11. CASE F = 0
  <2>1. InConstructionFromScheme(t) = None
    BY <1>4, <1>9, <1>11, EmptySeq DEF InConstructionFromScheme
  <2>2. by[i] = None
    BY <1>5, <1>11
  <2>3. PICK w \in Wrappers : Fresh(w) /\ BindToObject(i, w, 0) /\ held' = held \cup {w}
    BY <1>7, <1>8, <2>1
  <2>4. queued' = queued
    BY <1>7, <1>8, <2>1
  <2>5. slot[w] \notin Instances /\ ~UnderConstruction(w)
    BY <2>3, FreshUnbound
  <2>6. \A j \in Instances : by[j] # w
    BY <2>5 DEF UnderConstruction
  <2>7. w \in held' /\ held \subseteq held'
    BY <2>3
  <2> QED
    BY <1>1, <1>5, <1>7, <2>2, <2>3, <2>4, <2>5, <2>6, <2>7, InitBinds
<1> QED
  BY <1>4, <1>10, <1>11

-----------------------------------------------------------------------------
(* The end of g_object_new *)

\* One call less.
LEMMA PopNest ==
    ASSUME Simple, IInv, WInv, NEW t \in Threads, calls[t] # <<>>,
           NEW i \in Instances, i = Current(t),
           calls' = [calls EXCEPT ![t] = SubSeq(@, 1, Len(@) - 1)],
           \A j \in Instances : j # i => by'[j] = by[j] /\ todo'[j] = todo[j],
           \/ by[i] # None /\ fluid' = [fluid EXCEPT ![t] = Tail(@)]
           \/ by[i] = None /\ fluid' = fluid
    PROVE  NestInv'
<1>1. PICK g \in [1..Len(fluid[t]) -> 1..Len(calls[t])] : Places(t, g)
  BY DEF WInv, NestInv
<1>2. PICK F \in Nat, C \in Nat : F = Len(fluid[t]) /\ C = Len(calls[t]) /\ C > 0
  BY <1>1, Innermost
<1>3. /\ \A k \in 1..F : fluid[t][k] \in Wrappers
      /\ by[i] # None => F > 0 /\ g[1] = C
      /\ by[i] = None => \A k \in 1..F : g[k] < C
  BY <1>1, <1>2, Innermost
<1>4. /\ g \in [1..F -> 1..C] /\ \A j, k \in 1..F : j < k => g[j] > g[k]
      /\ \A k \in 1..F : by[calls[t][g[k]]] = fluid[t][k]
      /\ \A n \in 1..C : by[calls[t][n]] # None => \E k \in 1..F : g[k] = n
  BY <1>1, <1>2 DEF Places
<1>5. /\ Len(calls'[t]) = C - 1
      /\ \A n \in 1..(C - 1) : /\ calls'[t][n] = calls[t][n] /\ calls[t][n] # i
                               /\ calls[t][n] \in Instances
  <2>1. /\ Len(calls'[t]) = C - 1
        /\ \A n \in 1..(C - 1) : calls'[t][n] = calls[t][n] /\ calls'[t][n] # i
    <3>1. /\ Len(calls'[t]) = Len(calls[t]) - 1
          /\ \A n \in 1..Len(calls'[t]) : calls'[t][n] = calls[t][n]
          /\ \A n \in 1..Len(calls'[t]) : calls'[t][n] # i
      BY CallsPop DEF IInv
    <3> QED
      BY <1>2, <3>1
  <2>2. calls[t] \in Seq(Instances)
    BY DEF IInv, TypeOK
  <2>3. \A n \in 1..C : calls[t][n] \in Instances
    BY <1>2, <2>2, ElementOfSeq
  <2> QED
    BY <1>2, <2>1, <2>3
<1>6. ASSUME NEW m \in 1..(C - 1), NEW n \in 1..(C - 1), m < n,
             todo'[calls'[t][n]] > 0, by'[calls'[t][n]] = None
      PROVE  by'[calls'[t][m]] = None
  <2>1. m \in 1..C /\ n \in 1..C
    BY <1>2
  <2>2. todo[calls[t][n]] > 0 /\ by[calls[t][n]] = None
    BY <1>5, <1>6
  <2>3. by[calls[t][m]] = None
    BY <1>2, <1>6, <2>1, <2>2 DEF WInv, NestInv
  <2> QED
    BY <1>5, <2>3
<1>7. ASSUME NEW G \in Nat, G = Len(fluid'[t]), NEW h \in [1..G -> 1..(C - 1)],
             \A j, k \in 1..G : j < k => h[j] > h[k],
             \A k \in 1..G : by[calls[t][h[k]]] = fluid'[t][k],
             \A n \in 1..(C - 1) : by[calls[t][n]] # None => \E k \in 1..G : h[k] = n
      PROVE  NestInv'
  <2>1. ASSUME NEW k \in 1..G PROVE by'[calls'[t][h[k]]] = fluid'[t][k]
    <3>1. h[k] \in 1..(C - 1)
      OBVIOUS
    <3>2. PICK j \in Instances : j = calls[t][h[k]] /\ j = calls'[t][h[k]] /\ j # i
      BY <1>5, <3>1
    <3>3. by[calls[t][h[k]]] = fluid'[t][k]
      BY <1>7
    <3>4. by'[j] = by[j]
      BY <3>2
    <3> QED
      BY <3>2, <3>3, <3>4
  <2>2. ASSUME NEW n \in 1..(C - 1), by'[calls'[t][n]] # None PROVE \E k \in 1..G : h[k] = n
    <3>1. by[calls[t][n]] # None
      BY <1>5, <2>2
    <3> QED
      BY <1>7, <3>1
  <2>3. Places(t, h)'
    BY <1>5, <1>7, <2>1, <2>2 DEF Places
  <2>4. h \in [1..Len(fluid'[t]) -> 1..Len(calls'[t])]
    BY <1>5, <1>7
  <2>5. \A u \in Threads : u = t
    BY DEF Simple
  <2> QED
    <3>1. ASSUME NEW v \in Threads, NEW m \in 1..Len(calls'[v]), NEW n \in 1..Len(calls'[v]),
                 m < n, todo'[calls'[v][n]] > 0, by'[calls'[v][n]] = None
          PROVE  by'[calls'[v][m]] = None
      <4>1. v = t
        BY <2>5
      <4>2. m \in 1..(C - 1) /\ n \in 1..(C - 1)
        BY <1>5, <4>1
      <4> QED
        BY <1>6, <3>1, <4>1, <4>2
    <3>2. ASSUME NEW v \in Threads
          PROVE  \E f \in [1..Len(fluid'[v]) -> 1..Len(calls'[v])] : Places(v, f)'
      <4>1. v = t
        BY <2>5
      <4> QED
        BY <2>3, <2>4, <4>1
    <3> QED
      BY <3>1, <3>2 DEF NestInv
<1>8. fluid[t] \in Seq(Wrappers)
  BY DEF IInv, TypeOK
<1>9. CASE by[i] # None /\ fluid' = [fluid EXCEPT ![t] = Tail(@)]
  <2>1. fluid'[t] = Tail(fluid[t]) /\ fluid[t] # <<>>
    BY <1>2, <1>3, <1>9, EmptySeq DEF IInv, TypeOK
  <2>2. PICK G \in Nat : G = F - 1
    BY <1>3, <1>9
  <2>3. /\ Len(fluid'[t]) = G
        /\ \A k \in 1..G : fluid'[t][k] = fluid[t][k + 1]
    BY <1>2, <1>8, <2>1, <2>2
  <2>4. ASSUME NEW k \in 1..G PROVE k + 1 \in 1..F /\ g[k + 1] \in 1..(C - 1)
    <3>1. k + 1 \in 1..F /\ 1 \in 1..F /\ 1 < k + 1
      BY <2>2
    <3>2. g[1] > g[k + 1] /\ g[k + 1] \in 1..C /\ g[1] = C
      BY <1>3, <1>4, <1>9, <3>1
    <3> QED
      BY <3>1, <3>2
  <2>5. PICK h \in [1..G -> 1..(C - 1)] : \A k \in 1..G : h[k] = g[k + 1]
    <3> DEFINE p == [k \in 1..G |-> g[k + 1]]
    <3>1. p \in [1..G -> 1..(C - 1)] /\ \A k \in 1..G : p[k] = g[k + 1]
      BY <2>4
    <3> QED
      BY <3>1
  <2>6. ASSUME NEW j \in 1..G, NEW k \in 1..G, j < k PROVE h[j] > h[k]
    <3>0. j + 1 < k + 1
      BY <2>6
    <3>1. j + 1 < k + 1 /\ j + 1 \in 1..F /\ k + 1 \in 1..F
      BY <2>4, <3>0
    <3>2. g[j + 1] > g[k + 1]
      BY <1>4, <3>1
    <3> QED
      BY <2>5, <3>2
  <2>7. ASSUME NEW k \in 1..G PROVE by[calls[t][h[k]]] = fluid'[t][k]
    <3>1. h[k] = g[k + 1] /\ k + 1 \in 1..F /\ fluid'[t][k] = fluid[t][k + 1]
      BY <2>3, <2>4, <2>5
    <3> QED
      BY <1>4, <3>1
  <2>8. ASSUME NEW n \in 1..(C - 1), by[calls[t][n]] # None PROVE \E k \in 1..G : h[k] = n
    <3>1. n \in 1..C /\ n # C
      BY <1>2
    <3>2. PICK k \in 1..F : g[k] = n
      BY <1>4, <2>8, <3>1
    <3>3. k # 1
      BY <1>3, <1>9, <3>1, <3>2
    <3>4. k - 1 \in 1..G /\ (k - 1) + 1 = k
      BY <2>2, <3>3
    <3>5. h[k - 1] = n
      BY <2>5, <3>2, <3>4
    <3> QED
      BY <3>4, <3>5
  <2> QED
    BY <1>7, <2>3, <2>5, <2>6, <2>7, <2>8
<1>10. CASE by[i] = None /\ fluid' = fluid
  <2>1. \A k \in 1..F : g[k] \in 1..(C - 1)
    <3> SUFFICES ASSUME NEW k \in 1..F PROVE g[k] \in 1..(C - 1)
      OBVIOUS
    <3>1. g[k] \in 1..C /\ g[k] < C
      BY <1>3, <1>4, <1>10
    <3> QED
      BY <3>1
  <2>2. g \in [1..F -> 1..(C - 1)]
    BY <1>4, <2>1
  <2>3. \A n \in 1..(C - 1) : n \in 1..C
    BY <1>2
  <2>4. Len(fluid'[t]) = F /\ fluid'[t] = fluid[t]
    BY <1>2, <1>10
  <2> QED
    <3>1. \A k \in 1..F : by[calls[t][g[k]]] = fluid'[t][k]
      BY <1>4, <2>4
    <3>2. \A n \in 1..(C - 1) : by[calls[t][n]] # None => \E k \in 1..F : g[k] = n
      BY <1>4, <2>3
    <3>3. \A j, k \in 1..F : j < k => g[j] > g[k]
      BY <1>4
    <3> QED
      BY <1>7, <2>2, <2>4, <3>1, <3>2, <3>3
<1> QED
  BY <1>9, <1>10

\* (make <class>) returns.
LEMMA FinishConstructIdentity ==
    ASSUME Simple, IInv, IInv', WInv, NEW t \in Threads, FinishConstruct(t)
    PROVE  WInv' /\ IdentityStep
<1>1. PICK i \in Instances : i = Current(t) /\ InNew(i)
  BY CallsPop DEF FinishConstruct, IInv
<1>2. /\ Idle(t) /\ calls[t] # <<>> /\ todo[i] = 0 /\ by[i] # None
      /\ by' = [by EXCEPT ![i] = None]
      /\ kind' = [kind EXCEPT ![i] = "none"]
      /\ fluid' = [fluid EXCEPT ![t] = Tail(@)]
      /\ calls' = [calls EXCEPT ![t] = SubSeq(@, 1, Len(@) - 1)]
      /\ UNCHANGED <<crefs, held, queued, todo, pend>>
      /\ \/ slot[by[i]] # i /\ BindToObject(i, by[i], AfterPostMake(i))
         \/ /\ slot[by[i]] = i
            /\ refs' = [refs EXCEPT ![i] = @ - AfterPostMake(i)]
            /\ UNCHANGED <<floating, cache, slot>>
  BY <1>1 DEF FinishConstruct, PopInConstruction, BoundInInit, gcvars
<1>3. PICK w \in Wrappers : w = by[i]
  BY <1>2 DEF IInv, TypeOK
<1>4. w # None /\ w \in held /\ \A j \in Instances : by[j] = w => j = i
  BY <1>2, <1>3, NoneAssumption DEF WInv, BuildInv
<1>5. PICK u \in {0, 1} : u = AfterPostMake(i)
  BY DEF AfterPostMake
<1>6. /\ floating[i] => crefs[i] = 0 /\ kind[i] \in {"none", "floating"}
      /\ refs[i] <= Attached(i) + crefs[i] + NewRef(i)
      /\ refs[i] \in Nat /\ crefs[i] \in Nat /\ kind[i] \in {"plain", "floating", "toplevel"}
  BY <1>1 DEF WInv, LeakInv, IInv, TypeOK, InNew
<1>7. NewRef(i) = u
  BY <1>5, <1>6 DEF NewRef, AfterPostMake
<1>8. /\ by'[i] = None /\ \A j \in Instances : j # i => by'[j] = by[j]
      /\ kind'[i] = "none" /\ \A j \in Instances : j # i => kind'[j] = kind[j]
  BY <1>2 DEF IInv, TypeOK
<1>9. /\ SameWrapper' /\ CacheCoherent' /\ IdentityStep
      /\ refs'[i] <= Attached(i)' + crefs[i] /\ floating'[i] = FALSE
      /\ \A j \in Instances : j # i => /\ refs'[j] = refs[j] /\ floating'[j] = floating[j]
                                       /\ cache'[j] = cache[j] /\ Attached(j)' = Attached(j)
      /\ \A v \in Wrappers : v # w => slot'[v] = slot[v]
  <2>1. CASE slot[w] # i /\ BindToObject(i, w, u)
    <3>1. slot[w] \notin Instances
      BY <1>2, <1>3, <2>1 DEF WInv, ConstructionKeepsWrapper
    <3>2. cache[i] = None
      <4>1. cache[i] # None => cache[i] = w /\ slot[w] = i
        BY <1>2, <1>3 DEF WInv, BuildInv, CacheCoherent
      <4> QED
        BY <2>1, <4>1
    <3>3. refs[i] > 0
      BY <1>1, ExistsWhileUsed
    <3>4. /\ SameWrapper' /\ CacheCoherent' /\ IdentityStep
          /\ cache'[i] = w /\ \A j \in Instances : j # i => cache'[j] = cache[j]
          /\ slot'[w] = i /\ \A v \in Wrappers : v # w => slot'[v] = slot[v]
          /\ refs'[i] = refs[i] + 1 - u /\ floating'[i] = FALSE
          /\ \A j \in Instances : j # i => refs'[j] = refs[j] /\ floating'[j] = floating[j]
          /\ Attached(i) = 0 /\ Attached(i)' = 1
          /\ \A j \in Instances : j # i => Attached(j)' = Attached(j)
      <4>1. w \in held' /\ held \subseteq held' /\ queued' = queued
        BY <1>2, <1>4
      <4> QED
        BY <2>1, <3>1, <3>2, <3>3, <4>1, AttachStep, Zenon
    <3>5. refs'[i] <= Attached(i)' + crefs[i]
      BY <1>6, <1>7, <3>4
    <3> QED
      BY <3>4, <3>5
  <2>2. CASE slot[w] = i /\ refs' = [refs EXCEPT ![i] = @ - u] /\ UNCHANGED <<floating, cache, slot>>
    <3>1. cache[i] = w
      BY <2>2 DEF WInv, SameWrapper
    <3>2. SameWrapper' /\ CacheCoherent'
      BY <1>2, <2>2, SameCoherent
    <3>3. refs'[i] = refs[i] - u /\ \A j \in Instances : j # i => refs'[j] = refs[j]
      BY <1>6, <2>2 DEF IInv, TypeOK
    <3>4. refs'[i] > 0
      BY <1>4, <2>2, <3>1, <3>2, AttachedExists
    <3>5. Alive' = Alive
      <4>1. refs[i] > 0
        BY <1>1, ExistsWhileUsed
      <4>2. \A j \in Instances : refs'[j] > 0 <=> refs[j] > 0
        BY <3>3, <3>4, <4>1
      <4> QED
        BY <4>2 DEF Alive
    <3>6. IdentityStep
      BY <2>2, <3>5 DEF IdentityStep
    <3>7. \A j \in Instances : Attached(j)' = Attached(j)
      BY <2>2 DEF Attached
    <3>8. floating[i] = FALSE
      BY <2>2 DEF IInv, NewInv, TypeOK
    <3>9. refs'[i] <= Attached(i) + crefs[i]
      <4>1. Attached(i) = 1
        BY <1>4, <3>1 DEF Attached
      <4> QED
        BY <1>6, <1>7, <3>3, <4>1
    <3> QED
      BY <2>2, <3>2, <3>3, <3>6, <3>7, <3>8, <3>9
  <2> QED
    BY <1>2, <1>3, <1>5, <2>1, <2>2
<1>10. ConstructionKeepsWrapper'
  <2> SUFFICES ASSUME NEW j \in Instances, by'[j] # None, slot'[by'[j]] \in Instances
               PROVE  slot'[by'[j]] = j
    BY DEF ConstructionKeepsWrapper
  <2>1. j # i /\ by'[j] = by[j] /\ by[j] # w /\ by[j] \in Wrappers
    BY <1>4, <1>8 DEF IInv, TypeOK
  <2> QED
    BY <1>9, <2>1 DEF WInv, ConstructionKeepsWrapper
<1>11. BuildInv'
  <2>1. ASSUME NEW j \in Instances, by'[j] # None
        PROVE  j # i /\ by'[j] = by[j] /\ by[j] \in held' /\ (cache'[j] # None => cache'[j] = by[j])
    BY <1>2, <1>8, <1>9, <2>1 DEF WInv, BuildInv
  <2>2. ASSUME NEW j \in Instances, InNew(j)', todo[j] > 0
        PROVE  todo[j] = 1 /\ cache'[j] = None
    BY <1>8, <1>9, <2>2 DEF WInv, BuildInv, InNew
  <2>3. ASSUME NEW j \in Instances, NEW l \in Instances, by'[j] # None, by'[j] = by'[l]
        PROVE  j = l
    BY <2>1, <2>3 DEF WInv, BuildInv
  <2> QED
    BY <1>2, <2>1, <2>2, <2>3 DEF BuildInv
<1>12. WrapInv'
  BY <1>2 DEF Simple, WrapInv, Idle
<1>13. NestInv'
  <2>1. \A j \in Instances : j # i => by'[j] = by[j] /\ todo'[j] = todo[j]
    BY <1>2, <1>8
  <2> QED
    BY <1>1, <1>2, <2>1, PopNest
<1>14. LeakInv'
  <2> SUFFICES ASSUME NEW j \in Instances
               PROVE  /\ floating'[j] => crefs[j] = 0 /\ kind'[j] \in {"none", "floating"}
                      /\ kind'[j] = "floating" /\ by'[j] = None => floating'[j] /\ todo[j] = 0
                      /\ refs'[j] <= Attached(j)' + crefs[j] + NewRef(j)'
    BY <1>2 DEF LeakInv
  <2>1. CASE j = i
    <3>1. NewRef(i)' = 0
      BY <1>8, <1>9 DEF NewRef
    <3>2. Attached(i)' \in {0, 1}
      BY DEF Attached
    <3> QED
      BY <1>6, <1>8, <1>9, <2>1, <3>1, <3>2
  <2>2. CASE j # i
    <3>1. NewRef(j)' = NewRef(j)
      BY <1>8, <1>9, <2>2 DEF NewRef
    <3> QED
      BY <1>8, <1>9, <2>2, <3>1 DEF WInv, LeakInv
  <2> QED
    BY <2>1, <2>2
<1> QED
  BY <1>9, <1>10, <1>11, <1>12, <1>13, <1>14 DEF WInv

\* g_object_new returns to C code.
LEMMA FinishGObjectNewIdentity ==
    ASSUME Simple, IInv, WInv, NEW t \in Threads, FinishGObjectNew(t)
    PROVE  WInv' /\ IdentityStep
<1>1. PICK i \in Instances : i = Current(t) /\ InNew(i)
  BY CallsPop DEF FinishGObjectNew, IInv
<1>2. /\ Idle(t) /\ calls[t] # <<>> /\ by[i] = None
      /\ calls' = [calls EXCEPT ![t] = SubSeq(@, 1, Len(@) - 1)]
      /\ kind' = [kind EXCEPT ![i] = "none"]
      /\ crefs' = [crefs EXCEPT ![i] = IF kind[i] = "plain" THEN @ + 1 ELSE @]
      /\ UNCHANGED <<refs, floating, cache, slot, held, queued, fluid, by, todo, pend>>
  BY <1>1 DEF FinishGObjectNew, gcvars
<1>3. /\ kind'[i] = "none" /\ \A j \in Instances : j # i => kind'[j] = kind[j]
      /\ crefs'[i] = IF kind[i] = "plain" THEN crefs[i] + 1 ELSE crefs[i]
      /\ \A j \in Instances : j # i => crefs'[j] = crefs[j]
  BY <1>2 DEF IInv, TypeOK
<1>4. SameWrapper' /\ CacheCoherent'
  BY <1>2, SameCoherent
<1>5. ConstructionKeepsWrapper'
  BY <1>2 DEF WInv, ConstructionKeepsWrapper
<1>6. \A j \in Instances : InNew(j)' => InNew(j)
  BY <1>1, <1>3 DEF InNew
<1>7. BuildInv'
  BY <1>2, <1>6 DEF WInv, BuildInv
<1>8. WrapInv'
  BY <1>2 DEF Simple, WrapInv, Idle
<1>9. NestInv'
  BY <1>1, <1>2, PopNest
<1>10. LeakInv'
  <2> SUFFICES ASSUME NEW j \in Instances
               PROVE  /\ floating[j] => crefs'[j] = 0 /\ kind'[j] \in {"none", "floating"}
                      /\ kind'[j] = "floating" /\ by[j] = None => floating[j] /\ todo[j] = 0
                      /\ refs[j] <= Attached(j)' + crefs'[j] + NewRef(j)'
    BY <1>2 DEF LeakInv
  <2>1. /\ floating[j] => crefs[j] = 0 /\ kind[j] \in {"none", "floating"}
        /\ kind[j] = "floating" /\ by[j] = None => floating[j] /\ todo[j] = 0
        /\ refs[j] <= Attached(j) + crefs[j] + NewRef(j)
        /\ refs[j] \in Nat /\ crefs[j] \in Nat /\ Attached(j) \in {0, 1}
    BY DEF WInv, LeakInv, IInv, TypeOK, Attached
  <2>2. Attached(j)' = Attached(j)
    BY <1>2 DEF Attached
  <2>3. CASE j = i
    <3>1. kind[i] \in {"plain", "floating", "toplevel"} /\ (kind[i] = "floating" => floating[i])
      BY <1>1, <1>2, <2>1, <2>3 DEF InNew, IInv, TypeOK
    <3>2. NewRef(i)' = IF floating[i] THEN 1 ELSE 0
      BY <1>2, <1>3 DEF NewRef
    <3>3. NewRef(i) = IF kind[i] \in {"plain", "floating"} THEN 1 ELSE 0
      BY <2>1, <2>3, <3>1 DEF NewRef
    <3>4. refs[i] <= Attached(i)' + crefs'[i] + NewRef(i)'
      BY <1>3, <2>1, <2>2, <2>3, <3>1, <3>2, <3>3
    <3> QED
      BY <1>3, <2>1, <2>3, <3>1, <3>4
  <2>4. CASE j # i
    <3>1. NewRef(j)' = NewRef(j)
      BY <1>2, <1>3, <2>4 DEF NewRef
    <3> QED
      BY <1>3, <2>1, <2>2, <2>4, <3>1
  <2> QED
    BY <2>3, <2>4
<1>11. IdentityStep
  BY <1>2 DEF IdentityStep, Alive
<1> QED
  BY <1>4, <1>5, <1>7, <1>8, <1>9, <1>10, <1>11 DEF WInv

-----------------------------------------------------------------------------
(* The invariant *)

\* At the start there is nothing.
LEMMA InitIdentity == Init => WInv
<1> SUFFICES ASSUME Init PROVE WInv
  OBVIOUS
<1>1. SameWrapper /\ CacheCoherent /\ ConstructionKeepsWrapper
  BY SlotAssumption DEF Init, SameWrapper, CacheCoherent, ConstructionKeepsWrapper
<1>2. BuildInv /\ WrapInv
  BY DEF Init, BuildInv, WrapInv, InNew
<1>3. NestInv
  <2> SUFFICES ASSUME NEW t \in Threads
               PROVE  /\ \E g \in [1..Len(fluid[t]) -> 1..Len(calls[t])] : Places(t, g)
                      /\ \A m, n \in 1..Len(calls[t]) :
                            m < n /\ todo[calls[t][n]] > 0 /\ by[calls[t][n]] = None
                              => by[calls[t][m]] = None
    BY DEF NestInv
  <2>1. Len(fluid[t]) = 0 /\ Len(calls[t]) = 0
    BY DEF Init
  <2>2. PICK g \in [1..0 -> 1..0] : TRUE
    <3>1. [k \in 1..0 |-> k] \in [1..0 -> 1..0]
      OBVIOUS
    <3> QED
      BY <3>1
  <2>3. Places(t, g)
    BY <2>1, <2>2 DEF Places
  <2>4. \E f \in [1..Len(fluid[t]) -> 1..Len(calls[t])] : Places(t, f)
    BY <2>1, <2>2, <2>3
  <2>5. \A m \in 1..Len(calls[t]) : FALSE
    BY <2>1
  <2> QED
    BY <2>4, <2>5
<1>4. LeakInv
  BY DEF Init, LeakInv, Attached, NewRef
<1> QED
  BY <1>1, <1>2, <1>3, <1>4 DEF WInv

\* A step of the bindings, of C code or of the collector keeps WInv and is one
\* that WrapperIdentity allows.
LEMMA NextIdentity ==
    ASSUME Simple, IInv, WInv, [Next]_vars
    PROVE  WInv' /\ IdentityStep
<1>0. IInv'
  BY NextSafe
<1>1. ASSUME NEW w \in Wrappers, AllocateInstance(w) PROVE WInv' /\ IdentityStep
  BY <1>1, AllocateIdentity
<1>2. ASSUME NEW w \in Wrappers, Collect(w) PROVE WInv' /\ IdentityStep
  BY <1>2, CollectIdentity
<1>3. ASSUME NEW w \in Wrappers, Finalize(w) PROVE WInv' /\ IdentityStep
  BY <1>0, <1>3, FinalizeIdentity
<1>4. ASSUME NEW i \in Instances, CRef(i) PROVE WInv' /\ IdentityStep
  BY <1>4, CRefIdentity
<1>5. ASSUME NEW i \in Instances, CUnref(i) PROVE WInv' /\ IdentityStep
  BY <1>5, CUnrefIdentity
<1>6. ASSUME NEW t \in Threads, InstanceInit(t) PROVE WInv' /\ IdentityStep
  BY <1>0, <1>6, InstanceInitIdentity
<1>7. ASSUME NEW t \in Threads, FinishConstruct(t) PROVE WInv' /\ IdentityStep
  BY <1>0, <1>7, FinishConstructIdentity
<1>8. ASSUME NEW t \in Threads, FinishGObjectNew(t) PROVE WInv' /\ IdentityStep
  BY <1>8, FinishGObjectNewIdentity
<1>9. ASSUME NEW t \in Threads, NEW w \in Wrappers, ToScmBind(t, w)
      PROVE  WInv' /\ IdentityStep
  BY <1>0, <1>9, ToScmBindIdentity
<1>10. ASSUME NEW t \in Threads, NEW w \in Wrappers, DestroyX(t, w)
       PROVE  WInv' /\ IdentityStep
  BY <1>0, <1>10, DestroyIdentity
<1>11. ASSUME NEW t \in Threads, NEW i \in Instances, NEW n \in Levels,
              NEW k \in Kinds, GObjectNew(t, i, n, k)
       PROVE  WInv' /\ IdentityStep
  BY <1>11, GObjectNewIdentity
<1>12. ASSUME NEW t \in Threads, NEW w \in Wrappers, NEW i \in Instances,
              NEW n \in Levels, NEW k \in Kinds, Construct(t, w, i, n, k)
       PROVE  WInv' /\ IdentityStep
  BY <1>12, ConstructIdentity
<1>13. ASSUME NEW t \in Threads, NEW i \in Instances, NEW drop \in BOOLEAN,
              ToScmCached(t, i, drop)
       PROVE  WInv' /\ IdentityStep
  BY <1>13, ToScmCachedIdentity
<1>14. ASSUME NEW t \in Threads, NEW i \in Instances, NEW drop \in BOOLEAN,
              ToScmMiss(t, i, drop)
       PROVE  WInv' /\ IdentityStep
  BY <1>14, ToScmMissIdentity
<1>15. CASE UNCHANGED vars
  <2>1. SameWrapper' /\ CacheCoherent' /\ ConstructionKeepsWrapper'
    BY <1>15 DEF vars, WInv, SameWrapper, CacheCoherent, ConstructionKeepsWrapper, Fresh
  <2>2. BuildInv' /\ WrapInv' /\ LeakInv'
    BY <1>15 DEF vars, WInv, BuildInv, WrapInv, LeakInv, InNew, Attached, NewRef
  <2>3. NestInv'
    <3>1. fluid' = fluid /\ calls' = calls /\ by' = by /\ todo' = todo
      BY <1>15 DEF vars
    <3> QED
      BY <3>1, SameNest DEF WInv
  <2>4. IdentityStep
    BY <1>15 DEF vars, IdentityStep, Alive
  <2> QED
    BY <2>1, <2>2, <2>3, <2>4 DEF WInv
<1> QED
  BY <1>1, <1>2, <1>3, <1>4, <1>5, <1>6, <1>7, <1>8, <1>9, <1>10, <1>11,
     <1>12, <1>13, <1>14, <1>15 DEF Next

\* The strengthened invariant holds in every reachable state.
THEOREM IdentityInductive == ASSUME Simple PROVE Spec => []WInv
<1>1. IInv /\ WInv /\ [Next]_vars => WInv'
  BY NextIdentity
<1> QED
  BY <1>1, InitIdentity, Inductive, PTL DEF Spec

\* An instance that Scheme knows is always the same object in Scheme.
THEOREM OneIdentity == ASSUME Simple PROVE Spec => []SameWrapper
<1>1. WInv => SameWrapper
  BY DEF WInv
<1> QED
  BY <1>1, IdentityInductive, PTL

\* An instance's qdata never names a wrapper that is gone or another's.
THEOREM QdataUpToDate == ASSUME Simple PROVE Spec => []CacheCoherent
<1>1. WInv => CacheCoherent
  BY DEF WInv
<1> QED
  BY <1>1, IdentityInductive, PTL

\* The wrapper under construction stands for no other instance, however deep
\* constructions nest.
THEOREM ConstructedIsOwn == ASSUME Simple PROVE Spec => []ConstructionKeepsWrapper
<1>1. WInv => ConstructionKeepsWrapper
  BY DEF WInv
<1> QED
  BY <1>1, IdentityInductive, PTL

\* No reference is left that nobody will drop.
THEOREM NothingLeaks == ASSUME Simple PROVE Spec => []NoLeak
<1>1. ASSUME IInv, WInv PROVE NoLeak
  <2> SUFFICES ASSUME NEW i \in Instances PROVE refs[i] <= Accounted(i)
    BY DEF NoLeak
  <2>1. SameWrapper /\ CacheCoherent
    BY <1>1 DEF WInv
  <2>2. Accounted(i) = Attached(i) + crefs[i] + NewRef(i)
    BY <1>1, <2>1, Balance
  <2> QED
    BY <1>1, <2>2 DEF WInv, LeakInv
<1>2. IInv /\ WInv => NoLeak
  BY <1>1
<1> QED
  BY <1>2, Inductive, IdentityInductive, PTL

-----------------------------------------------------------------------------
(* Refinement *)

\* What WrapperIdentity calls the view is the qdata.
LEMMA ViewIsCache ==
    ASSUME TypeOK, SameWrapper, CacheCoherent
    PROVE  view = cache
<1>1. ASSUME NEW i \in Instances
      PROVE  (IF BoundTo(i) = {} THEN None ELSE CHOOSE w \in BoundTo(i) : TRUE) = cache[i]
  <2>1. BoundTo(i) = IF cache[i] = None THEN {} ELSE {cache[i]}
    BY OneWrapper
  <2> QED
    BY <2>1
<1> QED
  BY <1>1 DEF view, TypeOK

\* The same after a step
LEMMA ViewIsCacheNext ==
    ASSUME TypeOK', SameWrapper', CacheCoherent'
    PROVE  view' = cache'
<1>1. ASSUME NEW i \in Instances
      PROVE  (IF BoundTo(i)' = {} THEN None ELSE CHOOSE w \in BoundTo(i)' : TRUE) = cache'[i]
  <2>1. BoundTo(i)' = IF cache'[i] = None THEN {} ELSE {cache'[i]}
    BY OneWrapperNext
  <2> QED
    BY <2>1
<1> QED
  BY <1>1 DEF view, TypeOK

\* What is promised of object identity holds.
THEOREM ImplementsIdentity == ASSUME Simple PROVE Spec => RefinesIdentity
<1>1. ASSUME Init PROVE Identity!Init
  <2>1. TypeOK /\ SameWrapper /\ CacheCoherent
    BY <1>1, InitSafe, InitIdentity DEF IInv, WInv
  <2>2. view = cache
    BY <2>1, ViewIsCache
  <2>3. {i \in Instances : refs[i] > 0} = {}
    BY <1>1 DEF Init
  <2>4. cache = [i \in Instances |-> None]
    BY <1>1 DEF Init
  <2> QED
    BY <2>2, <2>3, <2>4 DEF Identity!Init
<1>2. ASSUME IInv, WInv, [Next]_vars PROVE [Identity!Next]_(Identity!vars)
  <2>1. WInv' /\ IdentityStep /\ IInv'
    BY <1>2, NextIdentity, NextSafe
  <2>2. view = cache
    BY <1>2, ViewIsCache DEF IInv, WInv
  <2>3. view' = cache'
    BY <2>1, ViewIsCacheNext DEF IInv, WInv
  <2>4. Alive = {i \in Instances : refs[i] > 0}
    BY DEF Alive
  <2>5. Alive' = {i \in Instances : refs'[i] > 0}
    BY DEF Alive
  <2>6. CASE Alive' = Alive /\ cache' = cache
    BY <2>2, <2>3, <2>4, <2>5, <2>6 DEF Identity!vars
  <2>7. ASSUME NEW i \in Instances, i \notin Alive, Alive' = Alive \cup {i}, cache' = cache
        PROVE  Identity!Next
    <3>1. Identity!Create(i)
      BY <2>2, <2>3, <2>4, <2>5, <2>7 DEF Identity!Create
    <3> QED
      BY <3>1 DEF Identity!Next
  <2>8. ASSUME NEW i \in Instances, NEW w \in Wrappers, i \in Alive, cache[i] = None,
               \A j \in Instances : cache[j] # w,
               cache' = [cache EXCEPT ![i] = w], Alive' = Alive
        PROVE  Identity!Next
    <3>1. Identity!Attach(i, w)
      BY <2>2, <2>3, <2>4, <2>5, <2>8 DEF Identity!Attach
    <3> QED
      BY <3>1 DEF Identity!Next
  <2>9. ASSUME NEW i \in Instances, cache[i] # None, cache' = [cache EXCEPT ![i] = None],
               Alive' \in {Alive, Alive \ {i}}
        PROVE  Identity!Next
    <3>1. Identity!Detach(i)
      BY <2>2, <2>3, <2>4, <2>5, <2>9 DEF Identity!Detach
    <3> QED
      BY <3>1 DEF Identity!Next
  <2>10. ASSUME NEW i \in Instances, cache[i] = None, cache' = cache, Alive' = Alive \ {i}
         PROVE  Identity!Next
    <3>1. Identity!Free(i)
      BY <2>2, <2>3, <2>4, <2>5, <2>10 DEF Identity!Free
    <3> QED
      BY <3>1 DEF Identity!Next
  <2> QED
    BY <2>1, <2>6, <2>7, <2>8, <2>9, <2>10 DEF IdentityStep
<1>3. Init => Identity!Init
  BY <1>1
<1>4. IInv /\ WInv /\ [Next]_vars => [Identity!Next]_(Identity!vars)
  BY <1>2
<1> QED
  BY <1>3, <1>4, Inductive, IdentityInductive, PTL DEF Spec, RefinesIdentity, Identity!Spec
=============================================================================
