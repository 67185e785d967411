---------------------------- MODULE TreeModelProofs ----------------------------
(***************************************************************************)
(* GTK's tree models whose rows Scheme gives.                              *)
(*                                                                         *)
(* TreeIters, for any number of iters, values and rows, and a program that *)
(* uses an iter once and to its end: no call aborts Guile, iters that may  *)
(* be used are valid, and every protection has an owner.  Protections      *)
(* follow the iters that the program may still use, not the copies: a copy *)
(* that is made of the stack iter counts for nothing until the walk is     *)
(* over, and then it is spent (CopiesInv).                                 *)
(*                                                                         *)
(* FilteredList, for lists of any length and filters that let any of their *)
(* rows through: set-filter's walk tells its listener exactly what has     *)
(* changed, as long as the program keeps the shown rows in the list and no *)
(* listener calls set-filter.  The walk compares the list's rows with the  *)
(* first of the old and of the new ones only.  That finds each of them,    *)
(* although rows may repeat, because what is left of either lies within    *)
(* what is left of the list (WithinTail).                                  *)
(***************************************************************************)
EXTENDS TreeIters, FilteredList, FiniteSetTheorems, SequenceTheorems, TLAPS

CarefulProgram == Env = {}

\* The copies of a walk are nobody's before it ends; every iter has a value.
CopiesInv ==
    /\ spent \subseteq inUse
    /\ walk.list \cap inUse = {}
    /\ \A i \in inUse \cup walk.list : data[i] \in Vals

\* What is protected has not been collected.
AliveInv == \A v \in Vals : protected[v] > 0 => v \in exists

IInv == TypeOK /\ CopiesInv /\ AliveInv /\ ProtectionsOwned /\ NeverAborts

-----------------------------------------------------------------------------
(* Counting the iters that refer to a value *)

Ref(c, d, v) == {i \in c : d[i] = v}

\* There are finitely many.
LEMMA RefFinite ==
    ASSUME NEW c \in SUBSET Iters, NEW d, NEW v
    PROVE  IsFiniteSet(Ref(c, d, v)) /\ Cardinality(Ref(c, d, v)) \in Nat
<1>1. IsFiniteSet(Iters) /\ Ref(c, d, v) \in SUBSET Iters
  BY FiniteAssumption DEF Ref
<1> QED
  BY <1>1, FS_Subset, FS_CardinalityType

\* One more iter is one more reference to its value.
LEMMA RefAdd ==
    ASSUME NEW c \in SUBSET Iters, NEW j \in Iters \ c, NEW d, NEW e, NEW x,
           \A i \in c : e[i] = d[i]
    PROVE  Cardinality(Ref(c \cup {j}, e, x))
             = Cardinality(Ref(c, d, x)) + (IF x = e[j] THEN 1 ELSE 0)
<1>1. IsFiniteSet(Ref(c, d, x)) /\ Cardinality(Ref(c, d, x)) \in Nat
  BY RefFinite
<1>2. CASE x = e[j]
  <2>1. Ref(c \cup {j}, e, x) = Ref(c, d, x) \cup {j} /\ j \notin Ref(c, d, x)
    BY <1>2 DEF Ref
  <2>2. Cardinality(Ref(c, d, x) \cup {j}) = Cardinality(Ref(c, d, x)) + 1
    BY <1>1, <2>1, FS_AddElement
  <2> QED
    BY <1>2, <2>1, <2>2
<1>3. CASE x # e[j]
  <2>1. Ref(c \cup {j}, e, x) = Ref(c, d, x)
    BY <1>3 DEF Ref
  <2> QED
    BY <1>1, <1>3, <2>1
<1> QED
  BY <1>2, <1>3

\* One iter less is one reference less.
LEMMA RefRemove ==
    ASSUME NEW c \in SUBSET Iters, NEW i \in c, NEW d, NEW x
    PROVE  Cardinality(Ref(c \ {i}, d, x))
             = Cardinality(Ref(c, d, x)) - (IF x = d[i] THEN 1 ELSE 0)
<1>1. IsFiniteSet(Ref(c, d, x)) /\ Cardinality(Ref(c, d, x)) \in Nat
  BY RefFinite
<1>2. CASE x = d[i]
  <2>1. Ref(c \ {i}, d, x) = Ref(c, d, x) \ {i} /\ i \in Ref(c, d, x)
    BY <1>2 DEF Ref
  <2>2. Cardinality(Ref(c, d, x) \ {i}) = Cardinality(Ref(c, d, x)) - 1
    BY <1>1, <2>1, FS_RemoveElement
  <2> QED
    BY <1>2, <2>1, <2>2
<1>3. CASE x # d[i]
  <2>1. Ref(c \ {i}, d, x) = Ref(c, d, x)
    BY <1>3 DEF Ref
  <2> QED
    BY <1>1, <1>3, <2>1
<1> QED
  BY <1>2, <1>3

\* The property, counted so
LEMMA OwnedRef ==
    ProtectionsOwned <=>
        \A v \in Vals : protected[v] = Cardinality(Ref(Current, data, v)) + OnStack(v) + stranded[v]
  BY DEF ProtectionsOwned, Referring, Ref

\* A value that a usable iter or the stack iter refers to is protected.
LEMMA OwnerProtected ==
    ASSUME IInv
    PROVE  /\ \A i \in Current : data[i] \in Vals /\ protected[data[i]] > 0
           /\ walk.prev # None => walk.prev \in Vals /\ protected[walk.prev] > 0
<1>1. ASSUME NEW v \in Vals
      PROVE  /\ protected[v] = Cardinality(Ref(Current, data, v)) + OnStack(v) + stranded[v]
             /\ IsFiniteSet(Ref(Current, data, v))
             /\ Cardinality(Ref(Current, data, v)) \in Nat /\ stranded[v] \in Nat
  <2>1. Current \in SUBSET Iters
    BY DEF IInv, TypeOK, Current
  <2> QED
    BY <2>1, OwnedRef, RefFinite, BoundsAssumption DEF IInv, TypeOK
<1>2. ASSUME NEW i \in Current PROVE data[i] \in Vals /\ protected[data[i]] > 0
  <2>1. data[i] \in Vals
    BY DEF Current, IInv, CopiesInv
  <2>2. Ref(Current, data, data[i]) # {}
    BY DEF Ref
  <2>3. Cardinality(Ref(Current, data, data[i])) # 0
    BY <1>1, <2>1, <2>2, FS_EmptySet
  <2> QED
    BY <1>1, <2>1, <2>3 DEF OnStack
<1>3. walk.prev # None => walk.prev \in Vals /\ protected[walk.prev] > 0
  BY <1>1 DEF IInv, TypeOK, OnStack
<1> QED
  BY <1>2, <1>3

-----------------------------------------------------------------------------
(* SET_ITER_VAL *)

\* An iter that holds old, protected, and now v
LEMMA SetIterExact ==
    ASSUME IInv, NEW old \in Vals \cup {None}, NEW v \in Vals \cup {None},
           SetIter(old, v), old # None => protected[old] > 0
    PROVE  /\ protected' \in [Vals -> Nat] /\ aborted' = FALSE
           /\ \A x \in Vals : protected'[x] = protected[x] - (IF x = old THEN 1 ELSE 0)
                                                           + (IF x = v THEN 1 ELSE 0)
<1> DEFINE less == Unprotect(protected, old)
<1>1. /\ protected \in [Vals -> Nat]
      /\ protected' = IF v = None THEN less ELSE [less EXCEPT ![v] = @ + 1]
      /\ aborted' = FALSE
  <2>1. protected \in [Vals -> Nat]
    BY DEF IInv, TypeOK
  <2>2. protected' = IF v = None THEN less ELSE [less EXCEPT ![v] = @ + 1]
    BY DEF SetIter, Protect
  <2>3. old # None => protected[old] # 0
    OBVIOUS
  <2>4. aborted' = (old # None /\ protected[old] = 0)
    BY DEF SetIter
  <2> QED
    BY <2>1, <2>2, <2>3, <2>4
<1>2. /\ less \in [Vals -> Nat]
      /\ \A x \in Vals : less[x] = protected[x] - (IF x = old THEN 1 ELSE 0)
  <2>1. CASE old = None
    BY <1>1, <2>1, NoneAssumption DEF Unprotect
  <2>2. CASE old # None
    <3>1. old \in Vals /\ protected[old] - 1 \in Nat /\ less = [protected EXCEPT ![old] = @ - 1]
      BY <1>1, <2>2 DEF Unprotect
    <3> QED
      BY <1>1, <3>1
  <2> QED
    BY <2>1, <2>2
<1> HIDE DEF less
<1> QED
  BY <1>1, <1>2, NoneAssumption

\* A method's answer exists, and so does whatever did before.
LEMMA AnswersAlive ==
    ASSUME TypeOK, NEW v \in Vals, Answers(v)
    PROVE  /\ exists' \subseteq Vals /\ kept' \subseteq exists'
           /\ exists \subseteq exists' /\ v \in exists'
  BY DEF Answers, TypeOK

\* What was protected before, or is now, exists.
LEMMA StaysAlive ==
    ASSUME IInv, NEW old \in Vals \cup {None}, NEW v \in Vals \cup {None},
           SetIter(old, v), old # None => protected[old] > 0,
           exists \subseteq exists', v # None => v \in exists'
    PROVE  AliveInv'
<1>1. \A x \in Vals : protected'[x] = protected[x] - (IF x = old THEN 1 ELSE 0)
                                                   + (IF x = v THEN 1 ELSE 0)
  BY SetIterExact
<1>2. \A x \in Vals : protected[x] \in Nat
  BY DEF IInv, TypeOK
<1>3. \A x \in Vals : protected'[x] > 0 => protected[x] > 0 \/ x = v
  BY <1>1, <1>2
<1> QED
  BY <1>3, NoneAssumption DEF IInv, AliveInv

-----------------------------------------------------------------------------
(* The steps *)

\* A new iter, of a row that a method found
LEMMA GetIterSafe ==
    ASSUME IInv, NEW j \in Iters, NEW v \in Vals, GetIter(j, v)
    PROVE  IInv'
<1>1. /\ j \notin inUse \cup walk.list /\ Answers(v) /\ SetIter(None, v)
      /\ data' = [data EXCEPT ![j] = v] /\ inUse' = inUse \cup {j}
      /\ spent' = spent /\ walk' = walk /\ stranded' = stranded
  BY DEF GetIter, Fresh
<1>2. /\ protected' \in [Vals -> Nat] /\ aborted' = FALSE
      /\ \A x \in Vals : protected'[x] = protected[x] + (IF x = v THEN 1 ELSE 0)
  <2>1. /\ protected' \in [Vals -> Nat] /\ aborted' = FALSE
        /\ \A x \in Vals : protected'[x] = protected[x] - (IF x = None THEN 1 ELSE 0)
                                                        + (IF x = v THEN 1 ELSE 0)
    BY <1>1, SetIterExact
  <2>2. \A x \in Vals : x # None /\ protected[x] \in Nat
    BY NoneAssumption DEF IInv, TypeOK
  <2> QED
    BY <2>1, <2>2
<1>3. /\ exists' \subseteq Vals /\ kept' \subseteq exists'
      /\ exists \subseteq exists' /\ v \in exists'
  BY <1>1, AnswersAlive DEF IInv
<1>4. data' \in [Iters -> Vals \cup {None}] /\ data'[j] = v
      /\ \A i \in Iters : i # j => data'[i] = data[i]
  BY <1>1 DEF IInv, TypeOK
<1>5. TypeOK'
  BY <1>1, <1>2, <1>3, <1>4 DEF IInv, TypeOK
<1>6. CopiesInv'
  BY <1>1, <1>4 DEF IInv, TypeOK, CopiesInv
<1>7. AliveInv'
  BY <1>1, <1>3, StaysAlive
<1>8. Current' = Current \cup {j} /\ Current \in SUBSET Iters /\ j \in Iters \ Current
  BY <1>1 DEF Current, IInv, TypeOK, CopiesInv
<1>9. ASSUME NEW x \in Vals
      PROVE  protected'[x] = Cardinality(Ref(Current', data', x)) + OnStack(x)' + stranded'[x]
  <2>1. \A i \in Current : data'[i] = data[i]
    BY <1>4, <1>8
  <2>2. Cardinality(Ref(Current \cup {j}, data', x))
          = Cardinality(Ref(Current, data, x)) + (IF x = data'[j] THEN 1 ELSE 0)
    BY <1>8, <2>1, RefAdd
  <2>3. protected[x] = Cardinality(Ref(Current, data, x)) + OnStack(x) + stranded[x] /\ stranded[x] \in Nat
    BY OwnedRef, BoundsAssumption DEF IInv, TypeOK
  <2>4. OnStack(x)' = OnStack(x) /\ OnStack(x) \in Nat
    BY <1>1 DEF OnStack
  <2>5. Cardinality(Ref(Current, data, x)) \in Nat
    BY <1>8, RefFinite
  <2> QED
    BY <1>1, <1>2, <1>4, <1>8, <2>2, <2>3, <2>4, <2>5
<1>10. ProtectionsOwned'
  BY <1>9 DEF ProtectionsOwned, Referring, Ref
<1> QED
  BY <1>2, <1>5, <1>6, <1>7, <1>10 DEF IInv, NeverAborts

\* iter-next: the protection goes from the iter to its successor.
LEMMA IterNextSafe ==
    ASSUME CarefulProgram, IInv,
           NEW i \in Iters, NEW j \in Iters, NEW v \in Vals, IterNext(i, j, v)
    PROVE  IInv'
<1>1. /\ i \in Current /\ j \notin inUse \cup walk.list
      /\ Answers(v) /\ SetIter(data[i], v)
      /\ data' = [data EXCEPT ![j] = v] /\ inUse' = inUse \cup {j}
      /\ spent' = spent \cup {i} /\ walk' = walk /\ stranded' = stranded
  BY DEF IterNext, Fresh, Usable, Current, CarefulProgram
<1>2. data[i] \in Vals /\ protected[data[i]] > 0
  BY <1>1, OwnerProtected
<1>3. /\ protected' \in [Vals -> Nat] /\ aborted' = FALSE
      /\ \A x \in Vals : protected'[x] = protected[x] - (IF x = data[i] THEN 1 ELSE 0)
                                                      + (IF x = v THEN 1 ELSE 0)
  BY <1>1, <1>2, SetIterExact
<1>4. /\ exists' \subseteq Vals /\ kept' \subseteq exists'
      /\ exists \subseteq exists' /\ v \in exists'
  BY <1>1, AnswersAlive DEF IInv
<1>5. data' \in [Iters -> Vals \cup {None}] /\ data'[j] = v
      /\ \A k \in Iters : k # j => data'[k] = data[k]
  BY <1>1 DEF IInv, TypeOK
<1>6. TypeOK'
  BY <1>1, <1>3, <1>4, <1>5 DEF IInv, TypeOK
<1>7. CopiesInv'
  BY <1>1, <1>5 DEF IInv, TypeOK, CopiesInv, Current
<1>8. AliveInv'
  BY <1>1, <1>2, <1>4, StaysAlive
<1> DEFINE left == Current \ {i}
<1>9. /\ Current' = left \cup {j} /\ Current \in SUBSET Iters /\ left \in SUBSET Iters
      /\ j \in Iters \ left
  BY <1>1 DEF Current, IInv, TypeOK, CopiesInv
<1>10. ASSUME NEW x \in Vals
       PROVE  protected'[x] = Cardinality(Ref(Current', data', x)) + OnStack(x)' + stranded'[x]
  <2>1. \A k \in left : data'[k] = data[k]
    BY <1>5, <1>9
  <2>2. Cardinality(Ref(left, data, x))
          = Cardinality(Ref(Current, data, x)) - (IF x = data[i] THEN 1 ELSE 0)
    BY <1>1, <1>9, RefRemove
  <2> HIDE DEF left
  <2>3. Cardinality(Ref(left \cup {j}, data', x))
          = Cardinality(Ref(left, data, x)) + (IF x = data'[j] THEN 1 ELSE 0)
    BY <1>9, <2>1, RefAdd
  <2>4. protected[x] = Cardinality(Ref(Current, data, x)) + OnStack(x) + stranded[x] /\ stranded[x] \in Nat
    BY OwnedRef, BoundsAssumption DEF IInv, TypeOK
  <2>5. OnStack(x)' = OnStack(x) /\ OnStack(x) \in Nat
    BY <1>1 DEF OnStack
  <2>6. Cardinality(Ref(Current, data, x)) \in Nat
    BY <1>9, RefFinite
  <2> QED
    BY <1>1, <1>3, <1>5, <1>9, <2>2, <2>3, <2>4, <2>5, <2>6
<1>11. ProtectionsOwned'
  BY <1>10 DEF ProtectionsOwned, Referring, Ref
<1> QED
  BY <1>3, <1>6, <1>7, <1>8, <1>11 DEF IInv, NeverAborts

\* A protection that a throw strands is one of those that had an owner.
LEMMA StrandExact ==
    ASSUME IInv, NEW v \in Vals, Strand(v)
    PROVE  /\ stranded' \in [Vals -> 0..MaxThrows]
           /\ \A x \in Vals : /\ stranded[x] \in Nat
                              /\ stranded'[x] = stranded[x] + (IF x = v THEN 1 ELSE 0)
<1>1. stranded \in [Vals -> 0..MaxThrows] /\ MaxThrows \in Nat
  BY BoundsAssumption DEF IInv, TypeOK
<1>2. stranded[v] < MaxThrows /\ stranded' = [stranded EXCEPT ![v] = stranded[v] + 1]
  BY DEF Strand
<1>3. stranded[v] + 1 \in 0..MaxThrows
  BY <1>1, <1>2
<1> QED
  BY <1>1, <1>2, <1>3

\* iter-next when on-iter-next throws: the iter has no use any more, and its
\* protection is stranded.
LEMMA IterThrowSafe ==
    ASSUME IInv, NEW i \in Iters, IterThrow(i)
    PROVE  IInv'
<1>1. /\ i \in Current /\ Strand(data[i]) /\ spent' = spent \cup {i}
      /\ UNCHANGED <<inUse, data, exists, kept, protected, walk, aborted>>
  BY DEF IterThrow, Current
<1>2. data[i] \in Vals
  BY <1>1, OwnerProtected
<1>3. /\ stranded' \in [Vals -> 0..MaxThrows]
      /\ \A x \in Vals : /\ stranded[x] \in Nat
                         /\ stranded'[x] = stranded[x] + (IF x = data[i] THEN 1 ELSE 0)
  <2> DEFINE v == data[i]
  <2>1. v \in Vals /\ Strand(v)
    BY <1>1, <1>2
  <2> HIDE DEF v
  <2>2. /\ stranded' \in [Vals -> 0..MaxThrows]
        /\ \A x \in Vals : /\ stranded[x] \in Nat
                           /\ stranded'[x] = stranded[x] + (IF x = v THEN 1 ELSE 0)
    BY <2>1, StrandExact
  <2> QED
    BY <2>2 DEF v
<1>4. TypeOK' /\ CopiesInv' /\ AliveInv'
  BY <1>1, <1>3 DEF IInv, TypeOK, CopiesInv, AliveInv, Current
<1>5. Current' = Current \ {i} /\ Current \in SUBSET Iters
  BY <1>1 DEF Current, IInv, TypeOK
<1>6. ASSUME NEW x \in Vals
      PROVE  protected'[x] = Cardinality(Ref(Current', data', x)) + OnStack(x)' + stranded'[x]
  <2>1. Cardinality(Ref(Current \ {i}, data, x))
          = Cardinality(Ref(Current, data, x)) - (IF x = data[i] THEN 1 ELSE 0)
    <3>1. i \in Current /\ Current \in SUBSET Iters
      BY <1>1, <1>5
    <3>2. \A d : Cardinality(Ref(Current \ {i}, d, x))
                  = Cardinality(Ref(Current, d, x)) - (IF x = d[i] THEN 1 ELSE 0)
      BY <3>1, RefRemove
    <3> QED
      BY <3>2
  <2>2. protected[x] = Cardinality(Ref(Current, data, x)) + OnStack(x) + stranded[x]
    BY OwnedRef DEF IInv
  <2>3. OnStack(x)' = OnStack(x) /\ OnStack(x) \in Nat
    BY <1>1 DEF OnStack
  <2>4. Cardinality(Ref(Current, data, x)) \in Nat
    BY <1>5, RefFinite
  <2> QED
    BY <1>1, <1>3, <1>5, <2>1, <2>2, <2>3, <2>4
<1>7. ProtectionsOwned'
  BY <1>6 DEF ProtectionsOwned, Referring, Ref
<1> QED
  BY <1>1, <1>4, <1>7 DEF IInv, NeverAborts

\* iter-next at the end of a level
LEMMA IterLastSafe ==
    ASSUME CarefulProgram, IInv, NEW i \in Iters, IterLast(i)
    PROVE  IInv'
<1>1. /\ i \in Current /\ SetIter(data[i], None) /\ spent' = spent \cup {i}
      /\ UNCHANGED <<inUse, data, exists, kept, stranded, walk>>
  BY DEF IterLast, Usable, Current, CarefulProgram
<1>2. data[i] \in Vals /\ protected[data[i]] > 0
  BY <1>1, OwnerProtected
<1>3. /\ protected' \in [Vals -> Nat] /\ aborted' = FALSE
      /\ \A x \in Vals : protected'[x] = protected[x] - (IF x = data[i] THEN 1 ELSE 0)
  <2>1. /\ protected' \in [Vals -> Nat] /\ aborted' = FALSE
        /\ \A x \in Vals : protected'[x] = protected[x] - (IF x = data[i] THEN 1 ELSE 0)
                                                        + (IF x = None THEN 1 ELSE 0)
    <3> DEFINE old == data[i]
    <3>1. /\ old \in Vals \cup {None} /\ SetIter(old, None) /\ protected[old] > 0
          /\ None \in Vals \cup {None}
      BY <1>1, <1>2
    <3> HIDE DEF old
    <3>2. /\ protected' \in [Vals -> Nat] /\ aborted' = FALSE
          /\ \A x \in Vals : protected'[x] = protected[x] - (IF x = old THEN 1 ELSE 0)
                                                          + (IF x = None THEN 1 ELSE 0)
      BY <3>1, SetIterExact
    <3> QED
      BY <3>2 DEF old
  <2>2. \A x \in Vals : x # None /\ protected[x] \in Nat
    BY NoneAssumption DEF IInv, TypeOK
  <2> QED
    BY <2>1, <2>2
<1>4. TypeOK' /\ CopiesInv'
  BY <1>1, <1>3 DEF IInv, TypeOK, CopiesInv, Current
<1>5. AliveInv'
  BY <1>1, <1>2, StaysAlive
<1>6. Current' = Current \ {i} /\ Current \in SUBSET Iters
  BY <1>1 DEF Current, IInv, TypeOK
<1>7. ASSUME NEW x \in Vals
      PROVE  protected'[x] = Cardinality(Ref(Current', data', x)) + OnStack(x)' + stranded'[x]
  <2>1. Cardinality(Ref(Current \ {i}, data, x))
          = Cardinality(Ref(Current, data, x)) - (IF x = data[i] THEN 1 ELSE 0)
    <3>1. i \in Current /\ Current \in SUBSET Iters
      BY <1>1, <1>6
    <3>2. \A d : Cardinality(Ref(Current \ {i}, d, x))
                  = Cardinality(Ref(Current, d, x)) - (IF x = d[i] THEN 1 ELSE 0)
      BY <3>1, RefRemove
    <3> QED
      BY <3>2
  <2>2. protected[x] = Cardinality(Ref(Current, data, x)) + OnStack(x) + stranded[x] /\ stranded[x] \in Nat
    BY OwnedRef, BoundsAssumption DEF IInv, TypeOK
  <2>3. OnStack(x)' = OnStack(x) /\ OnStack(x) \in Nat
    BY <1>1 DEF OnStack
  <2>4. Cardinality(Ref(Current, data, x)) \in Nat
    BY <1>6, RefFinite
  <2> QED
    BY <1>1, <1>3, <1>6, <2>1, <2>2, <2>3, <2>4
<1>8. ProtectionsOwned'
  BY <1>7 DEF ProtectionsOwned, Referring, Ref
<1> QED
  BY <1>3, <1>4, <1>5, <1>8 DEF IInv, NeverAborts

\* The stack iter moves, from walk.prev (or nothing) to v (or nothing); the
\* usable iters stay what they are.
LEMMA WalkMoves ==
    ASSUME IInv, NEW v \in Vals \cup {None}, SetIter(walk.prev, v), walk'.prev = v,
           Current' = Current, stranded' = stranded, \A k \in Current : data'[k] = data[k],
           exists \subseteq exists', v # None => v \in exists'
    PROVE  /\ protected' \in [Vals -> Nat] /\ aborted' = FALSE
           /\ AliveInv' /\ ProtectionsOwned'
<1>1. walk.prev \in Vals \cup {None} /\ (walk.prev # None => protected[walk.prev] > 0)
  BY OwnerProtected DEF IInv, TypeOK
<1>2. /\ protected' \in [Vals -> Nat] /\ aborted' = FALSE
      /\ \A x \in Vals : protected'[x] = protected[x] - (IF x = walk.prev THEN 1 ELSE 0)
                                                      + (IF x = v THEN 1 ELSE 0)
  BY <1>1, SetIterExact
<1>3. AliveInv'
  BY <1>1, StaysAlive
<1>4. ASSUME NEW x \in Vals
      PROVE  protected'[x] = Cardinality(Ref(Current', data', x)) + OnStack(x)' + stranded'[x]
  <2>1. Ref(Current', data', x) = Ref(Current, data, x)
    BY DEF Ref
  <2>2. protected[x] = Cardinality(Ref(Current, data, x)) + OnStack(x) + stranded[x] /\ stranded[x] \in Nat
    BY OwnedRef, BoundsAssumption DEF IInv, TypeOK
  <2>3. Cardinality(Ref(Current, data, x)) \in Nat
    <3>1. Current \in SUBSET Iters
      BY DEF Current, IInv, TypeOK
    <3> QED
      BY <3>1, RefFinite
  <2>4. OnStack(x) = (IF x = walk.prev THEN 1 ELSE 0) /\ OnStack(x)' = (IF x = v THEN 1 ELSE 0)
    BY DEF OnStack
  <2> QED
    BY <1>2, <2>1, <2>2, <2>3, <2>4
<1>5. ProtectionsOwned'
  BY <1>4 DEF ProtectionsOwned, Referring, Ref
<1> QED
  BY <1>2, <1>3, <1>5

\* iter-children begins, or copies its stack iter and moves it on.
LEMMA ChildrenSafe ==
    ASSUME IInv, NEW v \in Vals, ChildrenFirst(v) \/ \E j \in Iters : ChildrenNext(j, v)
    PROVE  IInv'
<1>1. CASE ChildrenFirst(v)
  <2>1. /\ walk = NoWalk /\ Answers(v) /\ SetIter(walk.prev, v)
        /\ walk' = [prev |-> v, list |-> {}] /\ UNCHANGED <<inUse, data, spent, stranded>>
    BY <1>1 DEF ChildrenFirst, NoWalk
  <2>2. /\ exists' \subseteq Vals /\ kept' \subseteq exists'
        /\ exists \subseteq exists' /\ v \in exists'
    BY <2>1, AnswersAlive DEF IInv
  <2>3. Current' = Current /\ walk'.prev = v
    BY <2>1 DEF Current
  <2>4. /\ protected' \in [Vals -> Nat] /\ aborted' = FALSE
        /\ AliveInv' /\ ProtectionsOwned'
    BY <2>1, <2>2, <2>3, WalkMoves
  <2>5. TypeOK' /\ CopiesInv'
    BY <2>1, <2>2, <2>4 DEF IInv, TypeOK, CopiesInv, NoWalk
  <2> QED
    BY <2>4, <2>5 DEF IInv, NeverAborts
<1>2. ASSUME NEW j \in Iters, ChildrenNext(j, v) PROVE IInv'
  <2>1. /\ walk.prev # None /\ j \notin inUse \cup walk.list
        /\ Answers(v) /\ SetIter(walk.prev, v)
        /\ data' = [data EXCEPT ![j] = walk.prev]
        /\ walk' = [prev |-> v, list |-> walk.list \cup {j}]
        /\ UNCHANGED <<inUse, spent, stranded>>
    BY <1>2 DEF ChildrenNext, Fresh
  <2>2. /\ exists' \subseteq Vals /\ kept' \subseteq exists'
        /\ exists \subseteq exists' /\ v \in exists'
    BY <2>1, AnswersAlive DEF IInv
  <2>3. walk.prev \in Vals /\ walk.list \subseteq Iters
    BY <2>1 DEF IInv, TypeOK
  <2>4. data' \in [Iters -> Vals \cup {None}] /\ data'[j] \in Vals
        /\ \A k \in Iters : k # j => data'[k] = data[k]
    BY <2>1, <2>3 DEF IInv, TypeOK
  <2>5. Current' = Current /\ walk'.prev = v /\ \A k \in Current : data'[k] = data[k]
    BY <2>1, <2>4 DEF Current, IInv, TypeOK
  <2>6. /\ protected' \in [Vals -> Nat] /\ aborted' = FALSE
        /\ AliveInv' /\ ProtectionsOwned'
    BY <2>1, <2>2, <2>5, WalkMoves
  <2>7. TypeOK'
    BY <2>1, <2>2, <2>3, <2>4, <2>6 DEF IInv, TypeOK
  <2>8. CopiesInv'
    BY <2>1, <2>3, <2>4 DEF IInv, TypeOK, CopiesInv
  <2> QED
    BY <2>6, <2>7, <2>8 DEF IInv, NeverAborts
<1> QED
  BY <1>1, <1>2

\* iter-children returns its copies, whose protections are gone.
LEMMA ChildrenEndSafe ==
    ASSUME CarefulProgram, IInv, NEW j \in Iters, ChildrenEnd(j)
    PROVE  IInv'
<1>1. /\ walk.prev # None /\ j \notin inUse \cup walk.list
      /\ SetIter(walk.prev, None)
      /\ data' = [data EXCEPT ![j] = walk.prev]
      /\ inUse' = inUse \cup walk.list \cup {j}
      /\ spent' = spent \cup walk.list \cup {j}
      /\ walk' = NoWalk /\ UNCHANGED <<exists, kept, stranded>>
  BY DEF ChildrenEnd, Listed, Fresh, CarefulProgram
<1>2. walk.prev \in Vals /\ walk.list \subseteq Iters /\ walk.list \cap inUse = {}
  BY <1>1 DEF IInv, TypeOK, CopiesInv
<1>3. data' \in [Iters -> Vals \cup {None}] /\ data'[j] \in Vals
      /\ \A k \in Iters : k # j => data'[k] = data[k]
  BY <1>1, <1>2 DEF IInv, TypeOK
<1>4. Current' = Current /\ walk'.prev = None /\ \A k \in Current : data'[k] = data[k]
  BY <1>1, <1>2, <1>3 DEF Current, IInv, TypeOK, NoWalk
<1>5. /\ protected' \in [Vals -> Nat] /\ aborted' = FALSE
      /\ AliveInv' /\ ProtectionsOwned'
  BY <1>1, <1>4, WalkMoves
<1>6. TypeOK'
  BY <1>1, <1>2, <1>3, <1>5 DEF IInv, TypeOK, NoWalk
<1>7. CopiesInv'
  BY <1>1, <1>2, <1>3 DEF IInv, TypeOK, CopiesInv, NoWalk
<1> QED
  BY <1>5, <1>6, <1>7 DEF IInv, NeverAborts

\* iter-children when on-iter-next throws: the protection of the last value is
\* stranded.
LEMMA ChildrenThrowSafe ==
    ASSUME CarefulProgram, IInv, NEW j \in Iters, ChildrenThrow(j)
    PROVE  IInv'
<1>1. /\ walk.prev # None /\ j \notin inUse \cup walk.list
      /\ Strand(walk.prev)
      /\ data' = [data EXCEPT ![j] = walk.prev]
      /\ inUse' = inUse \cup walk.list \cup {j}
      /\ spent' = spent \cup walk.list \cup {j}
      /\ walk' = NoWalk /\ UNCHANGED <<exists, kept, protected, aborted>>
  BY DEF ChildrenThrow, Listed, Fresh, CarefulProgram
<1>2. walk.prev \in Vals /\ walk.list \subseteq Iters /\ walk.list \cap inUse = {}
  BY <1>1 DEF IInv, TypeOK, CopiesInv
<1>3. data' \in [Iters -> Vals \cup {None}] /\ data'[j] \in Vals
      /\ \A k \in Iters : k # j => data'[k] = data[k]
  BY <1>1, <1>2 DEF IInv, TypeOK
<1>4. Current' = Current /\ walk'.prev = None /\ \A k \in Current : data'[k] = data[k]
  BY <1>1, <1>2, <1>3 DEF Current, IInv, TypeOK, NoWalk
<1>5. /\ stranded' \in [Vals -> 0..MaxThrows]
      /\ \A x \in Vals : /\ stranded[x] \in Nat
                         /\ stranded'[x] = stranded[x] + (IF x = walk.prev THEN 1 ELSE 0)
  BY <1>1, <1>2, StrandExact
<1>6. TypeOK'
  BY <1>1, <1>2, <1>3, <1>5 DEF IInv, TypeOK, NoWalk
<1>7. CopiesInv' /\ AliveInv'
  BY <1>1, <1>2, <1>3 DEF IInv, TypeOK, CopiesInv, AliveInv, NoWalk
<1>8. ASSUME NEW x \in Vals
      PROVE  protected'[x] = Cardinality(Ref(Current', data', x)) + OnStack(x)' + stranded'[x]
  <2>1. Ref(Current', data', x) = Ref(Current, data, x)
    BY <1>4 DEF Ref
  <2>2. protected[x] = Cardinality(Ref(Current, data, x)) + OnStack(x) + stranded[x]
    BY OwnedRef DEF IInv
  <2>3. Cardinality(Ref(Current, data, x)) \in Nat
    <3>1. Current \in SUBSET Iters
      BY DEF Current, IInv, TypeOK
    <3> QED
      BY <3>1, RefFinite
  <2>4. OnStack(x) = (IF x = walk.prev THEN 1 ELSE 0) /\ OnStack(x)' = 0
    BY <1>4, NoneAssumption DEF OnStack
  <2> QED
    BY <1>1, <1>5, <2>1, <2>2, <2>3, <2>4
<1>9. ProtectionsOwned'
  BY <1>8 DEF ProtectionsOwned, Referring, Ref
<1> QED
  BY <1>1, <1>6, <1>7, <1>9 DEF IInv, NeverAborts

\* Neither the end of a spent iter nor the model's own data nor the collector
\* touches a protection, and the collector spares what is protected.
LEMMA OthersSafe ==
    ASSUME CarefulProgram, IInv,
           (\E i \in Iters : Drop(i)) \/ (\E v \in Vals : Forget(v) \/ Collect(v))
    PROVE  IInv'
<1>1. PICK i \in Iters \cup {None}, v \in Vals \cup {None} :
        /\ inUse' \subseteq inUse /\ inUse \subseteq inUse' \cup spent
        /\ spent' = spent \cap inUse'
        /\ data' \in [Iters -> Vals \cup {None}]
        /\ \A k \in inUse' : data'[k] = data[k]
        /\ \A k \in Iters : data'[k] # data[k] => k \in inUse
        /\ exists' \subseteq exists /\ kept' \subseteq exists'
        /\ \A x \in exists \ exists' : protected[x] = 0
        /\ UNCHANGED <<protected, stranded, walk, aborted>>
  <2>1. ASSUME NEW i \in Iters, Drop(i)
        PROVE  /\ inUse' \subseteq inUse /\ inUse \subseteq inUse' \cup spent
               /\ spent' = spent \cap inUse'
               /\ data' \in [Iters -> Vals \cup {None}]
               /\ \A k \in inUse' : data'[k] = data[k]
               /\ \A k \in Iters : data'[k] # data[k] => k \in inUse
               /\ exists' = exists /\ kept' = kept
               /\ UNCHANGED <<protected, stranded, walk, aborted>>
    BY <2>1 DEF Drop, CarefulProgram, IInv, TypeOK, CopiesInv
  <2>2. ASSUME NEW v \in Vals, Forget(v) \/ Collect(v)
        PROVE  /\ UNCHANGED <<inUse, spent, data, protected, stranded, walk, aborted>>
               /\ exists' \subseteq exists /\ kept' \subseteq exists'
               /\ \A x \in exists \ exists' : protected[x] = 0
    BY <2>2 DEF Forget, Collect, IInv, TypeOK
  <2> QED
    BY <2>1, <2>2 DEF IInv, TypeOK, CopiesInv
<1>2. TypeOK'
  BY <1>1 DEF IInv, TypeOK
<1>3. CopiesInv'
  BY <1>1 DEF IInv, TypeOK, CopiesInv
<1>4. AliveInv'
  BY <1>1 DEF IInv, TypeOK, AliveInv
<1>5. Current' = Current /\ \A k \in Current : data'[k] = data[k]
  BY <1>1 DEF IInv, CopiesInv, Current
<1>6. ProtectionsOwned'
  <2>1. \A x \in Vals : Referring(x)' = Referring(x) /\ OnStack(x)' = OnStack(x)
    BY <1>1, <1>5 DEF Referring, OnStack
  <2> QED
    BY <1>1, <2>1 DEF IInv, ProtectionsOwned
<1> QED
  BY <1>1, <1>2, <1>3, <1>4, <1>6 DEF IInv, NeverAborts

-----------------------------------------------------------------------------
\* At the start there are no iters.
LEMMA InitSafe == Init => IInv
<1> SUFFICES ASSUME Init PROVE IInv
  OBVIOUS
<1>1. CopiesInv /\ AliveInv /\ NeverAborts
  BY DEF Init, CopiesInv, AliveInv, NeverAborts, NoWalk
<1>2. TypeOK
  <2>1. walk \in [prev : Vals \cup {None}, list : SUBSET Iters]
    BY DEF Init, NoWalk
  <2>2. /\ data \in [Iters -> Vals \cup {None}] /\ protected \in [Vals -> Nat]
        /\ stranded \in [Vals -> 0..MaxThrows]
    BY BoundsAssumption DEF Init
  <2> QED
    BY <2>1, <2>2 DEF Init, TypeOK
<1>3. \A v \in Vals : Referring(v) = {} /\ OnStack(v) = 0
  BY NoneAssumption DEF Init, Referring, Current, OnStack, NoWalk
<1>4. ProtectionsOwned
  BY <1>3, FS_EmptySet DEF Init, ProtectionsOwned
<1> QED
  BY <1>1, <1>2, <1>4 DEF IInv

\* Every step of a careful program keeps it.
LEMMA StepSafe == CarefulProgram /\ IInv /\ [Next]_vars => IInv'
<1> SUFFICES ASSUME CarefulProgram, IInv, [Next]_vars PROVE IInv'
  OBVIOUS
<1>1. ASSUME NEW j \in Iters, NEW v \in Vals,
             GetIter(j, v) \/ \E i \in Iters : NthChild(i, j, v) \/ Parent(i, j, v)
      PROVE  IInv'
  BY <1>1, GetIterSafe DEF NthChild, Parent
<1>2. ASSUME NEW i \in Iters, NEW j \in Iters, NEW v \in Vals, IterNext(i, j, v) PROVE IInv'
  BY <1>2, IterNextSafe
<1>3. ASSUME NEW j \in Iters, NEW v \in Vals, ChildrenNext(j, v) \/ ChildrenFirst(v) PROVE IInv'
  BY <1>3, ChildrenSafe
<1>4. ASSUME NEW i \in Iters,
             IterLast(i) \/ IterThrow(i) \/ ChildrenEnd(i) \/ ChildrenThrow(i)
      PROVE  IInv'
  BY <1>4, IterLastSafe, IterThrowSafe, ChildrenEndSafe, ChildrenThrowSafe
<1>5. CASE (\E i \in Iters : Drop(i)) \/ (\E v \in Vals : Forget(v) \/ Collect(v))
  BY <1>5, OthersSafe
<1>6. CASE \E v \in Vals : ChildrenFirst(v)
  BY <1>6, ChildrenSafe
<1>7. CASE UNCHANGED vars
  BY <1>7 DEF vars, IInv, TypeOK, CopiesInv, AliveInv, ProtectionsOwned, NeverAborts,
              Referring, Current, OnStack
<1> QED
  BY <1>1, <1>2, <1>3, <1>4, <1>5, <1>6, <1>7 DEF Next, Steps

\* The invariant holds throughout.
LEMMA Invariant == ASSUME CarefulProgram PROVE Spec => []IInv
<1>1. IInv /\ [Next]_vars => IInv'
  BY StepSafe
<1> QED
  BY <1>1, InitSafe, PTL DEF Spec

-----------------------------------------------------------------------------
\* gtk-tree-model calls never unprotect a value that is not protected, over
\* which Guile would abort.
THEOREM CarefulNeverAborts == ASSUME CarefulProgram PROVE Spec => []NeverAborts
<1>1. IInv => NeverAborts
  BY DEF IInv
<1> QED
  BY <1>1, Invariant, PTL

\* Every protection is that of an iter in use or of iter-children's own, or one
\* that a throw of on-iter-next left behind, which scm_with_guile stops before
\* SET_ITER_NULL: without throws nothing stays protected when they are all at
\* their end, and each throw strands one protection, no more.
THEOREM ThrowsStrandOne == ASSUME CarefulProgram PROVE Spec => []ProtectionsOwned
<1>1. IInv => ProtectionsOwned
  BY DEF IInv
<1> QED
  BY <1>1, Invariant, PTL

\* The value of an iter that the program may use has not been collected, be it
\* referred to by the model or by the iter alone.
THEOREM CarefulItersValid == ASSUME CarefulProgram PROVE Spec => []IterValid
<1>1. CarefulProgram /\ IInv => IterValid
  <2> SUFFICES ASSUME CarefulProgram, IInv, NEW i \in inUse, Usable(i) PROVE data[i] \in exists
    BY DEF IterValid
  <2>1. i \in Current
    BY DEF Usable, Current, CarefulProgram
  <2> QED
    BY <2>1, OwnerProtected DEF IInv, AliveInv
<1> QED
  BY <1>1, Invariant, PTL

-----------------------------------------------------------------------------
(* The filtered list *)

\* A program that keeps the shown rows, and listeners that do not call set-filter
Tame == ProgramKeepsRows /\ MaxDepth = 1

\* The walk of the rest l of the list, with the old and the new rows to come
WalkOf(l, old, new, i) == [l |-> l, old |-> old, new |-> new, i |-> i]

\* In it, the listener has the new rows so far and the old ones to come.
WalkInv(l, old, new, i) ==
    /\ Within(old, l) /\ Within(new, l)
    /\ Len(filtered) = i + Len(new)
    /\ \A k \in 1..Len(new) : filtered[i + k] = new[k]
    /\ Len(view) = i + Len(old)
    /\ \A k \in 1..i : view[k] = filtered[k]
    /\ \A k \in 1..Len(old) : view[i + k] = old[k]

ListInv ==
    /\ list \in Seq(Rows) /\ filtered \in Seq(Rows) /\ view \in Seq(Rows)
    /\ len = Len(filtered)
    /\ Within(filtered, list)
    /\ \/ walks = <<>> /\ view = filtered
       \/ \E l, old, new \in Seq(Rows), i \in Nat :
            walks = <<WalkOf(l, old, new, i)>> /\ WalkInv(l, old, new, i)

-----------------------------------------------------------------------------
(* Sequences within others *)

\* The first row of s goes: if it is the first of t, that goes too.
LEMMA WithinTail ==
    ASSUME NEW s \in Seq(Rows), NEW t \in Seq(Rows), s # <<>>, Within(t, s)
    PROVE  /\ t # <<>> /\ Head(t) = Head(s) => Within(Tail(t), Tail(s))
           /\ ~(t # <<>> /\ Head(t) = Head(s)) => Within(t, Tail(s))
<1> DEFINE n == Len(t)
           m == Len(s)
<1>1. /\ n \in Nat /\ m \in Nat /\ m > 0
      /\ Tail(s) \in Seq(Rows) /\ Len(Tail(s)) = m - 1
      /\ \A k \in 1..(m - 1) : Tail(s)[k] = s[k + 1]
      /\ Head(s) = s[1]
  BY HeadTailProperties, LenProperties, EmptySeq
<1>2. PICK f \in Rising(n, m) : \A k \in 1..n : t[k] = s[f[k]]
  BY DEF Within
<1>3. /\ f \in [1..n -> 1..m]
      /\ \A j, k \in 1..n : j < k => f[j] < f[k]
  BY DEF Rising
<1>4. ASSUME t # <<>>, Head(t) = Head(s) PROVE Within(Tail(t), Tail(s))
  <2>1. /\ n > 0 /\ Len(Tail(t)) = n - 1
        /\ \A k \in 1..(n - 1) : Tail(t)[k] = t[k + 1]
    BY <1>4, HeadTailProperties, LenProperties, EmptySeq
  <2> DEFINE g == [k \in 1..(n - 1) |-> f[k + 1] - 1]
  <2>2. ASSUME NEW k \in 1..(n - 1)
        PROVE  f[k + 1] \in 2..m /\ f[k + 1] - 1 \in 1..(m - 1)
    <3>1. 1 \in 1..n /\ k + 1 \in 1..n /\ 1 < k + 1
      BY <1>1, <2>1
    <3>2. f[1] < f[k + 1] /\ f[1] \in 1..m /\ f[k + 1] \in 1..m
      BY <1>3, <3>1
    <3> QED
      BY <1>1, <3>2
  <2>3. g \in Rising(n - 1, m - 1)
    <3>1. g \in [1..(n - 1) -> 1..(m - 1)]
      BY <2>2
    <3>2. ASSUME NEW j \in 1..(n - 1), NEW k \in 1..(n - 1), j < k PROVE g[j] < g[k]
      <4>1. j + 1 \in 1..n /\ k + 1 \in 1..n /\ j + 1 < k + 1
        BY <1>1, <3>2
      <4>2. f[j + 1] < f[k + 1] /\ f[j + 1] \in 1..m /\ f[k + 1] \in 1..m
        BY <1>3, <4>1
      <4> QED
        BY <1>1, <4>2
    <3> QED
      BY <3>1, <3>2 DEF Rising
  <2>4. ASSUME NEW k \in 1..(n - 1) PROVE Tail(t)[k] = Tail(s)[g[k]]
    <3>1. k + 1 \in 1..n
      BY <1>1
    <3>2. Tail(t)[k] = s[f[k + 1]]
      BY <1>2, <2>1, <3>1
    <3>3. g[k] \in 1..(m - 1) /\ g[k] + 1 = f[k + 1]
      BY <1>1, <2>2
    <3> HIDE DEF g
    <3> QED
      BY <1>1, <3>2, <3>3
  <2> HIDE DEF g
  <2> QED
    BY <1>1, <2>1, <2>3, <2>4 DEF Within
<1>5. ASSUME ~(t # <<>> /\ Head(t) = Head(s)) PROVE Within(t, Tail(s))
  <2> DEFINE g == [k \in 1..n |-> f[k] - 1]
  <2>1. ASSUME NEW k \in 1..n PROVE f[k] - 1 \in 1..(m - 1)
    <3>1. 1 \in 1..n /\ t # <<>> /\ Head(t) = t[1]
      BY <1>1, EmptySeq
    <3>2. f[1] # 1 /\ f[1] \in 1..m
      BY <1>1, <1>2, <1>3, <1>5, <3>1
    <3>3. f[k] >= f[1] /\ f[k] \in 1..m
      BY <1>1, <1>3, <3>1, <3>2
    <3> QED
      BY <1>1, <3>2, <3>3
  <2>2. g \in Rising(n, m - 1)
    <3>1. g \in [1..n -> 1..(m - 1)]
      BY <2>1
    <3>2. ASSUME NEW j \in 1..n, NEW k \in 1..n, j < k PROVE g[j] < g[k]
      <4>1. f[j] < f[k] /\ f[j] \in 1..m /\ f[k] \in 1..m
        BY <1>3, <3>2
      <4> QED
        BY <1>1, <4>1
    <3> QED
      BY <3>1, <3>2 DEF Rising
  <2>3. ASSUME NEW k \in 1..n PROVE t[k] = Tail(s)[g[k]]
    <3>1. t[k] = s[f[k]]
      BY <1>2
    <3>2. g[k] \in 1..(m - 1) /\ g[k] + 1 = f[k]
      <4>1. f[k] \in 1..m
        BY <1>3
      <4> QED
        BY <1>1, <2>1, <4>1
    <3> HIDE DEF g
    <3> QED
      BY <1>1, <3>1, <3>2
  <2> HIDE DEF g
  <2> QED
    BY <1>1, <2>2, <2>3 DEF Within
<1> QED
  BY <1>4, <1>5

\* Nothing else is within an empty list.
LEMMA WithinEmpty ==
    ASSUME NEW t \in Seq(Rows), Within(t, <<>>)
    PROVE  t = <<>>
<1>1. PICK f \in Rising(Len(t), 0) : TRUE
  BY DEF Within
<1>2. f \in [1..Len(t) -> 1..0] /\ Len(t) \in Nat
  BY DEF Rising
<1>3. Len(t) = 0
  <2>1. Len(t) # 0 => 1 \in 1..Len(t)
    BY <1>2
  <2>2. 1 \in 1..Len(t) => f[1] \in 1..0
    BY <1>2
  <2> QED
    BY <2>1, <2>2
<1> QED
  BY <1>3, EmptySeq

\* Nothing is within every list.
LEMMA EmptyWithin == \A s \in Seq(Rows) : Within(<<>>, s)
<1> SUFFICES ASSUME NEW s \in Seq(Rows) PROVE Within(<<>>, s)
  OBVIOUS
<1> DEFINE f == [k \in 1..0 |-> 1]
<1>1. f \in Rising(0, Len(s))
  BY DEF Rising
<1> QED
  BY <1>1 DEF Within

-----------------------------------------------------------------------------
(* The listener *)

\* One list after another
LEMMA Concat ==
    ASSUME NEW a \in Seq(Rows), NEW b \in Seq(Rows)
    PROVE  /\ a \o b \in Seq(Rows) /\ Len(a \o b) = Len(a) + Len(b)
           /\ \A k \in 1..Len(a) : (a \o b)[k] = a[k]
           /\ \A k \in 1..Len(b) : (a \o b)[Len(a) + k] = b[k]
<1>1. /\ a \o b \in Seq(Rows) /\ Len(a \o b) = Len(a) + Len(b)
      /\ \A k \in 1..(Len(a) + Len(b)) : (a \o b)[k] = IF k <= Len(a) THEN a[k] ELSE b[k - Len(a)]
  BY ConcatProperties
<1>2. Len(a) \in Nat /\ Len(b) \in Nat
  BY LenProperties
<1>3. ASSUME NEW k \in 1..Len(b) PROVE (a \o b)[Len(a) + k] = b[k]
  <2>1. /\ Len(a) + k \in 1..(Len(a) + Len(b)) /\ ~(Len(a) + k <= Len(a))
        /\ (Len(a) + k) - Len(a) = k
    BY <1>2
  <2>2. (a \o b)[Len(a) + k] = b[(Len(a) + k) - Len(a)]
    BY <1>1, <2>1
  <2> QED
    BY <2>1, <2>2
<1>4. ASSUME NEW k \in 1..Len(a) PROVE (a \o b)[k] = a[k]
  <2>1. k \in 1..(Len(a) + Len(b)) /\ k <= Len(a)
    BY <1>2
  <2> QED
    BY <1>1, <2>1
<1> QED
  BY <1>1, <1>3, <1>4

\* The first i rows of a list
LEMMA FirstRows ==
    ASSUME NEW s \in Seq(Rows), NEW i \in Nat, i <= Len(s)
    PROVE  /\ SubSeq(s, 1, i) \in Seq(Rows) /\ Len(SubSeq(s, 1, i)) = i
           /\ \A k \in 1..i : SubSeq(s, 1, i)[k] = s[k]
<1>1. Len(s) \in Nat /\ \A k \in 1..i : s[k] \in Rows
  BY LenProperties, ElementOfSeq
<1>2. /\ SubSeq(s, 1, i) \in Seq(Rows)
      /\ Len(SubSeq(s, 1, i)) = IF 1 <= i THEN i - 1 + 1 ELSE 0
      /\ \A k \in 1..(i - 1 + 1) : SubSeq(s, 1, i)[k] = s[1 + k - 1]
  BY <1>1, SubSeqProperties
<1> QED
  BY <1>2

\* The rows after the first i
LEMMA LastRows ==
    ASSUME NEW s \in Seq(Rows), NEW i \in Nat, NEW n \in Nat, i <= n, n = Len(s)
    PROVE  /\ SubSeq(s, i + 1, n) \in Seq(Rows) /\ Len(SubSeq(s, i + 1, n)) = n - i
           /\ \A k \in 1..(n - i) : SubSeq(s, i + 1, n)[k] = s[i + k]
<1>1. \A k \in (i + 1)..n : s[k] \in Rows
  BY ElementOfSeq
<1>2. /\ SubSeq(s, i + 1, n) \in Seq(Rows)
      /\ Len(SubSeq(s, i + 1, n)) = IF i + 1 <= n THEN n - (i + 1) + 1 ELSE 0
      /\ \A k \in 1..(n - (i + 1) + 1) : SubSeq(s, i + 1, n)[k] = s[(i + 1) + k - 1]
  BY <1>1, SubSeqProperties
<1>3. ASSUME NEW k \in 1..(n - i) PROVE SubSeq(s, i + 1, n)[k] = s[i + k]
  <2>1. k \in 1..(n - (i + 1) + 1) /\ (i + 1) + k - 1 = i + k
    OBVIOUS
  <2> QED
    BY <1>2, <2>1
<1> QED
  BY <1>2, <1>3

\* A row is inserted at path i, where the model already has it.
LEMMA Inserted ==
    ASSUME ListInv, NEW i \in Nat, NEW n \in Nat, n = Len(view), i <= n, i < Len(filtered),
           RowInserted(i)
    PROVE  /\ view' \in Seq(Rows) /\ Len(view') = n + 1
           /\ \A k \in 1..i : view'[k] = view[k]
           /\ view'[i + 1] = filtered[i + 1]
           /\ \A k \in 1..(n - i) : view'[(i + 1) + k] = view[i + k]
<1> DEFINE before == SubSeq(view, 1, i)
           row == <<filtered[i + 1]>>
           after == SubSeq(view, i + 1, n)
<1>1. view \in Seq(Rows) /\ filtered[i + 1] \in Rows
  BY LenProperties, ElementOfSeq DEF ListInv
<1>2. view' = (before \o row) \o after
  <2>1. (IF i < n THEN i ELSE n) = i
    OBVIOUS
  <2>2. OnGetIter(i) = row
    BY DEF OnGetIter, ListInv
  <2> QED
    BY <2>1, <2>2 DEF RowInserted, Upto
<1>3. /\ before \in Seq(Rows) /\ Len(before) = i
      /\ \A k \in 1..i : before[k] = view[k]
  BY <1>1, FirstRows
<1>4. row \in Seq(Rows) /\ Len(row) = 1 /\ row[1] = filtered[i + 1]
  BY <1>1
<1>5. /\ after \in Seq(Rows) /\ Len(after) = n - i
      /\ \A k \in 1..(n - i) : after[k] = view[i + k]
  BY <1>1, LastRows
<1> HIDE DEF before, row, after
<1>6. n - i \in Nat /\ i + 1 \in Nat /\ 1 \in 1..1
  OBVIOUS
<1> DEFINE both == before \o row
<1>7. /\ both \in Seq(Rows) /\ Len(both) = i + 1
      /\ \A k \in 1..i : both[k] = before[k]
      /\ \A k \in 1..1 : both[i + k] = row[k]
  <2>1. /\ before \o row \in Seq(Rows)
        /\ Len(before \o row) = Len(before) + Len(row)
        /\ \A k \in 1..Len(before) : (before \o row)[k] = before[k]
        /\ \A k \in 1..Len(row) : (before \o row)[Len(before) + k] = row[k]
    BY <1>3, <1>4, Concat
  <2> QED
    BY <1>3, <1>4, <2>1
<1> HIDE DEF both
<1>8. /\ both \o after \in Seq(Rows) /\ Len(both \o after) = (i + 1) + (n - i)
      /\ \A k \in 1..(i + 1) : (both \o after)[k] = both[k]
      /\ \A k \in 1..(n - i) : (both \o after)[(i + 1) + k] = after[k]
  <2>1. /\ both \o after \in Seq(Rows)
        /\ Len(both \o after) = Len(both) + Len(after)
        /\ \A k \in 1..Len(both) : (both \o after)[k] = both[k]
        /\ \A k \in 1..Len(after) : (both \o after)[Len(both) + k] = after[k]
    BY <1>5, <1>7, Concat
  <2> QED
    BY <1>5, <1>7, <2>1
<1>9. view' = both \o after
  BY <1>2 DEF both
<1>10. ASSUME NEW k \in 1..i PROVE view'[k] = view[k]
  <2>1. k \in 1..(i + 1)
    OBVIOUS
  <2> QED
    BY <1>3, <1>7, <1>8, <1>9, <2>1
<1>11. view'[i + 1] = filtered[i + 1]
  <2>1. i + 1 \in 1..(i + 1)
    OBVIOUS
  <2>2. both[i + 1] = row[1]
    BY <1>6, <1>7
  <2> QED
    BY <1>4, <1>8, <1>9, <2>1, <2>2
<1>12. \A k \in 1..(n - i) : view'[(i + 1) + k] = view[i + k]
  BY <1>5, <1>8, <1>9
<1>13. (i + 1) + (n - i) = n + 1
  OBVIOUS
<1> QED
  BY <1>8, <1>9, <1>10, <1>11, <1>12, <1>13

\* The row at path i is deleted.
LEMMA Deleted ==
    ASSUME ListInv, NEW i \in Nat, NEW n \in Nat, n = Len(view), i < n, RowDeleted(i)
    PROVE  /\ view' \in Seq(Rows) /\ Len(view') = n - 1
           /\ \A k \in 1..i : view'[k] = view[k]
           /\ \A k \in 1..(n - (i + 1)) : view'[i + k] = view[(i + 1) + k]
<1> DEFINE before == SubSeq(view, 1, i)
           after == SubSeq(view, (i + 1) + 1, n)
<1>1. view \in Seq(Rows) /\ i + 1 \in Nat /\ i + 1 <= n /\ i <= n
  BY DEF ListInv
<1>2. view' = before \o after
  <2>1. (IF i < n THEN i ELSE n) = i /\ i + 2 = (i + 1) + 1
    OBVIOUS
  <2> QED
    BY <2>1 DEF RowDeleted, Upto
<1>3. /\ before \in Seq(Rows) /\ Len(before) = i
      /\ \A k \in 1..i : before[k] = view[k]
  BY <1>1, FirstRows
<1>4. /\ after \in Seq(Rows) /\ Len(after) = n - (i + 1)
      /\ \A k \in 1..(n - (i + 1)) : after[k] = view[(i + 1) + k]
  BY <1>1, LastRows
<1> HIDE DEF before, after
<1>5. n - (i + 1) \in Nat /\ i + (n - (i + 1)) = n - 1
  BY <1>1
<1>6. /\ before \o after \in Seq(Rows)
      /\ Len(before \o after) = Len(before) + Len(after)
      /\ \A k \in 1..Len(before) : (before \o after)[k] = before[k]
      /\ \A k \in 1..Len(after) : (before \o after)[Len(before) + k] = after[k]
  BY <1>3, <1>4, Concat
<1> QED
  BY <1>2, <1>3, <1>4, <1>5, <1>6

-----------------------------------------------------------------------------
(* The walk *)

\* There is one walk, and it goes on with v.
LEMMA OneWalk ==
    ASSUME NEW w, walks = <<w>>
    PROVE  /\ Walk = w /\ walks # <<>> /\ Front(walks) = <<>>
           /\ \A v : Append(Front(walks), v) = <<v>>
<1>1. Len(walks) = 1 /\ walks[1] = w /\ walks # <<>>
  OBVIOUS
<1>2. Front(walks) = <<>>
  BY <1>1, SubSeqEmpty DEF Front
<1>3. Walk = w
  BY <1>1 DEF Walk, Last
<1>4. \A v : Append(<<>>, v) = <<v>>
  OBVIOUS
<1> QED
  BY <1>1, <1>2, <1>3, <1>4

\* What the branches of the cond have in common
LEMMA Rest ==
    ASSUME NEW s \in Seq(Rows), s # <<>>
    PROVE  /\ Tail(s) \in Seq(Rows) /\ Len(s) \in Nat /\ Len(s) > 0
           /\ Len(Tail(s)) = Len(s) - 1 /\ Head(s) = s[1]
           /\ \A k \in 1..(Len(s) - 1) : Tail(s)[k] = s[k + 1]
  BY HeadTailProperties, LenProperties, EmptySeq

\* Taking the first row of what comes after path i
LEMMA NextRow ==
    ASSUME NEW s \in Seq(Rows), NEW t, NEW i \in Nat, s # <<>>,
           \A k \in 1..Len(s) : t[i + k] = s[k]
    PROVE  /\ t[i + 1] = Head(s)
           /\ \A k \in 1..Len(Tail(s)) : t[(i + 1) + k] = Tail(s)[k]
<1>1. /\ Len(s) \in Nat /\ Len(s) > 0 /\ Len(Tail(s)) = Len(s) - 1 /\ Head(s) = s[1]
      /\ \A k \in 1..(Len(s) - 1) : Tail(s)[k] = s[k + 1]
  BY Rest
<1>2. t[i + 1] = Head(s)
  <2>1. 1 \in 1..Len(s)
    BY <1>1
  <2> QED
    BY <1>1, <2>1
<1>3. ASSUME NEW k \in 1..Len(Tail(s)) PROVE t[(i + 1) + k] = Tail(s)[k]
  <2>1. k \in 1..(Len(s) - 1) /\ k + 1 \in 1..Len(s) /\ (i + 1) + k = i + (k + 1)
    BY <1>1
  <2>2. t[i + (k + 1)] = s[k + 1]
    BY <2>1
  <2> QED
    BY <1>1, <2>1, <2>2
<1> QED
  BY <1>2, <1>3

\* KeepRow, DropRow, InsertRow and SkipRow
LEMMA BranchSafe ==
    ASSUME ListInv, NEW l \in Seq(Rows), NEW old \in Seq(Rows), NEW new \in Seq(Rows), NEW i \in Nat,
           walks = <<WalkOf(l, old, new, i)>>, WalkInv(l, old, new, i),
           KeepRow \/ DropRow \/ InsertRow \/ SkipRow
    PROVE  ListInv'
<1>1. /\ Walk = WalkOf(l, old, new, i)
      /\ \A v : Append(Front(walks), v) = <<v>>
  BY OneWalk
<1>2. Walk.l = l /\ Walk.old = old /\ Walk.new = new /\ Walk.i = i
  BY <1>1 DEF WalkOf
<1>3. l # <<>> /\ UNCHANGED <<list, filtered, len>>
  BY <1>2 DEF KeepRow, DropRow, InsertRow, SkipRow, Walking
<1>4. Tail(l) \in Seq(Rows) /\ Len(old) \in Nat /\ Len(new) \in Nat /\ i + 1 \in Nat
  BY <1>3, Rest, LenProperties
<1>5. /\ Len(filtered) = i + Len(new) /\ \A k \in 1..Len(new) : filtered[i + k] = new[k]
      /\ Len(view) = i + Len(old) /\ \A k \in 1..Len(old) : view[i + k] = old[k]
      /\ \A k \in 1..i : view[k] = filtered[k]
  BY DEF WalkInv
<1>6. /\ Heads(old) => old # <<>> /\ Head(old) = Head(l) /\ Within(Tail(old), Tail(l))
      /\ ~Heads(old) => Within(old, Tail(l))
  BY <1>2, <1>3, WithinTail DEF Heads, WalkInv
<1>7. /\ Heads(new) => new # <<>> /\ Head(new) = Head(l) /\ Within(Tail(new), Tail(l))
      /\ ~Heads(new) => Within(new, Tail(l))
  BY <1>2, <1>3, WithinTail DEF Heads, WalkInv
<1>8. ASSUME NEW o \in Seq(Rows), NEW n \in Seq(Rows), NEW j \in Nat,
             Continue(o, n, j), WalkInv(Tail(l), o, n, j)', view' \in Seq(Rows)
      PROVE  ListInv'
  <2>1. walks' = <<WalkOf(Tail(l), o, n, j)>>
    BY <1>1, <1>2, <1>8 DEF Continue, WalkOf
  <2> QED
    BY <1>3, <1>4, <1>8, <2>1 DEF ListInv
<1>9. view \in Seq(Rows)
  BY DEF ListInv
<1>10. CASE KeepRow
  <2>1. /\ Heads(old) /\ Heads(new) /\ view' = view
        /\ Continue(Tail(old), Tail(new), i + 1)
    BY <1>2, <1>10 DEF KeepRow
  <2>2. /\ Tail(old) \in Seq(Rows) /\ Len(Tail(old)) = Len(old) - 1
        /\ Tail(new) \in Seq(Rows) /\ Len(Tail(new)) = Len(new) - 1
    BY <1>6, <1>7, <2>1, Rest
  <2>3. /\ view[i + 1] = Head(old)
        /\ \A k \in 1..Len(Tail(old)) : view[(i + 1) + k] = Tail(old)[k]
    BY <1>5, <1>6, <2>1, NextRow
  <2>4. /\ filtered[i + 1] = Head(new)
        /\ \A k \in 1..Len(Tail(new)) : filtered[(i + 1) + k] = Tail(new)[k]
    BY <1>5, <1>7, <2>1, NextRow
  <2>5. ASSUME NEW k \in 1..(i + 1) PROVE view[k] = filtered[k]
    <3>1. k = i + 1 \/ k \in 1..i
      OBVIOUS
    <3> QED
      BY <1>5, <1>6, <1>7, <2>1, <2>3, <2>4, <3>1
  <2>6. Len(filtered) = (i + 1) + Len(Tail(new)) /\ Len(view) = (i + 1) + Len(Tail(old))
    BY <1>4, <1>5, <2>2
  <2>7. WalkInv(Tail(l), Tail(old), Tail(new), i + 1)'
    BY <1>3, <1>6, <1>7, <2>1, <2>3, <2>4, <2>5, <2>6 DEF WalkInv
  <2> QED
    BY <1>4, <1>8, <1>9, <2>1, <2>2, <2>7
<1>11. CASE DropRow
  <2>1. /\ Heads(old) /\ ~Heads(new) /\ RowDeleted(i)
        /\ Continue(Tail(old), new, i)
    BY <1>2, <1>11 DEF DropRow
  <2>2. Tail(old) \in Seq(Rows) /\ Len(Tail(old)) = Len(old) - 1 /\ Len(old) > 0
    BY <1>6, <2>1, Rest
  <2>3. \A k \in 1..Len(Tail(old)) : view[(i + 1) + k] = Tail(old)[k]
    BY <1>5, <1>6, <2>1, NextRow
  <2>4. /\ Len(view) \in Nat /\ i < Len(view) /\ Len(view) - (i + 1) = Len(Tail(old))
        /\ Len(view) - 1 = i + Len(Tail(old))
    BY <1>4, <1>5, <2>2
  <2>5. /\ view' \in Seq(Rows) /\ Len(view') = Len(view) - 1
        /\ \A k \in 1..i : view'[k] = view[k]
        /\ \A k \in 1..(Len(view) - (i + 1)) : view'[i + k] = view[(i + 1) + k]
    BY <2>1, <2>4, Deleted
  <2>6. WalkInv(Tail(l), Tail(old), new, i)'
    BY <1>3, <1>5, <1>6, <1>7, <2>1, <2>3, <2>4, <2>5 DEF WalkInv
  <2> QED
    BY <1>8, <2>1, <2>2, <2>5, <2>6
<1>12. CASE InsertRow
  <2>1. /\ ~Heads(old) /\ Heads(new) /\ RowInserted(i)
        /\ Continue(old, Tail(new), i + 1)
    BY <1>2, <1>12 DEF InsertRow
  <2>2. Tail(new) \in Seq(Rows) /\ Len(Tail(new)) = Len(new) - 1 /\ Len(new) > 0
    BY <1>7, <2>1, Rest
  <2>3. \A k \in 1..Len(Tail(new)) : filtered[(i + 1) + k] = Tail(new)[k]
    BY <1>5, <1>7, <2>1, NextRow
  <2>4. /\ Len(view) \in Nat /\ i <= Len(view) /\ i < Len(filtered)
        /\ Len(view) - i = Len(old) /\ Len(view) + 1 = (i + 1) + Len(old)
        /\ Len(filtered) = (i + 1) + Len(Tail(new))
    BY <1>4, <1>5, <2>2
  <2>5. /\ view' \in Seq(Rows) /\ Len(view') = Len(view) + 1
        /\ \A k \in 1..i : view'[k] = view[k]
        /\ view'[i + 1] = filtered[i + 1]
        /\ \A k \in 1..(Len(view) - i) : view'[(i + 1) + k] = view[i + k]
    BY <2>1, <2>4, Inserted
  <2>6. ASSUME NEW k \in 1..(i + 1) PROVE view'[k] = filtered[k]
    <3>1. k = i + 1 \/ k \in 1..i
      OBVIOUS
    <3> QED
      BY <1>5, <2>5, <3>1
  <2>7. WalkInv(Tail(l), old, Tail(new), i + 1)'
    BY <1>3, <1>5, <1>6, <1>7, <2>1, <2>3, <2>4, <2>5, <2>6 DEF WalkInv
  <2> QED
    BY <1>4, <1>8, <2>1, <2>2, <2>5, <2>7
<1>13. CASE SkipRow
  <2>1. ~Heads(old) /\ ~Heads(new) /\ view' = view /\ Continue(old, new, i)
    BY <1>2, <1>13 DEF SkipRow
  <2>2. WalkInv(Tail(l), old, new, i)'
    BY <1>3, <1>5, <1>6, <1>7, <2>1 DEF WalkInv
  <2> QED
    BY <1>8, <1>9, <2>1, <2>2
<1> QED
  BY <1>10, <1>11, <1>12, <1>13

\* At the end of the list no old row is left, and no new one.
LEMMA EndWalkSafe ==
    ASSUME ListInv, NEW l \in Seq(Rows), NEW old \in Seq(Rows), NEW new \in Seq(Rows), NEW i \in Nat,
           walks = <<WalkOf(l, old, new, i)>>, WalkInv(l, old, new, i), EndWalk
    PROVE  ListInv'
<1>1. Walk = WalkOf(l, old, new, i) /\ Front(walks) = <<>>
  BY OneWalk
<1>2. Walk.l = l
  BY <1>1 DEF WalkOf
<1>3. l = <<>> /\ walks' = <<>> /\ UNCHANGED <<list, filtered, len, view>>
  BY <1>1, <1>2 DEF EndWalk
<1>4. old = <<>> /\ new = <<>>
  BY <1>3, WithinEmpty DEF WalkInv
<1>5. view = filtered
  <2>1. Len(old) = 0 /\ Len(new) = 0
    BY <1>4
  <2>2. Len(view) = i /\ Len(filtered) = i /\ \A k \in 1..i : view[k] = filtered[k]
    BY <2>1 DEF WalkInv
  <2>3. view \in Seq(Rows) /\ filtered \in Seq(Rows)
    BY DEF ListInv
  <2> QED
    BY <2>2, <2>3, SeqEqual
<1> QED
  BY <1>3, <1>5 DEF ListInv

\* Lists are lists.
LEMMA ListsType == \A l \in Lists : l \in Seq(Rows)
  BY FilteredListAssumption DEF Lists, BoundedSeq, SeqOf

\* The program sets a list or a filter, while no walk is in progress.
LEMMA ProgramSafe ==
    ASSUME Tame, ListInv, NEW l \in Lists, SetList(l) \/ SetFilter(l)
    PROVE  ListInv'
<1>1. l \in Seq(Rows)
  BY ListsType
<1>2. walks = <<>> /\ view = filtered
  <2>1. \A w : Len(<<w>>) = 1
    OBVIOUS
  <2>2. walks = <<>> \/ Len(walks) < 1
    BY DEF Tame, SetList, SetFilter
  <2>3. ~(\E w : walks = <<w>>)
    BY <2>1, <2>2
  <2> QED
    BY <2>3 DEF ListInv
<1>3. CASE SetList(l)
  BY <1>1, <1>2, <1>3 DEF Tame, ListInv, SetList
<1>4. CASE SetFilter(l)
  <2>1. /\ Within(l, list) /\ filtered' = l /\ len' = Len(l)
        /\ UNCHANGED <<list, view>>
    BY <1>4 DEF SetFilter
  <2>2. /\ list \in Seq(Rows) /\ filtered \in Seq(Rows) /\ Within(filtered, list)
        /\ view \in Seq(Rows)
    BY DEF ListInv
  <2>3. PICK all \in Seq(Rows), old \in Seq(Rows) : all = list /\ old = filtered
    BY <2>2
  <2>4. walks' = <<WalkOf(all, old, l, 0)>>
    <3>1. \A v : Append(<<>>, v) = <<v>>
      OBVIOUS
    <3> QED
      BY <1>2, <1>4, <2>1, <2>3, <3>1 DEF SetFilter, WalkOf
  <2>5. /\ Len(l) = 0 + Len(l) /\ \A k \in 1..Len(l) : l[0 + k] = l[k]
        /\ Len(old) = 0 + Len(old) /\ \A k \in 1..Len(old) : old[0 + k] = old[k]
    BY <1>1, LenProperties
  <2>6. WalkInv(all, old, l, 0)'
    BY <1>2, <2>1, <2>2, <2>3, <2>5 DEF WalkInv
  <2>7. 0 \in Nat
    OBVIOUS
  <2> QED
    BY <1>1, <2>1, <2>2, <2>4, <2>6, <2>7 DEF ListInv
<1> QED
  BY <1>3, <1>4

-----------------------------------------------------------------------------
\* At the start there are no rows.
LEMMA ListInitSafe == ListInit => ListInv
<1>1. <<>> \in Seq(Rows) /\ Within(<<>>, <<>>)
  BY EmptyWithin, EmptySeq
<1> QED
  BY <1>1 DEF ListInit, ListInv

\* Every step keeps it.
LEMMA ListStepSafe == Tame /\ ListInv /\ [ListNext]_listVars => ListInv'
<1> SUFFICES ASSUME Tame, ListInv, [ListNext]_listVars PROVE ListInv'
  OBVIOUS
<1>1. CASE \E l \in Lists : SetList(l) \/ SetFilter(l)
  BY <1>1, ProgramSafe
<1>2. CASE Step
  <2>1. walks # <<>>
    BY <1>2 DEF Step, KeepRow, DropRow, InsertRow, SkipRow, EndWalk, Walking
  <2>2. PICK l \in Seq(Rows), old \in Seq(Rows), new \in Seq(Rows), i \in Nat :
             walks = <<WalkOf(l, old, new, i)>> /\ WalkInv(l, old, new, i)
    BY <2>1 DEF ListInv
  <2>3. CASE KeepRow \/ DropRow \/ InsertRow \/ SkipRow
    BY <2>2, <2>3, BranchSafe
  <2>4. CASE EndWalk
    BY <2>2, <2>4, EndWalkSafe
  <2> QED
    BY <1>2, <2>3, <2>4 DEF Step
<1>3. CASE UNCHANGED listVars
  BY <1>3 DEF listVars, ListInv, WalkInv, WalkOf
<1> QED
  BY <1>1, <1>2, <1>3 DEF ListNext

\* The invariant holds throughout.
LEMMA ListInvariant == ASSUME Tame PROVE ListSpec => []ListInv
<1>1. ListInv /\ [ListNext]_listVars => ListInv'
  BY ListStepSafe
<1> QED
  BY <1>1, ListInitSafe, PTL DEF ListSpec

-----------------------------------------------------------------------------
\* When set-filter is done, the listener has the rows that the model has.
THEOREM ListenerUpToDate == ASSUME Tame PROVE ListSpec => []ViewMatches
<1>1. ListInv => ViewMatches
  BY DEF ListInv, ViewMatches
<1> QED
  BY <1>1, ListInvariant, PTL

\* Each of set-filter's signals is one that the listener can follow.
THEOREM SignalsAreFollowed == ASSUME Tame PROVE ListSpec => []SignalsFit
<1>1. ASSUME ListInv, walks # <<>>
      PROVE  Walk.i <= Len(view) /\ view = SubSeq(filtered, 1, Walk.i) \o Walk.old
  <2>1. PICK l \in Seq(Rows), old \in Seq(Rows), new \in Seq(Rows), i \in Nat :
             walks = <<WalkOf(l, old, new, i)>> /\ WalkInv(l, old, new, i)
    BY <1>1 DEF ListInv
  <2>2. Walk.i = i /\ Walk.old = old
    <3>1. Walk = WalkOf(l, old, new, i)
      BY <2>1, OneWalk
    <3> QED
      BY <3>1 DEF WalkOf
  <2>3. view \in Seq(Rows) /\ filtered \in Seq(Rows) /\ Len(old) \in Nat /\ Len(new) \in Nat
    BY <1>1, LenProperties DEF ListInv
  <2>4. /\ Len(filtered) = i + Len(new) /\ Len(view) = i + Len(old)
        /\ \A k \in 1..i : view[k] = filtered[k]
        /\ \A k \in 1..Len(old) : view[i + k] = old[k]
    BY <2>1 DEF WalkInv
  <2>5. i <= Len(view) /\ i <= Len(filtered)
    BY <2>3, <2>4
  <2> DEFINE shown == SubSeq(filtered, 1, i)
  <2>6. /\ shown \in Seq(Rows) /\ Len(shown) = i
        /\ \A k \in 1..i : shown[k] = filtered[k]
    BY <2>3, <2>5, FirstRows
  <2> HIDE DEF shown
  <2>7. /\ shown \o old \in Seq(Rows) /\ Len(shown \o old) = i + Len(old)
        /\ \A k \in 1..i : (shown \o old)[k] = shown[k]
        /\ \A k \in 1..Len(old) : (shown \o old)[i + k] = old[k]
    <3>1. /\ shown \o old \in Seq(Rows)
          /\ Len(shown \o old) = Len(shown) + Len(old)
          /\ \A k \in 1..Len(shown) : (shown \o old)[k] = shown[k]
          /\ \A k \in 1..Len(old) : (shown \o old)[Len(shown) + k] = old[k]
      BY <2>6, Concat
    <3> QED
      BY <2>6, <3>1
  <2>8. ASSUME NEW k \in 1..(i + Len(old)) PROVE view[k] = (shown \o old)[k]
    <3>1. CASE k \in 1..i
      BY <2>4, <2>6, <2>7, <3>1
    <3>2. CASE k \notin 1..i
      <4>1. k - i \in 1..Len(old) /\ i + (k - i) = k
        BY <2>3, <3>2
      <4>2. view[i + (k - i)] = old[k - i] /\ (shown \o old)[i + (k - i)] = old[k - i]
        BY <2>4, <2>7, <4>1
      <4> QED
        BY <4>1, <4>2
    <3> QED
      BY <3>1, <3>2
  <2>9. view = shown \o old
    BY <2>3, <2>4, <2>7, <2>8, SeqEqual
  <2> QED
    BY <2>2, <2>5, <2>9 DEF shown
<1>2. ListInv => SignalsFit
  BY <1>1 DEF SignalsFit
<1> QED
  BY <1>2, ListInvariant, PTL
================================================================================
