------------------------ MODULE CorbaServantsProofs ------------------------
(***************************************************************************)
(* For any interfaces, imodules, types, classes and servants: an interface *)
(* serves the operations of the ancestors that were registered before it,  *)
(* the classes of the stubs and the tables of the skeletons agree, the     *)
(* methods of a program are found, a servant whose method runs is not      *)
(* freed, and an enumeration keeps its GType until an alias comes.         *)
(*                                                                         *)
(* Everything is folded out of sequences here, and a fold is the recursion *)
(* of FoldLeft on sets of positions.  The first part shows that it has a   *)
(* solution (FoldExists), and turns each fold into a run from position 0   *)
(* to the last, on which an invariant can be followed (AllAlong).  The     *)
(* second shows what merging precedence lists gives (LinearizeIs).  On     *)
(* these, registering an interface keeps the tables in order (TableInv),   *)
(* opening an imodule keeps the types (OpenTypes), and the calls keep a    *)
(* stack whose servants live.                                              *)
(***************************************************************************)
EXTENDS CorbaServants, FiniteSetTheorems, SequenceTheorems, WellFoundedInduction, TLAPS

\* base_interfaces has the bases of each base, too.
AllBases ==
    \A i \in Interfaces : \A b \in ToSet(Bases[i]) : ToSet(Bases[b]) \subseteq ToSet(Bases[i])

\* a stands before b in a list.
Precedes(list, a, b) == \E j, k \in DOMAIN list : j < k /\ list[j] = a /\ list[k] = b

\* The list of a class has no class twice, and the lists of its classes in
\* their order.
ListsInv(lists) ==
    \A c \in Known(lists) :
        /\ IsInjective(lists[c])
        /\ \A d \in ToSet(lists[c]) :
              /\ ToSet(lists[d]) \subseteq ToSet(lists[c])
              /\ \A a, b \in AllClasses : Precedes(lists[d], a, b) => Precedes(lists[c], a, b)

-----------------------------------------------------------------------------
(* Numbers and folds *)

\* Every set of numbers has a least one.
LEMMA MinNumber ==
    ASSUME NEW T \in SUBSET Nat, T # {}
    PROVE  Min(T) \in T /\ \A y \in T : Min(T) <= y
<1> DEFINE R == OpToRel(<, Nat)
<1>1. IsWellFoundedOn(R, Nat)
  BY NatLessThanWellFounded
<1>2. T \subseteq Nat
  OBVIOUS
<1>3. \A x, y \in Nat : <<y, x>> \in R <=> y < x
  BY DEF OpToRel
<1> HIDE DEF R
<1>4. \E x \in T : \A y \in T : ~(<<y, x>> \in R)
  BY <1>1, <1>2, WFMin
<1>5. PICK x \in T : \A y \in T : ~(<<y, x>> \in R)
  BY <1>4
<1>6. ASSUME NEW y \in T PROVE x <= y
  <2>1. x \in Nat /\ y \in Nat /\ ~(y < x)
    BY <1>2, <1>3, <1>5
  <2> QED
    BY <2>1
<1> QED
  BY <1>6 DEF Min

\* The only greatest one is its Max.
LEMMA MaxIs ==
    ASSUME NEW T \in SUBSET Nat, NEW x \in T, \A y \in T : x >= y
    PROVE  Max(T) = x
<1>1. Max(T) \in T /\ \A y \in T : Max(T) >= y
  BY DEF Max
<1>2. Max(T) \in Nat /\ x \in Nat /\ Max(T) >= x /\ x >= Max(T)
  BY <1>1
<1> QED
  BY <1>2

\* A set that has 0, and the next of each of its numbers, has all numbers.
LEMMA Induction ==
    ASSUME NEW T, 0 \in T, \A n \in Nat : n \in T => n + 1 \in T
    PROVE  Nat \subseteq T
<1> SUFFICES ASSUME Nat \ T # {} PROVE FALSE
  OBVIOUS
<1>1. PICK x \in Nat \ T : \A y \in Nat \ T : x <= y
  BY MinNumber
<1>2. x # 0 /\ x - 1 \in Nat
  BY <1>1
<1>3. x - 1 \in T
  BY <1>1, <1>2
<1> QED
  BY <1>1, <1>2, <1>3

\* A step function on sets of positions: the recursion of FoldLeft
Recursive(it, F, base, s, D) ==
    \A t \in SUBSET D :
        it[t] = IF t = {} THEN base ELSE F[<<it[t \ {Max(t)}], s[Max(t)]>>]

\* The recursion of FoldLeft has a solution.
LEMMA FoldExists ==
    ASSUME NEW T, NEW X, NEW F \in [T \X X -> T], NEW base \in T, NEW s \in Seq(X)
    PROVE  \E it \in [SUBSET (DOMAIN s) -> T] : Recursive(it, F, base, s, DOMAIN s)
<1> DEFINE h == Len(s)
           Solved(n) == \E it \in [SUBSET (1..n) -> T] : Recursive(it, F, base, s, 1..n)
           Good == {n \in Nat : n <= h => Solved(n)}
<1>1. h \in Nat /\ DOMAIN s = 1..h
  OBVIOUS
<1>2. 0 \in Good
  <2> DEFINE it == [t \in SUBSET (1..0) |-> base]
  <2>1. 1..0 = {}
    OBVIOUS
  <2>2. it \in [SUBSET (1..0) -> T] /\ \A t \in SUBSET (1..0) : t = {} /\ it[t] = base
    BY <2>1
  <2> HIDE DEF it
  <2>3. Recursive(it, F, base, s, 1..0)
    BY <2>2 DEF Recursive
  <2> QED
    BY <2>2, <2>3, <1>1
<1>3. ASSUME NEW n \in Nat, n \in Good PROVE n + 1 \in Good
  <2> HIDE DEF h, Solved
  <2> SUFFICES ASSUME n + 1 <= h PROVE Solved(n + 1)
    BY <1>3
  <2>0. Solved(n)
    BY <1>1, <1>3
  <2>1. PICK old \in [SUBSET (1..n) -> T] : Recursive(old, F, base, s, 1..n)
    BY <2>0 DEF Solved
  <2>2. n + 1 \in DOMAIN s /\ s[n + 1] \in X
    BY <1>1
  <2> DEFINE it == [t \in SUBSET (1..(n + 1)) |->
                      IF n + 1 \in t THEN F[<<old[t \ {n + 1}], s[n + 1]>>] ELSE old[t]]
  <2>3. \A t \in SUBSET (1..(n + 1)) : t \ {n + 1} \in SUBSET (1..n)
    OBVIOUS
  <2>4. \A t \in SUBSET (1..(n + 1)) : n + 1 \notin t => t \in SUBSET (1..n)
    OBVIOUS
  <2>5. it \in [SUBSET (1..(n + 1)) -> T]
    BY <2>2, <2>3, <2>4
  <2>6. ASSUME NEW t \in SUBSET (1..(n + 1)), t # {}
        PROVE it[t] = F[<<it[t \ {Max(t)}], s[Max(t)]>>]
    <3>1. CASE n + 1 \in t
      <4>1. Max(t) = n + 1
        <5>1. t \in SUBSET Nat /\ \A y \in t : n + 1 >= y
          OBVIOUS
        <5> QED
          BY <3>1, <5>1, MaxIs
      <4>2. t \ {n + 1} \in SUBSET (1..(n + 1)) /\ t \ {n + 1} \in SUBSET (1..n)
        BY <2>3
      <4>3. it[t \ {n + 1}] = old[t \ {n + 1}]
        BY <4>2
      <4> QED
        BY <3>1, <4>1, <4>3
    <3>2. CASE n + 1 \notin t
      <4>1. t \in SUBSET (1..n) /\ t \ {Max(t)} \in SUBSET (1..n)
        BY <2>4, <3>2
      <4>2. it[t] = old[t] /\ it[t \ {Max(t)}] = old[t \ {Max(t)}]
        BY <3>2, <4>1
      <4> QED
        BY <2>1, <2>6, <4>1, <4>2 DEF Recursive
    <3> QED
      BY <3>1, <3>2
  <2>7. it[{}] = base
    BY <2>1 DEF Recursive
  <2> HIDE DEF it
  <2>8. Recursive(it, F, base, s, 1..(n + 1))
    BY <2>6, <2>7 DEF Recursive
  <2> QED
    BY <2>5, <2>8 DEF Solved
<1> HIDE DEF Good
<1>4. h \in Good
  BY <1>1, <1>2, <1>3, Induction
<1> HIDE DEF h, Solved
<1>5. Solved(h)
  BY <1>1, <1>4 DEF Good
<1> QED
  BY <1>1, <1>5 DEF Solved

\* Its value on the first k positions is the fold so far.
LEMMA Prefix ==
    ASSUME NEW n \in Nat, NEW k \in 1..n
    PROVE  /\ 1..k \in SUBSET (1..n) /\ 1..k # {} /\ 1..(k - 1) \in SUBSET (1..n)
           /\ Max(1..k) = k /\ (1..k) \ {k} = 1..(k - 1)
<1>1. 1..k \in SUBSET Nat /\ k \in 1..k /\ \A y \in 1..k : k >= y
  OBVIOUS
<1> QED
  BY <1>1, MaxIs

\* A set of positions has its Max.
LEMMA MaxNumber ==
    ASSUME NEW n \in Nat, NEW T \in SUBSET (1..n), T # {}
    PROVE  Max(T) \in T
<1> DEFINE Above == {u \in Nat : \A y \in T : u >= y}
<1>1. n \in Above /\ Above \in SUBSET Nat
  OBVIOUS
<1>2. PICK u \in Above : \A w \in Above : u <= w
  BY <1>1, MinNumber
<1>3. u \in T
  <2> SUFFICES ASSUME u \notin T PROVE FALSE
    OBVIOUS
  <2>1. \A y \in T : y \in Nat /\ u >= y /\ u # y
    OBVIOUS
  <2>2. u \in Nat /\ u # 0
    <3>1. PICK y \in T : TRUE
      OBVIOUS
    <3>2. y >= 1 /\ y \in Nat /\ u >= y
      BY <2>1
    <3> QED
      BY <3>2
  <2>3. u - 1 \in Above
    BY <2>1, <2>2
  <2> HIDE DEF Above
  <2> QED
    BY <1>2, <2>2, <2>3
<1> QED
  BY <1>3, MaxIs

\* What holds of the base and is kept by each step holds all along.
LEMMA AllAlong ==
    ASSUME NEW T, NEW n \in Nat, NEW h, h[0] \in T,
           \A k \in 1..n : h[k - 1] \in T => h[k] \in T
    PROVE  \A k \in 0..n : h[k] \in T
<1> DEFINE Good == {k \in Nat : k <= n => h[k] \in T}
<1>1. 0 \in Good
  OBVIOUS
<1>2. ASSUME NEW k \in Nat, k \in Good PROVE k + 1 \in Good
  <2> SUFFICES ASSUME k + 1 <= n PROVE h[k + 1] \in T
    OBVIOUS
  <2>1. k + 1 \in 1..n /\ (k + 1) - 1 = k /\ h[k] \in T
    BY <1>2
  <2> QED
    BY <2>1
<1>3. Nat \subseteq Good
  <2> HIDE DEF Good
  <2> QED
    BY <1>1, <1>2, Induction
<1> QED
  BY <1>3

\* Registering interfaces one by one
RegisterAll(base, s) == FoldLeft(RegisterInterface, base, s)

\* and the results on the way
RegisterRun(h, base, s) ==
    /\ h[0] = base /\ h[Len(s)] = RegisterAll(base, s)
    /\ \A k \in 1..Len(s) : h[k] = RegisterInterface(h[k - 1], s[k])

\* Steps that stay in a set make a run in it.
LEMMA RegisterSteps ==
    ASSUME NEW T, NEW base \in T, NEW s \in Seq(Interfaces),
           \A m \in T, x \in Interfaces : RegisterInterface(m, x) \in T
    PROVE  \E h \in [0..Len(s) -> T] : RegisterRun(h, base, s)
<1> DEFINE D == DOMAIN s
           n == Len(s)
           F == [p \in T \X Interfaces |-> RegisterInterface(p[1], p[2])]
           Equation(it) ==
               it = [t \in SUBSET D |->
                        IF t = {} THEN base ELSE RegisterInterface(it[t \ {Max(t)}], s[Max(t)])]
           it == CHOOSE it : Equation(it)
           h == [k \in 0..n |-> it[1..k]]
<1>1. n \in Nat /\ D = 1..n /\ \A k \in 1..n : s[k] \in Interfaces
  OBVIOUS
<1>2. RegisterAll(base, s) = it[D]
  BY DEF RegisterAll, FoldLeft, MapThenFoldSet
<1>3. /\ F \in [T \X Interfaces -> T]
      /\ \A m \in T, x \in Interfaces : F[<<m, x>>] = RegisterInterface(m, x)
  OBVIOUS
<1> HIDE DEF F, n, Equation
<1>4. PICK some \in [SUBSET D -> T] : Recursive(some, F, base, s, D)
  BY <1>3, FoldExists
<1>5. Equation(some)
  <2>1. ASSUME NEW t \in SUBSET D, t # {}
        PROVE some[t] = RegisterInterface(some[t \ {Max(t)}], s[Max(t)])
    <3>1. Max(t) \in D /\ t \ {Max(t)} \in SUBSET D
      BY <1>1, <2>1, MaxNumber
    <3>2. some[t \ {Max(t)}] \in T /\ s[Max(t)] \in Interfaces
      BY <1>1, <3>1
    <3>3. some[t] = F[<<some[t \ {Max(t)}], s[Max(t)]>>]
      BY <1>4, <2>1 DEF Recursive
    <3> QED
      BY <1>3, <3>2, <3>3
  <2>2. some[{}] = base
    BY <1>4 DEF Recursive
  <2> HIDE DEF D
  <2> QED
    BY <2>1, <2>2 DEF Equation
<1>6. Equation(it)
  BY <1>5
<1> HIDE DEF it
<1>7. h[0] = base
  <2>1. 1..0 = {} /\ 0 \in 0..n
    BY <1>1
  <2> QED
    BY <1>6, <2>1 DEF Equation
<1>8. ASSUME NEW k \in 1..n PROVE h[k] = RegisterInterface(h[k - 1], s[k])
  <2>1. /\ 1..k \in SUBSET D /\ 1..k # {} /\ 1..(k - 1) \in SUBSET D
        /\ Max(1..k) = k /\ (1..k) \ {k} = 1..(k - 1)
    BY <1>1, Prefix
  <2>2. k \in 0..n /\ k - 1 \in 0..n
    BY <1>1
  <2>3. h[k] = it[1..k] /\ h[k - 1] = it[1..(k - 1)]
    BY <2>2
  <2> HIDE DEF h
  <2>4. it[1..k] = RegisterInterface(it[(1..k) \ {Max(1..k)}], s[Max(1..k)])
    BY <1>6, <2>1 DEF Equation
  <2> QED
    BY <2>1, <2>3, <2>4
<1>9. h[n] = it[D]
  BY <1>1
<1>10. h = [k \in 0..n |-> h[k]]
  OBVIOUS
<1> HIDE DEF h
<1>11. \A k \in 0..n : h[k] \in T
  <2>1. ASSUME NEW k \in 1..n, h[k - 1] \in T PROVE h[k] \in T
    BY <1>1, <1>8, <2>1
  <2> QED
    BY <1>1, <1>7, <2>1, AllAlong
<1>12. h \in [0..n -> T]
  BY <1>10, <1>11
<1> QED
  BY <1>2, <1>7, <1>8, <1>9, <1>12 DEF n, RegisterRun

\* Registering types one by one
TypeAll(base, s) == FoldLeft(TypecodeToType, base, s)

\* and the results on the way
TypeRun(h, base, s) ==
    /\ h[0] = base /\ h[Len(s)] = TypeAll(base, s)
    /\ \A k \in 1..Len(s) : h[k] = TypecodeToType(h[k - 1], s[k])

\* Steps that stay in a set make a run in it.
LEMMA TypeSteps ==
    ASSUME NEW T, NEW base \in T, NEW s \in Seq(Types),
           \A m \in T, x \in Types : TypecodeToType(m, x) \in T
    PROVE  \E h \in [0..Len(s) -> T] : TypeRun(h, base, s)
<1> DEFINE D == DOMAIN s
           n == Len(s)
           F == [p \in T \X Types |-> TypecodeToType(p[1], p[2])]
           Equation(it) ==
               it = [t \in SUBSET D |->
                        IF t = {} THEN base ELSE TypecodeToType(it[t \ {Max(t)}], s[Max(t)])]
           it == CHOOSE it : Equation(it)
           h == [k \in 0..n |-> it[1..k]]
<1>1. n \in Nat /\ D = 1..n /\ \A k \in 1..n : s[k] \in Types
  OBVIOUS
<1>2. TypeAll(base, s) = it[D]
  BY DEF TypeAll, FoldLeft, MapThenFoldSet
<1>3. /\ F \in [T \X Types -> T]
      /\ \A m \in T, x \in Types : F[<<m, x>>] = TypecodeToType(m, x)
  OBVIOUS
<1> HIDE DEF F, n, Equation
<1>4. PICK some \in [SUBSET D -> T] : Recursive(some, F, base, s, D)
  BY <1>3, FoldExists
<1>5. Equation(some)
  <2>1. ASSUME NEW t \in SUBSET D, t # {}
        PROVE some[t] = TypecodeToType(some[t \ {Max(t)}], s[Max(t)])
    <3>1. Max(t) \in D /\ t \ {Max(t)} \in SUBSET D
      BY <1>1, <2>1, MaxNumber
    <3>2. some[t \ {Max(t)}] \in T /\ s[Max(t)] \in Types
      BY <1>1, <3>1
    <3>3. some[t] = F[<<some[t \ {Max(t)}], s[Max(t)]>>]
      BY <1>4, <2>1 DEF Recursive
    <3> QED
      BY <1>3, <3>2, <3>3
  <2>2. some[{}] = base
    BY <1>4 DEF Recursive
  <2> HIDE DEF D
  <2> QED
    BY <2>1, <2>2 DEF Equation
<1>6. Equation(it)
  BY <1>5
<1> HIDE DEF it
<1>7. h[0] = base
  <2>1. 1..0 = {} /\ 0 \in 0..n
    BY <1>1
  <2> QED
    BY <1>6, <2>1 DEF Equation
<1>8. ASSUME NEW k \in 1..n PROVE h[k] = TypecodeToType(h[k - 1], s[k])
  <2>1. /\ 1..k \in SUBSET D /\ 1..k # {} /\ 1..(k - 1) \in SUBSET D
        /\ Max(1..k) = k /\ (1..k) \ {k} = 1..(k - 1)
    BY <1>1, Prefix
  <2>2. k \in 0..n /\ k - 1 \in 0..n
    BY <1>1
  <2>3. h[k] = it[1..k] /\ h[k - 1] = it[1..(k - 1)]
    BY <2>2
  <2> HIDE DEF h
  <2>4. it[1..k] = TypecodeToType(it[(1..k) \ {Max(1..k)}], s[Max(1..k)])
    BY <1>6, <2>1 DEF Equation
  <2> QED
    BY <2>1, <2>3, <2>4
<1>9. h[n] = it[D]
  BY <1>1
<1>10. h = [k \in 0..n |-> h[k]]
  OBVIOUS
<1> HIDE DEF h
<1>11. \A k \in 0..n : h[k] \in T
  <2>1. ASSUME NEW k \in 1..n, h[k - 1] \in T PROVE h[k] \in T
    BY <1>1, <1>8, <2>1
  <2> QED
    BY <1>1, <1>7, <2>1, AllAlong
<1>12. h \in [0..n -> T]
  BY <1>10, <1>11
<1> QED
  BY <1>2, <1>7, <1>8, <1>9, <1>12 DEF n, TypeRun

\* A base that is known goes before the parents so far.
WithBase(known, parents, b) == IF b \in known THEN <<b>> \o parents ELSE parents

\* Collecting the parents base by base
ParentAll(known, base, s) == FoldLeft(LAMBDA parents, b : WithBase(known, parents, b), base, s)

\* and the results on the way
ParentRun(known, h, base, s) ==
    /\ h[0] = base /\ h[Len(s)] = ParentAll(known, base, s)
    /\ \A k \in 1..Len(s) : h[k] = WithBase(known, h[k - 1], s[k])

\* Steps that stay in a set make a run in it.
LEMMA ParentSteps ==
    ASSUME NEW known, NEW T, NEW base \in T, NEW s \in Seq(Interfaces),
           \A m \in T, x \in Interfaces : WithBase(known, m, x) \in T
    PROVE  \E h \in [0..Len(s) -> T] : ParentRun(known, h, base, s)
<1> DEFINE D == DOMAIN s
           n == Len(s)
           F == [p \in T \X Interfaces |-> WithBase(known, p[1], p[2])]
           Equation(it) ==
               it = [t \in SUBSET D |->
                        IF t = {} THEN base ELSE WithBase(known, it[t \ {Max(t)}], s[Max(t)])]
           it == CHOOSE it : Equation(it)
           h == [k \in 0..n |-> it[1..k]]
<1>1. n \in Nat /\ D = 1..n /\ \A k \in 1..n : s[k] \in Interfaces
  OBVIOUS
<1>2. ParentAll(known, base, s) = it[D]
  BY DEF ParentAll, FoldLeft, MapThenFoldSet
<1>3. /\ F \in [T \X Interfaces -> T]
      /\ \A m \in T, x \in Interfaces : F[<<m, x>>] = WithBase(known, m, x)
  OBVIOUS
<1> HIDE DEF F, n, Equation
<1>4. PICK some \in [SUBSET D -> T] : Recursive(some, F, base, s, D)
  BY <1>3, FoldExists
<1>5. Equation(some)
  <2>1. ASSUME NEW t \in SUBSET D, t # {}
        PROVE some[t] = WithBase(known, some[t \ {Max(t)}], s[Max(t)])
    <3>1. Max(t) \in D /\ t \ {Max(t)} \in SUBSET D
      BY <1>1, <2>1, MaxNumber
    <3>2. some[t \ {Max(t)}] \in T /\ s[Max(t)] \in Interfaces
      BY <1>1, <3>1
    <3>3. some[t] = F[<<some[t \ {Max(t)}], s[Max(t)]>>]
      BY <1>4, <2>1 DEF Recursive
    <3> QED
      BY <1>3, <3>2, <3>3
  <2>2. some[{}] = base
    BY <1>4 DEF Recursive
  <2> HIDE DEF D
  <2> QED
    BY <2>1, <2>2 DEF Equation
<1>6. Equation(it)
  BY <1>5
<1> HIDE DEF it
<1>7. h[0] = base
  <2>1. 1..0 = {} /\ 0 \in 0..n
    BY <1>1
  <2> QED
    BY <1>6, <2>1 DEF Equation
<1>8. ASSUME NEW k \in 1..n PROVE h[k] = WithBase(known, h[k - 1], s[k])
  <2>1. /\ 1..k \in SUBSET D /\ 1..k # {} /\ 1..(k - 1) \in SUBSET D
        /\ Max(1..k) = k /\ (1..k) \ {k} = 1..(k - 1)
    BY <1>1, Prefix
  <2>2. k \in 0..n /\ k - 1 \in 0..n
    BY <1>1
  <2>3. h[k] = it[1..k] /\ h[k - 1] = it[1..(k - 1)]
    BY <2>2
  <2> HIDE DEF h
  <2>4. it[1..k] = WithBase(known, it[(1..k) \ {Max(1..k)}], s[Max(1..k)])
    BY <1>6, <2>1 DEF Equation
  <2> QED
    BY <2>1, <2>3, <2>4
<1>9. h[n] = it[D]
  BY <1>1
<1>10. h = [k \in 0..n |-> h[k]]
  OBVIOUS
<1> HIDE DEF h
<1>11. \A k \in 0..n : h[k] \in T
  <2>1. ASSUME NEW k \in 1..n, h[k - 1] \in T PROVE h[k] \in T
    BY <1>1, <1>8, <2>1
  <2> QED
    BY <1>1, <1>7, <2>1, AllAlong
<1>12. h \in [0..n -> T]
  BY <1>10, <1>11
<1> QED
  BY <1>2, <1>7, <1>8, <1>9, <1>12 DEF n, ParentRun

\* Merging class by class
MergeAll(base, s) == FoldLeft(LAMBDA m, k : MergeStep(m), base, s)

\* and the results on the way
MergeRun(h, base, s) ==
    /\ h[0] = base /\ h[Len(s)] = MergeAll(base, s)
    /\ \A k \in 1..Len(s) : h[k] = MergeStep(h[k - 1])

\* Steps that stay in a set make a run in it.
LEMMA MergeSteps ==
    ASSUME NEW T, NEW base \in T, NEW s \in Seq(Nat),
           \A m \in T, x \in Nat : MergeStep(m) \in T
    PROVE  \E h \in [0..Len(s) -> T] : MergeRun(h, base, s)
<1> DEFINE D == DOMAIN s
           n == Len(s)
           F == [p \in T \X Nat |-> MergeStep(p[1])]
           Equation(it) ==
               it = [t \in SUBSET D |->
                        IF t = {} THEN base ELSE MergeStep(it[t \ {Max(t)}])]
           it == CHOOSE it : Equation(it)
           h == [k \in 0..n |-> it[1..k]]
<1>1. n \in Nat /\ D = 1..n /\ \A k \in 1..n : s[k] \in Nat
  OBVIOUS
<1>2. MergeAll(base, s) = it[D]
  BY DEF MergeAll, FoldLeft, MapThenFoldSet
<1>3. /\ F \in [T \X Nat -> T]
      /\ \A m \in T, x \in Nat : F[<<m, x>>] = MergeStep(m)
  OBVIOUS
<1> HIDE DEF F, n, Equation
<1>4. PICK some \in [SUBSET D -> T] : Recursive(some, F, base, s, D)
  BY <1>3, FoldExists
<1>5. Equation(some)
  <2>1. ASSUME NEW t \in SUBSET D, t # {}
        PROVE some[t] = MergeStep(some[t \ {Max(t)}])
    <3>1. Max(t) \in D /\ t \ {Max(t)} \in SUBSET D
      BY <1>1, <2>1, MaxNumber
    <3>2. some[t \ {Max(t)}] \in T /\ s[Max(t)] \in Nat
      BY <1>1, <3>1
    <3>3. some[t] = F[<<some[t \ {Max(t)}], s[Max(t)]>>]
      BY <1>4, <2>1 DEF Recursive
    <3> QED
      BY <1>3, <3>2, <3>3
  <2>2. some[{}] = base
    BY <1>4 DEF Recursive
  <2> HIDE DEF D
  <2> QED
    BY <2>1, <2>2 DEF Equation
<1>6. Equation(it)
  BY <1>5
<1> HIDE DEF it
<1>7. h[0] = base
  <2>1. 1..0 = {} /\ 0 \in 0..n
    BY <1>1
  <2> QED
    BY <1>6, <2>1 DEF Equation
<1>8. ASSUME NEW k \in 1..n PROVE h[k] = MergeStep(h[k - 1])
  <2>1. /\ 1..k \in SUBSET D /\ 1..k # {} /\ 1..(k - 1) \in SUBSET D
        /\ Max(1..k) = k /\ (1..k) \ {k} = 1..(k - 1)
    BY <1>1, Prefix
  <2>2. k \in 0..n /\ k - 1 \in 0..n
    BY <1>1
  <2>3. h[k] = it[1..k] /\ h[k - 1] = it[1..(k - 1)]
    BY <2>2
  <2> HIDE DEF h
  <2>4. it[1..k] = MergeStep(it[(1..k) \ {Max(1..k)}])
    BY <1>6, <2>1 DEF Equation
  <2> QED
    BY <2>1, <2>3, <2>4
<1>9. h[n] = it[D]
  BY <1>1
<1>10. h = [k \in 0..n |-> h[k]]
  OBVIOUS
<1> HIDE DEF h
<1>11. \A k \in 0..n : h[k] \in T
  <2>1. ASSUME NEW k \in 1..n, h[k - 1] \in T PROVE h[k] \in T
    BY <1>1, <1>8, <2>1
  <2> QED
    BY <1>1, <1>7, <2>1, AllAlong
<1>12. h \in [0..n -> T]
  BY <1>10, <1>11
<1> QED
  BY <1>2, <1>7, <1>8, <1>9, <1>12 DEF n, MergeRun

-----------------------------------------------------------------------------
(* Lists *)

\* A function on the first n numbers is a list.
LEMMA ListOf ==
    ASSUME NEW S, NEW n \in Nat, NEW l \in [1..n -> S]
    PROVE  l \in Seq(S)
  BY SeqDef

\* What a list is made of
LEMMA ListTail ==
    ASSUME NEW S, NEW l \in Seq(S), l # <<>>
    PROVE  /\ Head(l) = l[1] /\ Head(l) \in S /\ Tail(l) \in Seq(S)
           /\ Len(l) \in Nat \ {0} /\ DOMAIN l = 1..Len(l)
           /\ DOMAIN Tail(l) = 1..(Len(l) - 1)
           /\ \A k \in 1..(Len(l) - 1) : Tail(l)[k] = l[k + 1]
           /\ ToSet(l) = {Head(l)} \cup ToSet(Tail(l))
<1>1. /\ Head(l) = l[1] /\ Head(l) \in S /\ Tail(l) \in Seq(S)
      /\ Len(l) \in Nat \ {0} /\ DOMAIN l = 1..Len(l)
      /\ DOMAIN Tail(l) = 1..(Len(l) - 1)
      /\ \A k \in 1..(Len(l) - 1) : Tail(l)[k] = l[k + 1]
  <2>1. /\ Len(l) \in Nat \ {0} /\ DOMAIN l = 1..Len(l)
        /\ Tail(l) \in Seq(S) /\ Len(Tail(l)) = Len(l) - 1
    BY EmptySeq, HeadTailProperties
  <2>2. Head(l) = l[1] /\ Head(l) \in S
    BY HeadTailProperties
  <2>3. \A k \in 1..(Len(l) - 1) : Tail(l)[k] = l[k + 1]
    BY <2>1, HeadTailProperties
  <2> QED
    BY <2>1, <2>2, <2>3
<1>2. ToSet(l) \subseteq {Head(l)} \cup ToSet(Tail(l))
  <2> SUFFICES ASSUME NEW k \in 1..Len(l) PROVE l[k] \in {Head(l)} \cup ToSet(Tail(l))
    BY <1>1 DEF ToSet
  <2>1. CASE k = 1
    BY <1>1, <2>1
  <2>2. CASE k # 1
    <3>1. k - 1 \in 1..(Len(l) - 1) /\ (k - 1) + 1 = k
      BY <1>1, <2>2
    <3> QED
      BY <1>1, <3>1 DEF ToSet
  <2> QED
    BY <2>1, <2>2
<1>3. Head(l) \in ToSet(l) /\ ToSet(Tail(l)) \subseteq ToSet(l)
  <2>1. \A k \in 1..(Len(l) - 1) : k + 1 \in 1..Len(l)
    BY <1>1
  <2>2. 1 \in 1..Len(l)
    BY <1>1
  <2> QED
    BY <1>1, <2>1, <2>2 DEF ToSet
<1> QED
  BY <1>1, <1>2, <1>3

\* What stands behind another class is in the tail.
LEMMA BehindInTail ==
    ASSUME NEW S, NEW l \in Seq(S), NEW a, NEW b, Precedes(l, a, b)
    PROVE  /\ l # <<>> /\ b \in ToSet(Tail(l)) /\ a \in ToSet(l)
           /\ a # Head(l) => Precedes(Tail(l), a, b)
<1>1. PICK j, k \in DOMAIN l : j < k /\ l[j] = a /\ l[k] = b
  BY DEF Precedes
<1>2. l # <<>>
  BY <1>1
<1>3. /\ DOMAIN l = 1..Len(l) /\ Len(l) \in Nat /\ DOMAIN Tail(l) = 1..(Len(l) - 1)
      /\ Head(l) = l[1] /\ \A i \in 1..(Len(l) - 1) : Tail(l)[i] = l[i + 1]
  BY <1>2, ListTail
<1>4. k - 1 \in 1..(Len(l) - 1) /\ (k - 1) + 1 = k
  BY <1>1, <1>3
<1>5. b \in ToSet(Tail(l))
  BY <1>1, <1>3, <1>4 DEF ToSet
<1>6. ASSUME a # Head(l) PROVE Precedes(Tail(l), a, b)
  <2>1. j - 1 \in 1..(Len(l) - 1) /\ (j - 1) + 1 = j /\ j - 1 < k - 1
    BY <1>1, <1>3, <1>6
  <2> QED
    BY <1>1, <1>3, <1>4, <2>1 DEF Precedes
<1> QED
  BY <1>1, <1>2, <1>5, <1>6 DEF ToSet

\* A class more at the end of a list
LEMMA ListAppend ==
    ASSUME NEW S, NEW l \in Seq(S), NEW c \in S
    PROVE  /\ Append(l, c) \in Seq(S) /\ ToSet(Append(l, c)) = ToSet(l) \cup {c}
           /\ IsInjective(l) /\ c \notin ToSet(l) => IsInjective(Append(l, c))
           /\ \A a, b : Precedes(l, a, b) => Precedes(Append(l, c), a, b)
           /\ \A a \in ToSet(l) : Precedes(Append(l, c), a, c)
           /\ \A a, b : Precedes(Append(l, c), a, b)
                 => Precedes(l, a, b) \/ (a \in ToSet(l) /\ b = c)
<1> DEFINE n == Len(l)
           new == Append(l, c)
<1>1. /\ new \in Seq(S) /\ n \in Nat /\ DOMAIN l = 1..n /\ DOMAIN new = 1..(n + 1)
      /\ \A k \in 1..n : new[k] = l[k]
      /\ new[n + 1] = c
  <2>1. new \in Seq(S) /\ Len(new) = n + 1
    OBVIOUS
  <2> QED
    BY <2>1
<1> HIDE DEF n, new
<1>2. \A k \in 1..(n + 1) : k \in 1..n \/ k = n + 1
  BY <1>1
<1>3. \A k \in 1..n : k \in 1..(n + 1) /\ k < n + 1 /\ k # n + 1
  BY <1>1
<1>4. n + 1 \in 1..(n + 1)
  BY <1>1
<1>5. ToSet(new) = ToSet(l) \cup {c}
  BY <1>1, <1>2, <1>3, <1>4 DEF ToSet
<1>6. IsInjective(l) /\ c \notin ToSet(l) => IsInjective(new)
  BY <1>1, <1>2 DEF ToSet, IsInjective
<1>7. \A a, b : Precedes(l, a, b) => Precedes(new, a, b)
  BY <1>1, <1>3 DEF Precedes
<1>8. \A a \in ToSet(l) : Precedes(new, a, c)
  BY <1>1, <1>3, <1>4 DEF Precedes, ToSet
<1>9. ASSUME NEW a, NEW b, Precedes(new, a, b)
      PROVE Precedes(l, a, b) \/ (a \in ToSet(l) /\ b = c)
  <2>1. PICK j, k \in 1..(n + 1) : j < k /\ new[j] = a /\ new[k] = b
    BY <1>1, <1>9 DEF Precedes
  <2>2. j \in 1..n
    BY <1>1, <2>1
  <2>3. CASE k = n + 1
    BY <1>1, <2>1, <2>2, <2>3 DEF ToSet
  <2>4. CASE k \in 1..n
    BY <1>1, <2>1, <2>2, <2>4 DEF Precedes
  <2> QED
    BY <1>2, <2>3, <2>4
<1> QED
  BY <1>1, <1>5, <1>6, <1>7, <1>8, <1>9 DEF new

-----------------------------------------------------------------------------
(* Merging precedence lists *)

\* The classes that lists have
In(lists) == UNION {ToSet(lists[k]) : k \in DOMAIN lists}
SomePrecedes(lists, a, b) == \E k \in DOMAIN lists : Precedes(lists[k], a, b)

Merges == [done : Seq(AllClasses \cup {None}), left : Seq(Seq(AllClasses))]

\* What is merged and what is left make up the lists that were given, each
\* class once and in the order of each list.
Merged(lists, m) ==
    /\ ToSet(m.done) \cup In(m.left) = In(lists)
    /\ ToSet(m.done) \cap In(m.left) = {}
    /\ IsInjective(m.done)
    /\ \A a, b \in AllClasses : SomePrecedes(lists, a, b) =>
          \/ SomePrecedes(m.left, a, b)
          \/ a \in ToSet(m.done) /\ (b \in ToSet(m.done) => Precedes(m.done, a, b))

Stuck(m) == None \in ToSet(m.done)

\* The three cases of a step: the end, no free head, a class that is free.
LEMMA MergeStepIs ==
    ASSUME NEW m \in Merges
    PROVE  \/ In(m.left) = {} /\ MergeStep(m) = m
           \/ MergeStep(m) = [done |-> Append(m.done, None), left |-> <<>>]
           \/ \E c \in In(m.left), left \in Seq(Seq(AllClasses)) :
                 /\ MergeStep(m) = [done |-> Append(m.done, c), left |-> left]
                 /\ DOMAIN left = DOMAIN m.left
                 /\ \A k \in DOMAIN m.left : m.left[k] # <<>> => c \notin ToSet(Tail(m.left[k]))
                 /\ \A k \in DOMAIN m.left :
                       left[k] = IF m.left[k] # <<>> /\ Head(m.left[k]) = c
                                 THEN Tail(m.left[k]) ELSE m.left[k]
<1> DEFINE heads == {k \in DOMAIN m.left : m.left[k] # <<>>}
           free == {k \in heads : \A j \in heads : Head(m.left[k]) \notin ToSet(Tail(m.left[j]))}
           c == Head(m.left[Min(free)])
           left == [k \in DOMAIN m.left |->
                      IF m.left[k] # <<>> /\ Head(m.left[k]) = c
                      THEN Tail(m.left[k]) ELSE m.left[k]]
<1>1. /\ m.left \in Seq(Seq(AllClasses)) /\ m.done \in Seq(AllClasses \cup {None})
      /\ DOMAIN m.left = 1..Len(m.left) /\ Len(m.left) \in Nat
      /\ \A k \in DOMAIN m.left : m.left[k] \in Seq(AllClasses)
  BY DEF Merges
<1>2. CASE heads = {}
  <2>1. MergeStep(m) = m
    BY <1>2 DEF MergeStep
  <2>2. \A k \in DOMAIN m.left : m.left[k] = <<>>
    BY <1>2
  <2>3. In(m.left) = {}
    BY <2>2 DEF In, ToSet
  <2> QED
    BY <2>1, <2>3
<1>3. CASE heads # {} /\ free = {}
  BY <1>3 DEF MergeStep
<1>4. CASE free # {}
  <2>1. heads # {}
    BY <1>4
  <2>2. MergeStep(m) = [done |-> Append(m.done, c), left |-> left]
    BY <1>4, <2>1 DEF MergeStep
  <2>3. free \in SUBSET Nat
    BY <1>1
  <2>4. Min(free) \in free
    <3> HIDE DEF free
    <3> QED
      BY <1>4, <2>3, MinNumber
  <2>5. PICK f \in DOMAIN m.left : /\ m.left[f] # <<>> /\ c = Head(m.left[f])
                                   /\ \A j \in heads : c \notin ToSet(Tail(m.left[j]))
    BY <2>4
  <2>6. \A k \in DOMAIN m.left : m.left[k] # <<>> => c \notin ToSet(Tail(m.left[k]))
    BY <2>5
  <2> HIDE DEF heads, free, c
  <2>7. c \in ToSet(m.left[f])
    BY <1>1, <2>5, ListTail
  <2>8. c \in In(m.left)
    BY <2>7 DEF In
  <2>9. \A k \in DOMAIN m.left : left[k] \in Seq(AllClasses)
    BY <1>1, ListTail
  <2>10. left \in Seq(Seq(AllClasses)) /\ DOMAIN left = DOMAIN m.left
    <3>1. left \in [1..Len(m.left) -> Seq(AllClasses)]
      BY <1>1, <2>9
    <3>2. DOMAIN left = DOMAIN m.left
      OBVIOUS
    <3> HIDE DEF left
    <3>3. left \in Seq(Seq(AllClasses))
      BY <1>1, <3>1, ListOf
    <3> QED
      BY <3>2, <3>3
  <2>11. \A k \in DOMAIN m.left :
            left[k] = IF m.left[k] # <<>> /\ Head(m.left[k]) = c
                      THEN Tail(m.left[k]) ELSE m.left[k]
    OBVIOUS
  <2> HIDE DEF left
  <2> QED
    BY <2>2, <2>6, <2>8, <2>10, <2>11
<1> QED
  BY <1>2, <1>3, <1>4

\* A step merges one class more, or is stuck for good.
LEMMA MergeStepKeeps ==
    ASSUME NEW lists \in Seq(Seq(AllClasses)), NEW m \in Merges,
           Stuck(m) \/ Merged(lists, m)
    PROVE  /\ MergeStep(m) \in Merges
           /\ Stuck(m) => Stuck(MergeStep(m))
           /\ Stuck(MergeStep(m)) \/ Merged(lists, MergeStep(m))
           /\ \/ Stuck(MergeStep(m))
              \/ In(MergeStep(m).left) = {}
              \/ \E c \in AllClasses \ ToSet(m.done) :
                    ToSet(MergeStep(m).done) = ToSet(m.done) \cup {c}
<1> DEFINE new == MergeStep(m)
<1>1. /\ m.done \in Seq(AllClasses \cup {None}) /\ m.left \in Seq(Seq(AllClasses))
      /\ \A k \in DOMAIN m.left : m.left[k] \in Seq(AllClasses)
  BY DEF Merges
<1>2. CASE In(m.left) = {} /\ MergeStep(m) = m
  BY <1>2
<1>3. CASE MergeStep(m) = [done |-> Append(m.done, None), left |-> <<>>]
  <2>1. <<>> \in Seq(Seq(AllClasses))
    OBVIOUS
  <2>2. Append(m.done, None) \in Seq(AllClasses \cup {None})
    BY <1>1
  <2>3. None \in ToSet(Append(m.done, None))
    BY <1>1, ListAppend
  <2> QED
    BY <1>3, <2>1, <2>2, <2>3 DEF Merges, Stuck
<1>4. ASSUME NEW c \in In(m.left), NEW left \in Seq(Seq(AllClasses)),
             new = [done |-> Append(m.done, c), left |-> left],
             DOMAIN left = DOMAIN m.left,
             \A k \in DOMAIN m.left : m.left[k] # <<>> => c \notin ToSet(Tail(m.left[k])),
             \A k \in DOMAIN m.left :
                left[k] = IF m.left[k] # <<>> /\ Head(m.left[k]) = c
                          THEN Tail(m.left[k]) ELSE m.left[k]
      PROVE  /\ new \in Merges /\ (Stuck(m) => Stuck(new))
             /\ Stuck(new) \/ Merged(lists, new)
             /\ \/ Stuck(new)
                \/ \E x \in AllClasses \ ToSet(m.done) : ToSet(new.done) = ToSet(m.done) \cup {x}
  <2> HIDE DEF new
  <2>1. /\ new.done = Append(m.done, c) /\ new.left = left /\ new \in Merges
        /\ ToSet(new.done) = ToSet(m.done) \cup {c} /\ c \in AllClasses
    <3>1. c \in AllClasses
      <4>1. PICK k \in DOMAIN m.left : c \in ToSet(m.left[k])
        BY <1>4 DEF In
      <4> QED
        BY <1>1, <4>1 DEF ToSet
    <3>2. Append(m.done, c) \in Seq(AllClasses \cup {None})
      BY <1>1, <3>1
    <3>3. ToSet(Append(m.done, c)) = ToSet(m.done) \cup {c}
      <4>1. c \in AllClasses \cup {None}
        BY <3>1
      <4> QED
        BY <1>1, <4>1, ListAppend
    <3> QED
      BY <1>4, <3>1, <3>2, <3>3 DEF Merges
  <2>2. Stuck(m) => Stuck(new)
    BY <2>1 DEF Stuck
  <2> SUFFICES ASSUME ~Stuck(m)
               PROVE  Merged(lists, new) /\ c \notin ToSet(m.done)
    BY <2>1, <2>2
  <2>3. Merged(lists, m)
    OBVIOUS
  <2>4. c \notin ToSet(m.done)
    BY <1>4, <2>3 DEF Merged
  <2>5. ASSUME NEW k \in DOMAIN m.left
        PROVE  ToSet(left[k]) = ToSet(m.left[k]) \ {c}
    <3>1. CASE m.left[k] = <<>>
      <4>1. left[k] = m.left[k] /\ ToSet(m.left[k]) = {}
        BY <1>4, <3>1 DEF ToSet
      <4> QED
        BY <4>1
    <3>2. CASE m.left[k] # <<>>
      <4>1. ToSet(m.left[k]) = {Head(m.left[k])} \cup ToSet(Tail(m.left[k]))
        BY <1>1, <3>2, ListTail
      <4>2. c \notin ToSet(Tail(m.left[k]))
        BY <1>4, <3>2
      <4> QED
        BY <1>4, <3>2, <4>1, <4>2
    <3> QED
      BY <3>1, <3>2
  <2>6. In(left) = In(m.left) \ {c}
    <3>1. \A x : x \in In(left) <=> \E k \in DOMAIN left : x \in ToSet(left[k])
      BY DEF In
    <3>2. \A x : x \in In(m.left) <=> \E k \in DOMAIN m.left : x \in ToSet(m.left[k])
      BY DEF In
    <3>3. \A k \in DOMAIN m.left : \A x : x \in ToSet(left[k]) <=> x \in ToSet(m.left[k]) /\ x # c
      BY <2>5
    <3>4. \A x : x \in In(left) <=> x \in In(m.left) /\ x # c
      BY <1>4, <3>1, <3>2, <3>3
    <3> QED
      BY <3>4
  <2>7. /\ ToSet(new.done) \cup In(left) = In(lists)
        /\ ToSet(new.done) \cap In(left) = {}
    BY <1>4, <2>1, <2>3, <2>4, <2>6 DEF Merged
  <2>8. IsInjective(new.done)
    BY <1>1, <2>1, <2>3, <2>4, ListAppend DEF Merged
  <2>9. ASSUME NEW a \in AllClasses, NEW b \in AllClasses, SomePrecedes(lists, a, b)
        PROVE  \/ SomePrecedes(left, a, b)
               \/ a \in ToSet(new.done) /\ (b \in ToSet(new.done) => Precedes(new.done, a, b))
    <3>1. CASE SomePrecedes(m.left, a, b)
      <4>1. PICK k \in DOMAIN m.left : Precedes(m.left[k], a, b)
        BY <3>1 DEF SomePrecedes
      <4>2. /\ m.left[k] # <<>> /\ b \in ToSet(Tail(m.left[k]))
            /\ a # Head(m.left[k]) => Precedes(Tail(m.left[k]), a, b)
        BY <1>1, <4>1, BehindInTail
      <4>3. b # c /\ b \in In(m.left)
        <5>1. ToSet(m.left[k]) = {Head(m.left[k])} \cup ToSet(Tail(m.left[k]))
          BY <1>1, <4>2, ListTail
        <5> QED
          BY <1>4, <4>2, <5>1 DEF In
      <4>4. CASE a = c
        BY <2>1, <2>3, <4>3, <4>4 DEF Merged
      <4>5. CASE a # c
        <5>1. Precedes(left[k], a, b)
          BY <1>4, <4>1, <4>2, <4>5
        <5> QED
          BY <1>4, <5>1 DEF SomePrecedes
      <4> QED
        BY <4>4, <4>5
    <3>2. CASE a \in ToSet(m.done) /\ (b \in ToSet(m.done) => Precedes(m.done, a, b))
      <4>1. \A x, y : Precedes(m.done, x, y) => Precedes(new.done, x, y)
        BY <1>1, <2>1, ListAppend
      <4>2. \A x \in ToSet(m.done) : Precedes(new.done, x, c)
        BY <1>1, <2>1, ListAppend
      <4> QED
        BY <2>1, <3>2, <4>1, <4>2
    <3> QED
      BY <2>3, <2>9, <3>1, <3>2 DEF Merged
  <2> QED
    BY <2>1, <2>4, <2>7, <2>8, <2>9 DEF Merged
<1> HIDE DEF new
<1> QED
  BY <1>2, <1>3, <1>4, MergeStepIs DEF new

\* Merging as often as there are classes comes to the end.
LEMMA MergeIs ==
    ASSUME NEW lists \in Seq(Seq(AllClasses))
    PROVE  /\ Merge(lists) \in Seq(AllClasses \cup {None})
           /\ None \notin ToSet(Merge(lists)) =>
                /\ ToSet(Merge(lists)) = In(lists)
                /\ IsInjective(Merge(lists))
                /\ \A a, b \in AllClasses :
                      SomePrecedes(lists, a, b) => Precedes(Merge(lists), a, b)
<1> DEFINE n == Cardinality(AllClasses)
           base == [done |-> <<>>, left |-> lists]
           s == [k \in 1..n |-> k]
           T == {m \in Merges : Stuck(m) \/ Merged(lists, m)}
<1>1. n \in Nat
  BY ClassesAssumption, FS_CardinalityType
<1>2. s \in Seq(Nat) /\ Len(s) = n /\ \A k \in 1..n : s[k] = k
  BY <1>1
<1>3. base \in T
  <2>1. base \in Merges
    BY DEF Merges
  <2>2. ToSet(<<>>) = {} /\ IsInjective(<<>>)
    BY DEF ToSet, IsInjective
  <2>3. Merged(lists, base)
    BY <2>2 DEF Merged
  <2> QED
    BY <2>1, <2>3
<1>4. \A m \in T, x \in Nat : MergeStep(m) \in T
  BY MergeStepKeeps
<1> HIDE DEF s, T, n, base
<1>5. PICK h \in [0..n -> T] :
         /\ h[0] = base /\ MergeAll(base, s) = h[n]
         /\ \A k \in 1..n : h[k] = MergeStep(h[k - 1])
  <2>1. \E h \in [0..Len(s) -> T] : MergeRun(h, base, s)
    BY <1>2, <1>3, <1>4, MergeSteps
  <2> QED
    BY <1>2, <2>1 DEF MergeRun
<1>6. Merge(lists) = h[n].done
  BY <1>5 DEF Merge, MergeAll, s, base, n
<1>7. h[n] \in Merges /\ (Stuck(h[n]) \/ Merged(lists, h[n]))
  BY <1>1, <1>5 DEF T
<1>8. Merge(lists) \in Seq(AllClasses \cup {None})
  BY <1>6, <1>7 DEF Merges
<1> DEFINE Far(k) == \/ Stuck(h[k])
                     \/ In(h[k].left) = {}
                     \/ IsFiniteSet(ToSet(h[k].done)) /\ Cardinality(ToSet(h[k].done)) = k
           Good == {k \in Nat : k <= n => Far(k)}
<1>9. 0 \in Good
  <2>1. ToSet(h[0].done) = {}
    BY <1>5 DEF base, ToSet
  <2>2. Far(0)
    BY <2>1, FS_EmptySet
  <2> HIDE DEF Far
  <2> QED
    BY <2>2
<1>10. ASSUME NEW k \in Nat, k \in Good PROVE k + 1 \in Good
  <2> HIDE DEF Far
  <2> SUFFICES ASSUME k + 1 <= n PROVE Far(k + 1)
    BY <1>10
  <2>1. /\ k \in 0..n /\ k + 1 \in 1..n /\ (k + 1) - 1 = k /\ Far(k)
    BY <1>1, <1>10
  <2>2. h[k] \in T /\ h[k + 1] = MergeStep(h[k])
    BY <1>5, <2>1
  <2>3. h[k] \in Merges /\ (Stuck(h[k]) \/ Merged(lists, h[k]))
    BY <2>2 DEF T
  <2> DEFINE m == h[k]
  <2>4. CASE Stuck(m)
    BY <2>2, <2>3, <2>4, MergeStepKeeps DEF Far
  <2>5. CASE In(m.left) = {}
    <3>1. \/ MergeStep(m) = m
          \/ MergeStep(m) = [done |-> Append(m.done, None), left |-> <<>>]
      BY <2>3, <2>5, MergeStepIs
    <3>2. In(<<>>) = {}
      BY DEF In
    <3>3. In(MergeStep(m).left) = {}
      <4>1. CASE MergeStep(m) = m
        BY <2>5, <4>1
      <4>2. CASE MergeStep(m) = [done |-> Append(m.done, None), left |-> <<>>]
        BY <3>2, <4>2
      <4> QED
        BY <3>1, <4>1, <4>2
    <3> QED
      BY <2>2, <3>3 DEF Far
  <2>6. CASE IsFiniteSet(ToSet(m.done)) /\ Cardinality(ToSet(m.done)) = k
    <3>1. ASSUME NEW c \in AllClasses \ ToSet(m.done),
                 ToSet(MergeStep(m).done) = ToSet(m.done) \cup {c}
          PROVE  Far(k + 1)
      <4>1. /\ IsFiniteSet(ToSet(m.done) \cup {c})
            /\ Cardinality(ToSet(m.done) \cup {c}) = k + 1
        BY <2>6, <3>1, FS_AddElement
      <4> QED
        BY <2>2, <3>1, <4>1 DEF Far
    <3> QED
      BY <2>2, <2>3, <3>1, MergeStepKeeps DEF Far
  <2> QED
    BY <2>1, <2>4, <2>5, <2>6 DEF Far
<1>11. Far(n)
  <2> HIDE DEF Good
  <2>1. n \in Good
    BY <1>1, <1>9, <1>10, Induction
  <2> HIDE DEF Far
  <2> QED
    BY <1>1, <2>1 DEF Good
<1>12. ASSUME ~Stuck(h[n])
       PROVE  /\ ToSet(h[n].done) = In(lists) /\ IsInjective(h[n].done)
              /\ \A a, b \in AllClasses :
                    SomePrecedes(lists, a, b) => Precedes(h[n].done, a, b)
  <2> DEFINE m == h[n]
  <2>1. Merged(lists, m)
    BY <1>7, <1>12
  <2>2. /\ m.done \in Seq(AllClasses \cup {None}) /\ m.left \in Seq(Seq(AllClasses))
        /\ \A k \in DOMAIN m.left : m.left[k] \in Seq(AllClasses)
    BY <1>7 DEF Merges
  <2> HIDE DEF m
  <2>3. ToSet(m.done) \subseteq AllClasses
    BY <1>12, <2>2 DEF Stuck, ToSet, m
  <2>4. In(m.left) \subseteq AllClasses
    BY <2>2 DEF In, ToSet
  <2>5. In(m.left) = {}
    <3>1. CASE IsFiniteSet(ToSet(m.done)) /\ Cardinality(ToSet(m.done)) = n
      <4>1. ToSet(m.done) = AllClasses
        BY <2>3, <3>1, ClassesAssumption, FS_Subset DEF n
      <4> QED
        BY <2>1, <2>4, <4>1 DEF Merged
    <3> QED
      BY <1>11, <1>12, <3>1 DEF m
  <2>6. ToSet(m.done) = In(lists) /\ IsInjective(m.done)
    BY <2>1, <2>5 DEF Merged
  <2>7. ASSUME NEW a \in AllClasses, NEW b \in AllClasses, SomePrecedes(lists, a, b)
        PROVE  Precedes(m.done, a, b)
    <3>1. ~SomePrecedes(m.left, a, b)
      <4> SUFFICES ASSUME NEW k \in DOMAIN m.left, Precedes(m.left[k], a, b) PROVE FALSE
        BY DEF SomePrecedes
      <4>1. a \in ToSet(m.left[k])
        BY <2>2, BehindInTail
      <4> QED
        BY <2>5, <4>1 DEF In
    <3>2. b \in In(lists)
      <4>1. PICK k \in DOMAIN lists : Precedes(lists[k], a, b)
        BY <2>7 DEF SomePrecedes
      <4>2. b \in ToSet(lists[k])
        BY <4>1 DEF Precedes, ToSet
      <4> QED
        BY <4>2 DEF In
    <3> QED
      BY <2>1, <2>6, <2>7, <3>1, <3>2 DEF Merged
  <2> QED
    BY <2>6, <2>7 DEF m
<1> QED
  BY <1>6, <1>8, <1>12 DEF Stuck

-----------------------------------------------------------------------------
(* The precedence list of a new class *)

\* A class in front of a list
LEMMA ListCons ==
    ASSUME NEW S, NEW l \in Seq(S), NEW c \in S
    PROVE  /\ <<c>> \o l \in Seq(S) /\ <<c>> \o l # <<>> /\ (<<c>> \o l)[1] = c
           /\ ToSet(<<c>> \o l) = {c} \cup ToSet(l)
           /\ IsInjective(l) /\ c \notin ToSet(l) => IsInjective(<<c>> \o l)
           /\ \A a, b : Precedes(l, a, b) => Precedes(<<c>> \o l, a, b)
<1> DEFINE n == Len(l)
           new == <<c>> \o l
<1>1. /\ new \in Seq(S) /\ n \in Nat /\ DOMAIN l = 1..n /\ DOMAIN new = 1..(n + 1)
      /\ new[1] = c
      /\ \A k \in 1..n : new[k + 1] = l[k]
  <2>1. <<c>> \in Seq(S) /\ Len(<<c>>) = 1 /\ <<c>>[1] = c
    OBVIOUS
  <2>2. new \in Seq(S) /\ Len(new) = n + 1 /\ n \in Nat
    BY <2>1
  <2>3. \A k \in 1..(n + 1) : new[k] = IF k <= 1 THEN <<c>>[k] ELSE l[k - 1]
    BY <2>1
  <2>4. \A k \in 1..n : k + 1 \in 1..(n + 1) /\ ~(k + 1 <= 1) /\ (k + 1) - 1 = k
    BY <2>2
  <2>5. 1 \in 1..(n + 1)
    BY <2>2
  <2> HIDE DEF new, n
  <2>6. \A k \in 1..n : new[k + 1] = l[k]
    BY <2>3, <2>4
  <2>7. new[1] = c
    BY <2>1, <2>3, <2>5
  <2> QED
    BY <2>2, <2>6, <2>7 DEF n
<1> HIDE DEF n, new
<1>2. \A k \in 1..(n + 1) : k = 1 \/ (k - 1 \in 1..n /\ (k - 1) + 1 = k)
  BY <1>1
<1>3. \A k \in 1..n : k + 1 \in 1..(n + 1)
  BY <1>1
<1>4. 1 \in 1..(n + 1)
  BY <1>1
<1>5. ToSet(new) = {c} \cup ToSet(l)
  <2>1. ASSUME NEW k \in 1..(n + 1) PROVE new[k] \in {c} \cup ToSet(l)
    <3>1. CASE k = 1
      BY <1>1, <3>1
    <3>2. CASE k - 1 \in 1..n /\ (k - 1) + 1 = k
      <4>1. new[(k - 1) + 1] = l[k - 1]
        BY <1>1, <3>2
      <4> QED
        BY <1>1, <3>2, <4>1 DEF ToSet
    <3> QED
      BY <1>2, <3>1, <3>2
  <2> QED
    BY <1>1, <1>3, <1>4, <2>1 DEF ToSet
<1>6. ASSUME IsInjective(l), c \notin ToSet(l) PROVE IsInjective(new)
  <2> SUFFICES ASSUME NEW j \in 1..(n + 1), NEW k \in 1..(n + 1), new[j] = new[k]
               PROVE  j = k
    BY <1>1 DEF IsInjective
  <2>1. \A i \in 1..n : new[i + 1] # c
    BY <1>1, <1>6 DEF ToSet
  <2>2. CASE j = 1 \/ k = 1
    BY <1>1, <1>2, <2>1, <2>2
  <2>3. CASE j # 1 /\ k # 1
    <3>1. /\ j - 1 \in 1..n /\ (j - 1) + 1 = j
          /\ k - 1 \in 1..n /\ (k - 1) + 1 = k
      BY <1>2, <2>3
    <3>2. l[j - 1] = new[j] /\ l[k - 1] = new[k]
      BY <1>1, <3>1
    <3>3. j - 1 = k - 1
      BY <1>1, <1>6, <3>1, <3>2 DEF IsInjective
    <3> QED
      BY <3>1, <3>3
  <2> QED
    BY <2>2, <2>3
<1>7. ASSUME NEW a, NEW b, Precedes(l, a, b) PROVE Precedes(new, a, b)
  <2>1. PICK j, k \in 1..n : j < k /\ l[j] = a /\ l[k] = b
    BY <1>1, <1>7 DEF Precedes
  <2>2. j + 1 \in 1..(n + 1) /\ k + 1 \in 1..(n + 1) /\ j + 1 < k + 1
    BY <1>3, <2>1
  <2>3. new[j + 1] = a /\ new[k + 1] = b
    BY <1>1, <2>1
  <2> QED
    BY <1>1, <2>2, <2>3 DEF Precedes
<1>8. new # <<>>
  BY <1>1
<1> QED
  BY <1>1, <1>5, <1>6, <1>7, <1>8 DEF new

\* The class comes first; the list has what the superclasses and their lists
\* have, once, and in the order of each of these lists.
Linearized(list, class, supers, known) ==
    /\ list \in Seq(AllClasses) /\ list # <<>> /\ list[1] = class
    /\ ToSet(list) = {class} \cup ToSet(supers)
                       \cup UNION {ToSet(known[b]) : b \in ToSet(supers)}
    /\ IsInjective(list)
    /\ \A b \in ToSet(supers), x, y \in AllClasses :
          Precedes(known[b], x, y) => Precedes(list, x, y)

\* So is the list of a class that can have one.
LEMMA LinearizeIs ==
    ASSUME NEW known \in [AllClasses -> Seq(AllClasses)],
           \A c \in Known(known) : ToSet(known[c]) \subseteq Known(known),
           NEW class \in AllClasses, class \notin Known(known),
           NEW supers \in Seq(AllClasses), ToSet(supers) \subseteq Known(known),
           NEW list, list = Linearize(class, supers, known), Consistent(list)
    PROVE  Linearized(list, class, supers, known)
<1> DEFINE n == Len(supers)
           first == [k \in DOMAIN supers |-> known[supers[k]]]
           lists == first \o <<supers>>
           rest == Merge(lists)
<1>1. n \in Nat /\ DOMAIN supers = 1..n /\ \A k \in 1..n : supers[k] \in AllClasses
  OBVIOUS
<1>2. first \in Seq(Seq(AllClasses)) /\ Len(first) = n
  <2>1. first \in [1..n -> Seq(AllClasses)]
    BY <1>1
  <2>2. DOMAIN first = 1..n
    BY <1>1
  <2> HIDE DEF first, n
  <2>3. first \in Seq(Seq(AllClasses))
    BY <1>1, <2>1, ListOf
  <2> QED
    BY <1>1, <2>2, <2>3
<1>3. /\ lists \in Seq(Seq(AllClasses)) /\ DOMAIN lists = 1..(n + 1)
      /\ \A k \in 1..n : lists[k] = known[supers[k]]
      /\ lists[n + 1] = supers
  <2>1. <<supers>> \in Seq(Seq(AllClasses)) /\ Len(<<supers>>) = 1 /\ <<supers>>[1] = supers
    OBVIOUS
  <2>2. \A k \in 1..n : first[k] = known[supers[k]]
    BY <1>1
  <2> HIDE DEF first, n
  <2>3. /\ lists \in Seq(Seq(AllClasses)) /\ Len(lists) = n + 1
        /\ \A k \in 1..(n + 1) : lists[k] = IF k <= n THEN first[k] ELSE <<supers>>[k - n]
    BY <1>2, <2>1
  <2>4. \A k \in 1..n : k \in 1..(n + 1) /\ k <= n
    BY <1>1
  <2>5. n + 1 \in 1..(n + 1) /\ ~(n + 1 <= n) /\ (n + 1) - n = 1
    BY <1>1
  <2> HIDE DEF lists
  <2>6. DOMAIN lists = 1..(n + 1)
    BY <2>3
  <2>7. \A k \in 1..n : lists[k] = known[supers[k]]
    BY <2>2, <2>3, <2>4
  <2>8. lists[n + 1] = supers
    BY <2>1, <2>3, <2>5
  <2> QED
    BY <2>3, <2>6, <2>7, <2>8
<1>4. list = <<class>> \o rest
  BY DEF Linearize
<1> HIDE DEF first, lists, n
<1>5. In(lists) = ToSet(supers) \cup UNION {ToSet(known[b]) : b \in ToSet(supers)}
  <2>1. \A x : x \in In(lists) <=> \E k \in 1..(n + 1) : x \in ToSet(lists[k])
    BY <1>3 DEF In
  <2>2. \A b : b \in ToSet(supers) <=> \E k \in 1..n : b = supers[k]
    BY <1>1 DEF ToSet
  <2>3. \A k \in 1..(n + 1) : k \in 1..n \/ k = n + 1
    BY <1>1
  <2>4. /\ n + 1 \in 1..(n + 1)
        /\ \A k \in 1..n : k \in 1..(n + 1)
    BY <1>1
  <2>5. \A x : x \in In(lists)
                 <=> x \in ToSet(supers) \/ \E k \in 1..n : x \in ToSet(known[supers[k]])
    BY <1>3, <2>1, <2>3, <2>4
  <2>6. \A x : (\E k \in 1..n : x \in ToSet(known[supers[k]]))
                 <=> \E b \in ToSet(supers) : x \in ToSet(known[b])
    BY <2>2
  <2> QED
    BY <2>5, <2>6
<1>6. /\ rest \in Seq(AllClasses \cup {None})
      /\ None \notin ToSet(rest) =>
           /\ ToSet(rest) = In(lists) /\ IsInjective(rest)
           /\ \A a, b \in AllClasses : SomePrecedes(lists, a, b) => Precedes(rest, a, b)
  BY <1>3, MergeIs
<1> HIDE DEF rest
<1>7. class \in AllClasses \cup {None}
  OBVIOUS
<1>8. ToSet(list) = {class} \cup ToSet(rest)
  BY <1>4, <1>6, <1>7, ListCons
<1>9. None \notin ToSet(rest)
  BY <1>8 DEF Consistent
<1>10. rest \in Seq(AllClasses)
  <2>1. Len(rest) \in Nat /\ DOMAIN rest = 1..Len(rest)
    BY <1>6
  <2>2. ASSUME NEW k \in 1..Len(rest) PROVE rest[k] \in AllClasses
    <3>1. rest[k] \in AllClasses \cup {None}
      BY <1>6, <2>1
    <3>2. rest[k] \in ToSet(rest)
      BY <2>1 DEF ToSet
    <3> QED
      BY <1>9, <3>1, <3>2
  <2>3. rest \in [1..Len(rest) -> AllClasses]
    BY <1>6, <2>1, <2>2
  <2> QED
    BY <2>1, <2>3, ListOf
<1>11. class \notin ToSet(rest)
  <2>1. In(lists) \subseteq Known(known)
    BY <1>5
  <2> QED
    BY <1>6, <1>9, <2>1
<1>12. ASSUME NEW b \in ToSet(supers), NEW x \in AllClasses, NEW y \in AllClasses,
              Precedes(known[b], x, y)
       PROVE  Precedes(list, x, y)
  <2>1. PICK k \in 1..n : b = supers[k]
    BY <1>1 DEF ToSet
  <2>2. k \in 1..(n + 1) /\ Precedes(lists[k], x, y)
    BY <1>1, <1>3, <1>12, <2>1
  <2>3. Precedes(rest, x, y)
    BY <1>3, <1>6, <1>9, <2>2 DEF SomePrecedes
  <2> QED
    BY <1>4, <1>10, <2>3, ListCons
<1>13. list \in Seq(AllClasses) /\ list # <<>> /\ list[1] = class /\ IsInjective(list)
  BY <1>4, <1>6, <1>9, <1>10, <1>11, ListCons
<1> QED
  BY <1>5, <1>6, <1>8, <1>9, <1>12, <1>13 DEF Linearized

\* Lists of classes there are
ListsOK(lists) ==
    /\ lists \in [AllClasses -> Seq(AllClasses)]
    /\ \A c \in Known(lists) : lists[c][1] = c /\ ToSet(lists[c]) \subseteq Known(lists)
    /\ ListsInv(lists)

\* A new class leaves the lists there are, and its own is one of them.
Added(new, known, class, supers, list) ==
    /\ ListsOK(new) /\ Known(new) = Known(known) \cup {class}
    /\ \A c \in AllClasses : new[c] = IF c = class THEN list ELSE known[c]
    /\ ToSet(list) = {class} \cup ToSet(supers)
                       \cup UNION {ToSet(known[b]) : b \in ToSet(supers)}

\* make-class adds one.
LEMMA NewClass ==
    ASSUME NEW known, ListsOK(known),
           NEW class \in AllClasses, class \notin Known(known),
           NEW supers \in Seq(AllClasses), ToSet(supers) \subseteq Known(known),
           NEW list, list = Linearize(class, supers, known), Consistent(list),
           NEW new, new = [known EXCEPT ![class] = list]
    PROVE  Added(new, known, class, supers, list)
<1>1. /\ known \in [AllClasses -> Seq(AllClasses)]
      /\ \A c \in Known(known) : ToSet(known[c]) \subseteq Known(known)
      /\ \A c \in Known(known) : known[c][1] = c
      /\ ListsInv(known)
  BY DEF ListsOK
<1>2. /\ list \in Seq(AllClasses) /\ list # <<>> /\ list[1] = class
      /\ ToSet(list) = {class} \cup ToSet(supers)
                         \cup UNION {ToSet(known[b]) : b \in ToSet(supers)}
      /\ IsInjective(list)
      /\ \A b \in ToSet(supers), x, y \in AllClasses :
            Precedes(known[b], x, y) => Precedes(list, x, y)
  <2>1. Linearized(list, class, supers, known)
    BY <1>1, LinearizeIs
  <2> QED
    BY <2>1 DEF Linearized
<1>3. \A c \in AllClasses : new[c] = IF c = class THEN list ELSE known[c]
  BY <1>1
<1>4. Known(new) = Known(known) \cup {class}
  BY <1>2, <1>3 DEF Known
<1>5. new \in [AllClasses -> Seq(AllClasses)]
  BY <1>1, <1>2
<1>6. \A c \in Known(known) : c \in AllClasses /\ c # class
  BY DEF Known
<1>7. ToSet(list) \subseteq Known(known) \cup {class}
  BY <1>1, <1>2
<1>8. \A c \in Known(new) : new[c][1] = c /\ ToSet(new[c]) \subseteq Known(new)
  BY <1>1, <1>2, <1>3, <1>4, <1>6, <1>7
<1>9. ListsInv(new)
  <2>1. ASSUME NEW c \in Known(known)
        PROVE  /\ IsInjective(new[c])
               /\ \A d \in ToSet(new[c]) :
                     /\ ToSet(new[d]) \subseteq ToSet(new[c])
                     /\ \A a, b \in AllClasses : Precedes(new[d], a, b) => Precedes(new[c], a, b)
    <3>1. new[c] = known[c] /\ \A d \in ToSet(known[c]) : new[d] = known[d]
      BY <1>1, <1>3, <1>6
    <3> QED
      BY <1>1, <3>1 DEF ListsInv
  <2>2. ASSUME NEW d \in ToSet(list)
        PROVE  /\ ToSet(new[d]) \subseteq ToSet(list)
               /\ \A a, b \in AllClasses : Precedes(new[d], a, b) => Precedes(list, a, b)
    <3>1. CASE d = class
      BY <1>3, <3>1
    <3>2. CASE d \in ToSet(supers)
      BY <1>2, <1>3, <1>6, <3>2
    <3>3. ASSUME NEW s \in ToSet(supers), d \in ToSet(known[s])
          PROVE  /\ ToSet(new[d]) \subseteq ToSet(list)
                 /\ \A a, b \in AllClasses : Precedes(new[d], a, b) => Precedes(list, a, b)
      <4>1. d \in Known(known) /\ s \in Known(known) /\ new[d] = known[d]
        BY <1>1, <1>3, <1>6, <3>3
      <4>2. /\ ToSet(known[d]) \subseteq ToSet(known[s])
            /\ \A a, b \in AllClasses : Precedes(known[d], a, b) => Precedes(known[s], a, b)
        BY <1>1, <3>3, <4>1 DEF ListsInv
      <4> QED
        BY <1>2, <4>1, <4>2
    <3> QED
      BY <1>2, <2>2, <3>1, <3>2, <3>3
  <2>3. new[class] = list
    BY <1>3
  <2>4. ASSUME NEW c \in Known(new)
        PROVE  /\ IsInjective(new[c])
               /\ \A d \in ToSet(new[c]) :
                     /\ ToSet(new[d]) \subseteq ToSet(new[c])
                     /\ \A a, b \in AllClasses : Precedes(new[d], a, b) => Precedes(new[c], a, b)
    <3>1. CASE c = class
      BY <1>2, <2>2, <2>3, <3>1
    <3> QED
      BY <1>4, <2>1, <3>1
  <2> QED
    BY <2>4 DEF ListsInv
<1> QED
  BY <1>2, <1>3, <1>4, <1>5, <1>8, <1>9 DEF ListsOK, Added

-----------------------------------------------------------------------------
(* Registering interfaces *)

\* An operation belongs to one interface.
LEMMA OwnerIs ==
    /\ \A i \in Interfaces : \A op \in OpsOf[i] : op \in Ops /\ Owner(op) = i
    /\ \A op \in Ops : Owner(op) \in Interfaces /\ op \in OpsOf[Owner(op)]
<1>1. \A i \in Interfaces : \A op \in OpsOf[i] : op \in Ops
  BY DEF Ops
<1>2. \A op \in Ops : Owner(op) \in Interfaces /\ op \in OpsOf[Owner(op)]
  BY DEF Ops, Owner
<1>3. ASSUME NEW i \in Interfaces, NEW op \in OpsOf[i] PROVE Owner(op) = i
  BY <1>1, <1>2, <1>3, InterfacesAssumption
<1> QED
  BY <1>1, <1>2, <1>3

\* The parents are the bases that are known.
LEMMA ParentsIs ==
    ASSUME NEW t, NEW i \in Interfaces
    PROVE  /\ Parents(t, i) \in Seq(Interfaces)
           /\ ToSet(Parents(t, i)) = KnownBases(t, i)
<1> DEFINE known == KnownBases(t, i)
           s == Bases[i]
           n == Len(s)
           T == Seq(Interfaces)
<1>1. s \in Seq(Interfaces) /\ n \in Nat /\ DOMAIN s = 1..n
  BY InterfacesAssumption
<1>2. known \subseteq ToSet(s)
  BY DEF KnownBases
<1>3. Parents(t, i) = ParentAll(known, <<>>, s)
  BY DEF Parents, ParentAll, WithBase
<1>4. <<>> \in T
  OBVIOUS
<1>5. \A m \in T, x \in Interfaces : WithBase(known, m, x) \in T
  BY ListCons DEF WithBase
<1> HIDE DEF known, s, n
<1>6. \E h \in [0..Len(s) -> T] : ParentRun(known, h, <<>>, s)
  <2> HIDE DEF T
  <2> QED
    BY <1>1, <1>4, <1>5, ParentSteps DEF T
<1>7. PICK h \in [0..n -> T] :
         /\ h[0] = <<>> /\ h[n] = ParentAll(known, <<>>, s)
         /\ \A k \in 1..n : h[k] = IF s[k] \in known THEN <<s[k]>> \o h[k - 1] ELSE h[k - 1]
  BY <1>6 DEF ParentRun, WithBase, n
<1> DEFINE Good == {k \in Nat : k <= n => ToSet(h[k]) = known \cap {s[j] : j \in 1..k}}
<1>8. 0 \in Good
  <2>1. ToSet(<<>>) = {} /\ 1..0 = {}
    BY DEF ToSet
  <2> QED
    BY <1>7, <2>1
<1>9. ASSUME NEW k \in Nat, k \in Good PROVE k + 1 \in Good
  <2> SUFFICES ASSUME k + 1 <= n
               PROVE  ToSet(h[k + 1]) = known \cap {s[j] : j \in 1..(k + 1)}
    OBVIOUS
  <2>1. /\ k + 1 \in 1..n /\ (k + 1) - 1 = k /\ k \in 0..n
        /\ ToSet(h[k]) = known \cap {s[j] : j \in 1..k}
    <3>1. k + 1 \in 1..n /\ (k + 1) - 1 = k /\ k \in 0..n /\ k <= n
      BY <1>1
    <3>2. k <= n => ToSet(h[k]) = known \cap {s[j] : j \in 1..k}
      BY <1>9
    <3> HIDE DEF Good
    <3> QED
      BY <3>1, <3>2
  <2>2. {s[j] : j \in 1..(k + 1)} = {s[j] : j \in 1..k} \cup {s[k + 1]}
    <3>1. 1..(k + 1) = 1..k \cup {k + 1}
      OBVIOUS
    <3> QED
      BY <3>1
  <2>3. h[k] \in Seq(Interfaces) /\ s[k + 1] \in Interfaces
    BY <1>1, <1>7, <2>1
  <2>4. h[k + 1] = IF s[k + 1] \in known THEN <<s[k + 1]>> \o h[k] ELSE h[k]
    BY <1>7, <2>1
  <2>5. CASE s[k + 1] \in known
    <3>1. ToSet(h[k + 1]) = {s[k + 1]} \cup ToSet(h[k])
      BY <2>3, <2>4, <2>5, ListCons
    <3> QED
      BY <2>1, <2>2, <2>5, <3>1
  <2>6. CASE s[k + 1] \notin known
    BY <2>1, <2>2, <2>4, <2>6
  <2> QED
    BY <2>5, <2>6
<1>10. ToSet(h[n]) = known \cap {s[j] : j \in 1..n}
  <2> HIDE DEF Good
  <2>1. n \in Good
    BY <1>1, <1>8, <1>9, Induction
  <2> QED
    BY <1>1, <2>1 DEF Good
<1>11. {s[j] : j \in 1..n} = ToSet(s)
  BY <1>1 DEF ToSet
<1>12. h[n] \in T
  BY <1>1, <1>7
<1> QED
  BY <1>2, <1>3, <1>7, <1>10, <1>11, <1>12 DEF known

\* The tables of opening an imodule
TableType ==
    [order : Seq(Interfaces), epv : [Interfaces -> SUBSET Ops],
     cpl : [AllClasses -> Seq(AllClasses)],
     gtype : [Types -> Types \cup {None}], names : SUBSET Types, stopped : BOOLEAN]

\* What an interface serves: its own operations and those of the bases that
\* were registered before it.
Serves(t, i) ==
    /\ OpsOf[i] \subseteq t.epv[i]
    /\ \A op \in Ops \ OpsOf[i] :
          op \in t.epv[i] <=> Owner(op) \in ToSet(Bases[i]) /\ Precedes(t.order, Owner(op), i)

\* Its classes have just these bases, if base_interfaces has all of them.
Descends(t, i) ==
    AllBases => ToSet(t.cpl[i]) = {i} \cup {b \in ToSet(Bases[i]) : Precedes(t.order, b, i)}

TableInv(t) ==
    /\ IsInjective(t.order) /\ ListsOK(t.cpl)
    /\ ToSet(t.order) = Known(t.cpl) \cap Interfaces
    /\ \A i \in ToSet(t.order) : Serves(t, i) /\ Descends(t, i)

\* The classes that there were are as they were.
Extends(r, t) ==
    Known(t.cpl) \subseteq Known(r.cpl) /\ \A c \in Known(t.cpl) : r.cpl[c] = t.cpl[c]

\* guile_corba_sys_register_interface keeps the tables in order.
LEMMA RegisterKeeps ==
    ASSUME NEW t \in TableType, TableInv(t), NEW i \in Interfaces,
           NEW r, r = RegisterInterface(t, i)
    PROVE  /\ r \in TableType /\ TableInv(r) /\ Extends(r, t)
           /\ r.gtype = t.gtype /\ r.names = t.names
<1> DEFINE list == Linearize(i, Parents(t, i), t.cpl)
           known == KnownBases(t, i)
           inherited == InheritedEpv(t, i) \cup OpsOf[i]
<1>1. CASE r = t
  BY <1>1 DEF Extends
<1>2. CASE r = [t EXCEPT !.stopped = TRUE]
  <2>1. /\ r \in TableType /\ r.order = t.order /\ r.epv = t.epv /\ r.cpl = t.cpl
        /\ r.gtype = t.gtype /\ r.names = t.names
    BY <1>2 DEF TableType
  <2> QED
    BY <2>1 DEF TableInv, Serves, Descends, Extends
<1>3. ASSUME i \notin ToSet(t.order), Consistent(list),
             r = [t EXCEPT !.epv[i] = inherited, !.cpl[i] = list, !.order = Append(@, i)]
      PROVE  /\ r \in TableType /\ TableInv(r) /\ Extends(r, t)
             /\ r.gtype = t.gtype /\ r.names = t.names
  <2>1. /\ t.order \in Seq(Interfaces) /\ t.epv \in [Interfaces -> SUBSET Ops]
        /\ t.cpl \in [AllClasses -> Seq(AllClasses)]
    BY DEF TableType
  <2>2. /\ IsInjective(t.order) /\ ListsOK(t.cpl)
        /\ ToSet(t.order) = Known(t.cpl) \cap Interfaces
        /\ \A j \in ToSet(t.order) : Serves(t, j) /\ Descends(t, j)
    BY DEF TableInv
  <2>3. /\ Parents(t, i) \in Seq(AllClasses) /\ ToSet(Parents(t, i)) = known
        /\ known \subseteq Known(t.cpl) /\ known = ToSet(Bases[i]) \cap ToSet(t.order)
        /\ i \in AllClasses /\ i \notin Known(t.cpl)
    <3>1. Parents(t, i) \in Seq(Interfaces) /\ ToSet(Parents(t, i)) = known
      BY ParentsIs
    <3>2. known = ToSet(Bases[i]) \cap ToSet(t.order)
      BY DEF KnownBases
    <3>3. Interfaces \subseteq AllClasses
      BY DEF AllClasses
    <3>4. Parents(t, i) \in Seq(AllClasses)
      BY <3>1, <3>3, SeqMonotonic
    <3> QED
      BY <1>3, <2>2, <3>1, <3>2, <3>3, <3>4
  <2>4. /\ r.order = Append(t.order, i)
        /\ r.epv = [t.epv EXCEPT ![i] = inherited]
        /\ r.cpl = [t.cpl EXCEPT ![i] = list]
        /\ r.gtype = t.gtype /\ r.names = t.names /\ r.stopped = t.stopped
    BY <1>3 DEF TableType
  <2>5. r = [order |-> r.order, epv |-> r.epv, cpl |-> r.cpl, gtype |-> r.gtype,
             names |-> r.names, stopped |-> r.stopped]
    BY <1>3 DEF TableType
  <2> HIDE DEF list, known, inherited
  <2>6. /\ ListsOK(r.cpl) /\ Known(r.cpl) = Known(t.cpl) \cup {i}
        /\ \A c \in AllClasses : r.cpl[c] = IF c = i THEN list ELSE t.cpl[c]
        /\ ToSet(list) = {i} \cup known \cup UNION {ToSet(t.cpl[b]) : b \in known}
    <3>1. list = Linearize(i, Parents(t, i), t.cpl)
      BY DEF list
    <3>2. Added(r.cpl, t.cpl, i, Parents(t, i), list)
      BY <1>3, <2>2, <2>3, <2>4, <3>1, NewClass
    <3> QED
      BY <2>3, <3>2 DEF Added
  <2>7. /\ r.order \in Seq(Interfaces) /\ ToSet(r.order) = ToSet(t.order) \cup {i}
        /\ IsInjective(r.order)
        /\ \A a, b : Precedes(t.order, a, b) => Precedes(r.order, a, b)
        /\ \A a \in ToSet(t.order) : Precedes(r.order, a, i)
        /\ \A a, b : Precedes(r.order, a, b)
              => Precedes(t.order, a, b) \/ (a \in ToSet(t.order) /\ b = i)
    BY <1>3, <2>1, <2>2, <2>4, ListAppend
  <2>8. \A a, b : Precedes(t.order, a, b) => a \in ToSet(t.order) /\ b \in ToSet(t.order)
    BY DEF Precedes, ToSet
  <2>9. \A a : Precedes(r.order, a, i) <=> a \in ToSet(t.order)
    BY <1>3, <2>7, <2>8
  <2>10. \A b \in known : b \in Interfaces
    BY <2>2, <2>3
  <2>11. \A op : op \in inherited <=> (\E b \in known : op \in OpsOf[b]) \/ op \in OpsOf[i]
    <3>1. \A op : op \in InheritedEpv(t, i) <=> \E b \in known : op \in OpsOf[b]
      BY DEF InheritedEpv, known
    <3> QED
      BY <3>1 DEF inherited
  <2>12. inherited \subseteq Ops
    BY <2>10, <2>11, OwnerIs
  <2>13. \A j \in Interfaces : r.epv[j] = IF j = i THEN inherited ELSE t.epv[j]
    BY <2>1, <2>4
  <2>14. r \in TableType
    <3>1. r.epv \in [Interfaces -> SUBSET Ops]
      BY <2>1, <2>4, <2>12
    <3>2. r.cpl \in [AllClasses -> Seq(AllClasses)]
      BY <2>6 DEF ListsOK
    <3>3. /\ t.gtype \in [Types -> Types \cup {None}] /\ t.names \in SUBSET Types
          /\ t.stopped \in BOOLEAN
      BY DEF TableType
    <3> QED
      BY <2>4, <2>5, <2>7, <3>1, <3>2, <3>3 DEF TableType
  <2>15. ASSUME NEW j \in ToSet(t.order) PROVE Serves(r, j) /\ Descends(r, j)
    <3>1. j \in Interfaces /\ j \in AllClasses /\ j # i
      BY <1>3, <2>2 DEF AllClasses
    <3>2. \A a : Precedes(r.order, a, j) <=> Precedes(t.order, a, j)
      BY <2>7, <3>1
    <3>3. r.epv[j] = t.epv[j] /\ r.cpl[j] = t.cpl[j]
      BY <2>6, <2>13, <3>1
    <3>4. Serves(t, j) /\ Descends(t, j)
      BY <2>2
    <3> QED
      BY <3>2, <3>3, <3>4 DEF Serves, Descends
  <2>16. Serves(r, i)
    <3>1. r.epv[i] = inherited
      BY <2>13
    <3>2. ASSUME NEW op \in Ops \ OpsOf[i]
          PROVE  op \in inherited <=> Owner(op) \in known
      <4>1. Owner(op) \in Interfaces /\ op \in OpsOf[Owner(op)]
        BY OwnerIs
      <4>2. \A b \in known : op \in OpsOf[b] => Owner(op) = b
        BY <2>10, OwnerIs
      <4> QED
        BY <2>11, <4>1, <4>2
    <3> QED
      BY <2>3, <2>9, <2>11, <3>1, <3>2 DEF Serves
  <2>17. Descends(r, i)
    <3> SUFFICES ASSUME AllBases
                 PROVE  ToSet(list) = {i} \cup {b \in ToSet(Bases[i]) : Precedes(r.order, b, i)}
      BY <2>3, <2>6 DEF Descends
    <3>1. {b \in ToSet(Bases[i]) : Precedes(r.order, b, i)} = known
      BY <2>3, <2>9
    <3>2. ASSUME NEW b \in known PROVE ToSet(t.cpl[b]) \subseteq known
      <4>1. b \in ToSet(t.order) /\ b \in ToSet(Bases[i])
        BY <2>3
      <4>2. ToSet(t.cpl[b]) = {b} \cup {x \in ToSet(Bases[b]) : Precedes(t.order, x, b)}
        BY <2>2, <4>1 DEF Descends
      <4>3. ToSet(Bases[b]) \subseteq ToSet(Bases[i])
        BY <4>1 DEF AllBases
      <4> QED
        BY <2>3, <2>8, <4>1, <4>2, <4>3
    <3> QED
      BY <2>6, <3>1, <3>2
  <2>18. ToSet(r.order) = Known(r.cpl) \cap Interfaces
    BY <2>2, <2>6, <2>7
  <2>19. TableInv(r)
    BY <2>6, <2>7, <2>15, <2>16, <2>17, <2>18 DEF TableInv
  <2>20. Extends(r, t)
    BY <2>3, <2>6 DEF Extends, Known
  <2> QED
    BY <2>4, <2>14, <2>19, <2>20
<1> QED
  BY <1>1, <1>2, <1>3 DEF RegisterInterface

-----------------------------------------------------------------------------
(* Registering types *)

\* The names of an enumeration in some tables
Named(t, e) == {a \in t.names : EnumOf[a] = e}

\* An enumeration has a GType of its own, and never loses it but to an alias.
TypesInv(t) ==
    \A e \in Types : EnumOf[e] = e =>
        /\ t.gtype[e] \in Named(t, e) \cup {None}
        /\ Named(t, e) \subseteq {e} => {t.gtype[e]} \ {None} = Named(t, e)

\* guile_corba_generic_typecode_to_type changes the types only.
LEMMA TypeKeeps ==
    ASSUME NEW t \in TableType, NEW ty \in Types, NEW r, r = TypecodeToType(t, ty)
    PROVE  /\ r \in TableType /\ r.order = t.order /\ r.epv = t.epv /\ r.cpl = t.cpl
           /\ r.stopped = t.stopped
           /\ t.stopped \/ t.gtype[ty] # None => r = t
           /\ ~t.stopped /\ t.gtype[ty] = None =>
                /\ r.names = t.names \cup {ty}
                /\ \A e \in Types : r.gtype[e] = IF e = EnumOf[ty] THEN NewGType(t, ty)
                                                 ELSE t.gtype[e]
<1>1. CASE t.stopped \/ t.gtype[ty] # None
  BY <1>1 DEF TypecodeToType
<1>2. CASE ~(t.stopped \/ t.gtype[ty] # None)
  <2>1. r = [t EXCEPT !.gtype[EnumOf[ty]] = NewGType(t, ty), !.names = @ \cup {ty}]
    BY <1>2 DEF TypecodeToType
  <2>2. NewGType(t, ty) \in Types \cup {None} /\ EnumOf[ty] \in Types
    BY ModulesAssumption DEF NewGType
  <2>3. t.gtype \in [Types -> Types \cup {None}] /\ t.names \in SUBSET Types
    BY DEF TableType
  <2>4. /\ r.gtype = [t.gtype EXCEPT ![EnumOf[ty]] = NewGType(t, ty)]
        /\ r.names = t.names \cup {ty}
        /\ r.order = t.order /\ r.epv = t.epv /\ r.cpl = t.cpl /\ r.stopped = t.stopped
    BY <2>1 DEF TableType
  <2>5. r = [order |-> r.order, epv |-> r.epv, cpl |-> r.cpl, gtype |-> r.gtype,
             names |-> r.names, stopped |-> r.stopped]
    BY <2>1 DEF TableType
  <2>6. r.gtype \in [Types -> Types \cup {None}] /\ r.names \in SUBSET Types
    BY <2>2, <2>3, <2>4
  <2>7. r \in TableType
    BY <2>4, <2>5, <2>6 DEF TableType
  <2>8. \A e \in Types : r.gtype[e] = IF e = EnumOf[ty] THEN NewGType(t, ty) ELSE t.gtype[e]
    BY <2>3, <2>4
  <2> QED
    BY <1>2, <2>4, <2>7, <2>8
<1> QED
  BY <1>1, <1>2

\* and keeps what is said of them.
LEMMA TypeKeepsTypes ==
    ASSUME NEW t \in TableType, TypesInv(t), NEW ty \in Types
    PROVE  TypesInv(TypecodeToType(t, ty))
<1> DEFINE r == TypecodeToType(t, ty)
<1>1. /\ t.stopped \/ t.gtype[ty] # None => r = t
      /\ ~t.stopped /\ t.gtype[ty] = None =>
           /\ r.names = t.names \cup {ty}
           /\ \A e \in Types : r.gtype[e] = IF e = EnumOf[ty] THEN NewGType(t, ty)
                                            ELSE t.gtype[e]
  BY TypeKeeps
<1> HIDE DEF r
<1>2. CASE t.stopped \/ t.gtype[ty] # None
  BY <1>1, <1>2 DEF r
<1>3. CASE ~t.stopped /\ t.gtype[ty] = None
  <2> SUFFICES ASSUME NEW e \in Types, EnumOf[e] = e
               PROVE  /\ r.gtype[e] \in Named(r, e) \cup {None}
                      /\ Named(r, e) \subseteq {e} => {r.gtype[e]} \ {None} = Named(r, e)
    BY DEF TypesInv, r
  <2>1. /\ t.gtype[e] \in Named(t, e) \cup {None}
        /\ Named(t, e) \subseteq {e} => {t.gtype[e]} \ {None} = Named(t, e)
    BY DEF TypesInv
  <2>2. r.names = t.names \cup {ty} /\ t.names \in SUBSET Types
    BY <1>1, <1>3 DEF TableType
  <2>3. CASE EnumOf[ty] # e
    <3>1. Named(r, e) = Named(t, e)
      BY <2>2, <2>3 DEF Named
    <3>2. r.gtype[e] = t.gtype[e]
      BY <1>1, <1>3, <2>3
    <3> QED
      BY <2>1, <3>1, <3>2
  <2>4. CASE EnumOf[ty] = e
    <3>1. Named(r, e) = Named(t, e) \cup {ty}
      BY <2>2, <2>4 DEF Named
    <3>2. r.gtype[e] = IF ty \in t.names THEN None ELSE ty
      BY <1>1, <1>3, <2>4 DEF NewGType
    <3>3. r.gtype[e] \in Named(r, e) \cup {None}
      BY <3>1, <3>2
    <3>4. ASSUME Named(r, e) \subseteq {e} PROVE {r.gtype[e]} \ {None} = Named(r, e)
      <4>1. ty = e /\ Named(t, e) \subseteq {e} /\ Named(r, e) = {e}
        BY <3>1, <3>4
      <4>2. Named(t, e) = {}
        BY <1>3, <2>1, <4>1
      <4>3. ty \notin t.names
        BY <2>4, <4>2 DEF Named
      <4>4. r.gtype[e] = e /\ e # None
        BY <3>2, <4>1, <4>3, NoneAssumption
      <4> QED
        BY <4>1, <4>4
    <3> QED
      BY <3>3, <3>4
  <2> QED
    BY <2>3, <2>4
<1> QED
  BY <1>2, <1>3 DEF r

\* All the types of an imodule
LEMMA OpenTypes ==
    ASSUME NEW t \in TableType, NEW m \in Modules, TypesInv(t),
           NEW r, r = TypeAll(t, TypesOf[m])
    PROVE  /\ r \in TableType /\ r.order = t.order /\ r.epv = t.epv /\ r.cpl = t.cpl
           /\ TypesInv(r)
<1> DEFINE s == TypesOf[m]
           T == {x \in TableType : /\ x.order = t.order /\ x.epv = t.epv /\ x.cpl = t.cpl
                                   /\ TypesInv(x)}
<1>1. s \in Seq(Types)
  BY ModulesAssumption
<1>2. \A x \in T, ty \in Types : TypecodeToType(x, ty) \in T
  BY TypeKeeps, TypeKeepsTypes
<1>3. t \in T
  OBVIOUS
<1> HIDE DEF s, T
<1>4. PICK h \in [0..Len(s) -> T] : TypeRun(h, t, s)
  BY <1>1, <1>2, <1>3, TypeSteps
<1>5. r = h[Len(s)] /\ Len(s) \in 0..Len(s)
  BY <1>1, <1>4 DEF TypeRun, s
<1>6. r \in T
  BY <1>4, <1>5
<1> QED
  BY <1>6 DEF T

-----------------------------------------------------------------------------
(* The inductive invariant *)

RegistryInv ==
    /\ loaded \in SUBSET Modules
    /\ Tables \in TableType /\ TableInv(Tables) /\ TypesInv(Tables)

ServantType ==
    [class : AllClasses \cup {None}, kept : BOOLEAN, referenced : BOOLEAN,
     state : {"none", "active", "freed"}]

\* A servant that there is has a class that there is.
ServantInv ==
    /\ methods \in SUBSET Implements /\ crashed \in BOOLEAN
    /\ servant \in [Servants -> ServantType]
    /\ \A s \in Servants :
          /\ servant[s].state # "none" => servant[s].class \in Known(cpl)
          /\ servant[s].referenced \/ servant[s].kept => servant[s].state # "none"

\* A call that went beyond the finder has a servant that lives.
FrameOK(f) ==
    /\ servant[f.servant].state # "none"
    /\ f.at # "found" => servant[f.servant].state = "active"

Stack == {c \in Seq(Frames) : Len(c) <= MaxDepth /\ \A k \in DOMAIN c : FrameOK(c[k])}

IInv == RegistryInv /\ ServantInv /\ calls \in Stack

\* The tables, field by field
LEMMA TablesAre ==
    /\ Tables.order = order /\ Tables.epv = epv /\ Tables.cpl = cpl
    /\ Tables.gtype = gtype /\ Tables.names = names /\ Tables.stopped = FALSE
  BY DEF Tables

\* What opening or registering leaves is taken over.
LEMMA Adopted ==
    ASSUME RegistryInv, NEW t \in TableType, TableInv(t), TypesInv(t), Extends(t, Tables),
           Adopt(t)
    PROVE  /\ Tables' \in TableType /\ TableInv(Tables)' /\ TypesInv(Tables)'
           /\ Known(cpl) \subseteq Known(cpl)'
<1>1. /\ Tables' = [order |-> t.order, epv |-> t.epv, cpl |-> t.cpl, gtype |-> t.gtype,
                    names |-> t.names, stopped |-> FALSE]
      /\ cpl' = t.cpl
  BY DEF Adopt, Tables
<1>2. Tables' \in TableType
  BY <1>1 DEF TableType
<1>3. TableInv(Tables)'
  BY <1>1 DEF TableInv, Serves, Descends
<1>4. Known(cpl) \subseteq Known(cpl)'
  BY <1>1, TablesAre DEF Extends, Known
<1>5. TypesInv(Tables)'
  BY <1>1 DEF TypesInv, Named
<1> QED
  BY <1>2, <1>3, <1>4, <1>5

\* What the collector, the clients and the methods leave alone.
LEMMA SameRegistry ==
    ASSUME RegistryInv, UNCHANGED registry
    PROVE  RegistryInv' /\ Known(cpl)' = Known(cpl)
  BY DEF RegistryInv, registry, Tables, TableInv, Serves, Descends, TypesInv, Named

\* Opening an imodule: the interfaces one by one, then the types.
\* (corba-primitive-open-module)
LEMMA OpenModuleKeeps ==
    ASSUME RegistryInv, NEW m \in Modules, OpenModule(m)
    PROVE  RegistryInv' /\ Known(cpl) \subseteq Known(cpl)'
<1> DEFINE T == {x \in TableType : /\ TableInv(x) /\ Extends(x, Tables)
                                   /\ x.gtype = gtype /\ x.names = names}
           t == RegisterAll(Tables, InterfacesOf[m])
           r == TypeAll(t, TypesOf[m])
           s == InterfacesOf[m]
<1>1. Tables \in T
  BY TablesAre DEF RegistryInv, Extends
<1>2. \A x \in T, i \in Interfaces : RegisterInterface(x, i) \in T
  <2> SUFFICES ASSUME NEW x \in T, NEW i \in Interfaces PROVE RegisterInterface(x, i) \in T
    OBVIOUS
  <2>1. /\ RegisterInterface(x, i) \in TableType /\ TableInv(RegisterInterface(x, i))
        /\ Extends(RegisterInterface(x, i), x)
        /\ RegisterInterface(x, i).gtype = x.gtype /\ RegisterInterface(x, i).names = x.names
    BY RegisterKeeps
  <2>2. Extends(RegisterInterface(x, i), Tables)
    BY <2>1 DEF Extends
  <2> QED
    BY <2>1, <2>2
<1>3. s \in Seq(Interfaces)
  BY ModulesAssumption
<1>4. \E h \in [0..Len(s) -> T] : RegisterRun(h, Tables, s)
  <2> HIDE DEF T, s
  <2> QED
    BY <1>1, <1>2, <1>3, RegisterSteps
<1>5. t \in T
  BY <1>3, <1>4 DEF RegisterRun
<1>6. /\ t \in TableType /\ TableInv(t) /\ Extends(t, Tables)
      /\ t.gtype = gtype /\ t.names = names
  BY <1>5
<1>7. Adopt(r)
  BY DEF OpenModule, RegisterAll, TypeAll
<1> HIDE DEF T, t, s
<1>8. /\ r \in TableType /\ r.order = t.order /\ r.epv = t.epv /\ r.cpl = t.cpl
      /\ TypesInv(r)
  <2>1. TypesInv(t)
    BY <1>6, TablesAre DEF RegistryInv, TypesInv, Named
  <2> QED
    BY <1>6, <2>1, OpenTypes
<1> HIDE DEF r
<1>9. TableInv(r) /\ Extends(r, Tables)
  BY <1>6, <1>8 DEF TableInv, Serves, Descends, Extends
<1>10. /\ Tables' \in TableType /\ TableInv(Tables)' /\ TypesInv(Tables)'
       /\ Known(cpl) \subseteq Known(cpl)'
  BY <1>7, <1>8, <1>9, Adopted
<1>11. loaded' \in SUBSET Modules
  BY DEF OpenModule, RegistryInv
<1> QED
  BY <1>10, <1>11 DEF RegistryInv

\* One interface that a loaded typelib has
\* (corba-primitive-register-interface)
LEMMA RegisterByNameKeeps ==
    ASSUME RegistryInv, NEW i \in Interfaces, RegisterByName(i)
    PROVE  RegistryInv' /\ Known(cpl) \subseteq Known(cpl)'
<1> DEFINE r == RegisterInterface(Tables, i)
<1>1. /\ r \in TableType /\ TableInv(r) /\ Extends(r, Tables)
      /\ r.gtype = gtype /\ r.names = names
  BY RegisterKeeps, TablesAre DEF RegistryInv
<1>2. Adopt(r) /\ UNCHANGED loaded
  BY DEF RegisterByName
<1>3. TypesInv(r)
  BY <1>1, TablesAre DEF RegistryInv, TypesInv, Named
<1> HIDE DEF r
<1>4. /\ Tables' \in TableType /\ TableInv(Tables)' /\ TypesInv(Tables)'
      /\ Known(cpl) \subseteq Known(cpl)'
  BY <1>1, <1>2, <1>3, Adopted
<1> QED
  BY <1>2, <1>4 DEF RegistryInv

\* One type, whether its imodule was opened or not
\* (corba-typecode->gtype-class)
LEMMA TypecodeToGtypeClassKeeps ==
    ASSUME RegistryInv, NEW ty \in Types, TypecodeToGtypeClass(ty)
    PROVE  RegistryInv' /\ Known(cpl) \subseteq Known(cpl)'
<1> DEFINE r == TypecodeToType(Tables, ty)
<1>1. r \in TableType /\ r.order = order /\ r.epv = epv /\ r.cpl = cpl /\ TypesInv(r)
  BY TypeKeeps, TypeKeepsTypes, TablesAre DEF RegistryInv
<1>2. Adopt(r) /\ UNCHANGED loaded
  BY DEF TypecodeToGtypeClass
<1> HIDE DEF r
<1>3. TableInv(r) /\ Extends(r, Tables)
  BY <1>1, TablesAre DEF RegistryInv, TableInv, Serves, Descends, Extends
<1>4. /\ Tables' \in TableType /\ TableInv(Tables)' /\ TypesInv(Tables)'
      /\ Known(cpl) \subseteq Known(cpl)'
  BY <1>1, <1>2, <1>3, Adopted
<1> QED
  BY <1>2, <1>4 DEF RegistryInv

\* A class of the program
LEMMA DefineClassKeeps ==
    ASSUME RegistryInv, NEW c \in Classes, DefineClass(c)
    PROVE  RegistryInv' /\ Known(cpl) \subseteq Known(cpl)'
<1> DEFINE list == Linearize(c, Supers[c], cpl)
<1>1. /\ c \in AllClasses /\ c \notin Interfaces /\ Supers[c] \in Seq(AllClasses)
      /\ Interfaces \subseteq AllClasses
  BY ClassesAssumption DEF AllClasses
<1>2. /\ c \notin Known(cpl) /\ ToSet(Supers[c]) \subseteq Known(cpl)
      /\ Consistent(list) /\ cpl' = [cpl EXCEPT ![c] = list]
      /\ UNCHANGED <<loaded, order, epv, gtype, names>>
  BY DEF DefineClass
<1>3. /\ IsInjective(order) /\ ListsOK(cpl) /\ ToSet(order) = Known(cpl) \cap Interfaces
      /\ \A i \in ToSet(order) : Serves(Tables, i) /\ Descends(Tables, i)
  BY TablesAre DEF RegistryInv, TableInv
<1>4. Added(cpl', cpl, c, Supers[c], list)
  BY <1>1, <1>2, <1>3, NewClass
<1> HIDE DEF list
<1>5. /\ ListsOK(cpl') /\ Known(cpl') = Known(cpl) \cup {c}
      /\ \A d \in AllClasses : cpl'[d] = IF d = c THEN list ELSE cpl[d]
  BY <1>4 DEF Added
<1>6. ToSet(order) = Known(cpl') \cap Interfaces /\ ToSet(order) \subseteq AllClasses \ {c}
  BY <1>1, <1>3, <1>5
<1>7. /\ Tables'.order = order /\ Tables'.epv = epv /\ Tables'.cpl = cpl'
  BY <1>2 DEF Tables
<1>8. \A i \in ToSet(order) : Serves(Tables', i) /\ Descends(Tables', i)
  <2>1. \A i \in ToSet(order) : cpl'[i] = cpl[i]
    BY <1>5, <1>6
  <2> QED
    BY <1>3, <1>7, <2>1, TablesAre DEF Serves, Descends
<1>9. TableInv(Tables')
  BY <1>3, <1>5, <1>6, <1>7, <1>8 DEF TableInv
<1>10. Tables' \in TableType
  <2>1. /\ order \in Seq(Interfaces) /\ epv \in [Interfaces -> SUBSET Ops]
        /\ gtype \in [Types -> Types \cup {None}] /\ names \in SUBSET Types
    BY TablesAre DEF RegistryInv, TableType
  <2>2. cpl' \in [AllClasses -> Seq(AllClasses)]
    BY <1>5 DEF ListsOK
  <2> QED
    BY <1>2, <2>1, <2>2 DEF Tables, TableType
<1>11. TypesInv(Tables')
  BY <1>2 DEF RegistryInv, Tables, TypesInv, Named
<1> QED
  BY <1>2, <1>5, <1>9, <1>10, <1>11 DEF RegistryInv

-----------------------------------------------------------------------------
(* Servants and calls *)

\* The stack stays one when a frame is taken, changed or added.
LEMMA StackOps ==
    ASSUME NEW c \in Stack
    PROVE  /\ c # <<>> => /\ Front(c) \in Stack /\ Last(c) \in Frames /\ FrameOK(Last(c))
                          /\ \A f \in Frames : FrameOK(f) => [c EXCEPT ![Len(c)] = f] \in Stack
           /\ Len(c) < MaxDepth =>
                \A f \in Frames : FrameOK(f) => Append(c, f) \in Stack
<1> DEFINE n == Len(c)
<1>1. /\ c \in Seq(Frames) /\ n \in Nat /\ DOMAIN c = 1..n /\ n <= MaxDepth
      /\ \A k \in 1..n : c[k] \in Frames /\ FrameOK(c[k])
  BY DEF Stack
<1>2. ASSUME c # <<>>
      PROVE  /\ Front(c) \in Stack /\ Last(c) \in Frames /\ FrameOK(Last(c))
             /\ \A f \in Frames : FrameOK(f) => [c EXCEPT ![Len(c)] = f] \in Stack
  <2>1. n > 0
    BY <1>1, <1>2, EmptySeq
  <2>2. /\ Front(c) \in Seq(Frames) /\ Len(Front(c)) = n - 1
        /\ \A k \in 1..(n - 1) : Front(c)[k] = c[k]
    BY <1>1, <2>1 DEF Front
  <2>3. Front(c) \in Stack
    <3>1. DOMAIN Front(c) = 1..(n - 1)
      BY <2>2
    <3> HIDE DEF n
    <3>2. n - 1 <= MaxDepth /\ \A k \in 1..(n - 1) : k \in 1..n
      BY <1>1, <2>1, BoundsAssumption
    <3> QED
      BY <1>1, <2>2, <3>1, <3>2 DEF Stack
  <2>4. Last(c) = c[n] /\ n \in 1..n
    BY <1>1, <2>1 DEF Last
  <2>5. ASSUME NEW f \in Frames, FrameOK(f) PROVE [c EXCEPT ![Len(c)] = f] \in Stack
    <3> DEFINE d == [c EXCEPT ![n] = f]
    <3>1. d \in Seq(Frames) /\ Len(d) = n
      BY <1>1, <2>1
    <3>2. \A k \in 1..n : d[k] = IF k = n THEN f ELSE c[k]
      BY <1>1
    <3>3. DOMAIN d = 1..n
      BY <3>1
    <3> HIDE DEF d, n
    <3>4. d \in Stack
      BY <1>1, <2>5, <3>1, <3>2, <3>3 DEF Stack
    <3> QED
      BY <3>4 DEF d, n
  <2> QED
    BY <1>1, <2>3, <2>4, <2>5
<1>3. ASSUME n < MaxDepth, NEW f \in Frames, FrameOK(f) PROVE Append(c, f) \in Stack
  <2>1. /\ Append(c, f) \in Seq(Frames) /\ Len(Append(c, f)) = n + 1
        /\ \A k \in 1..(n + 1) : Append(c, f)[k] = IF k = n + 1 THEN f ELSE c[k]
    BY <1>1, AppendProperties
  <2>2. DOMAIN Append(c, f) = 1..(n + 1)
    BY <2>1
  <2> HIDE DEF n
  <2>3. \A k \in 1..(n + 1) : k = n + 1 \/ k \in 1..n
    BY <1>1
  <2>4. n + 1 <= MaxDepth
    BY <1>1, <1>3, BoundsAssumption
  <2> QED
    BY <1>1, <1>3, <2>1, <2>2, <2>3, <2>4 DEF Stack
<1> QED
  BY <1>2, <1>3

\* So does changing where its innermost frame is, while its servant lives.
LEMMA StackAt ==
    ASSUME NEW c \in Stack, c # <<>>, Last(c).at # "found",
           NEW at \in {"running", "waiting", "thrown"}
    PROVE  [c EXCEPT ![Len(c)].at = at] \in Stack
<1>1. Last(c) = c[Len(c)] /\ Last(c) \in Frames /\ FrameOK(Last(c))
  BY StackOps DEF Last
<1> DEFINE f == [c[Len(c)] EXCEPT !.at = at]
<1>2. f \in Frames /\ FrameOK(f)
  BY <1>1 DEF Frames, FrameOK
<1>3. [c EXCEPT ![Len(c)] = f] \in Stack
  BY <1>2, StackOps
<1> QED
  BY <1>3

\* A client that is told an outcome leaves a stack.
LEMMA AnsweredKeeps ==
    ASSUME NEW below \in Stack, NEW outcome, NEW raised, Answered(below, outcome, raised)
    PROVE  calls' \in Stack
<1>1. CASE below = <<>> \/ Last(below).at # "waiting"
  BY <1>1 DEF Answered
<1>2. CASE ~(below = <<>> \/ Last(below).at # "waiting")
  <2>1. PICK at \in {"running", "thrown"} : calls' = [below EXCEPT ![Len(below)].at = at]
    BY <1>2 DEF Answered
  <2> QED
    BY <1>2, <2>1, StackAt
<1> QED
  BY <1>1, <1>2

\* The steps of calls leave the servants and the tables as they are.
CallStep ==
    \/ \E client \in Client, s \in Servants, op \in Ops : Call(client, s, op)
    \/ Enter \/ MethodReturns \/ NextMethod \/ Catch \/ Propagate
    \/ \E tag \in {"corba", "other"} : MethodRaises(tag)

\* They do.
LEMMA CallStepLeaves ==
    ASSUME CallStep, IInv
    PROVE  UNCHANGED <<registry, methods, servant>> /\ crashed' \in BOOLEAN
  BY DEF CallStep, IInv, ServantInv, Call, Enter, MethodReturns, NextMethod, Catch, Propagate,
         MethodRaises

\* The stack below the innermost call, and its frame
LEMMA TopIs ==
    ASSUME IInv, calls # <<>>
    PROVE  /\ Front(calls) \in Stack /\ Top \in Frames /\ FrameOK(Top)
           /\ Top.servant \in Servants /\ Top.todo \in SUBSET AllClasses
           /\ \A f \in Frames, at \in {"running", "waiting", "thrown"}, todo \in SUBSET AllClasses :
                 f = [Top EXCEPT !.at = at, !.todo = todo]
                 /\ servant[Top.servant].state = "active" /\ SetTop(f) => calls' \in Stack
<1>1. /\ Front(calls) \in Stack /\ Top \in Frames /\ FrameOK(Top)
      /\ \A f \in Frames : FrameOK(f) => [calls EXCEPT ![Len(calls)] = f] \in Stack
  BY StackOps DEF IInv, Top
<1>2. Top.servant \in Servants /\ Top.todo \in SUBSET AllClasses
  BY <1>1 DEF Frames
<1>3. ASSUME NEW f \in Frames, NEW at \in {"running", "waiting", "thrown"},
             NEW todo \in SUBSET AllClasses, f = [Top EXCEPT !.at = at, !.todo = todo],
             servant[Top.servant].state = "active", SetTop(f)
      PROVE  calls' \in Stack
  <2>1. f.servant = Top.servant /\ FrameOK(f)
    BY <1>1, <1>3 DEF Frames, FrameOK
  <2> QED
    BY <1>1, <1>3, <2>1 DEF SetTop
<1> QED
  BY <1>1, <1>2, <1>3

\* A new call has a servant that there is; its caller runs, and may wait.
LEMMA CallKeeps ==
    ASSUME IInv, NEW client \in Client, NEW s \in Servants, NEW op \in Ops, Call(client, s, op)
    PROVE  calls' \in Stack
<1>1. Below(client) \in Stack /\ Len(Below(client)) = Len(calls)
  <2>1. CASE calls = <<>> \/ client = "outside"
    BY <2>1 DEF Below, IInv
  <2>2. CASE ~(calls = <<>> \/ client = "outside")
    <3>1. Last(calls).at # "found"
      BY <2>2 DEF Call, SchemeRuns
    <3>2. Below(client) = [calls EXCEPT ![Len(calls)].at = "waiting"]
      BY <2>2 DEF Below
    <3>3. Below(client) \in Stack
      BY <2>2, <3>1, <3>2, StackAt DEF IInv
    <3>4. calls \in Seq(Frames)
      BY DEF IInv, Stack
    <3> QED
      BY <3>2, <3>3, <3>4
  <2> QED
    BY <2>1, <2>2
<1>2. CASE \E outcome : Answered(Below(client), outcome, "none")
  BY <1>1, <1>2, AnsweredKeeps
<1>3. CASE /\ servant[s].state # "freed"
           /\ calls' = Append(Below(client),
                              [servant |-> s, op |-> op, at |-> "found", todo |-> {}])
  <2> DEFINE f == [servant |-> s, op |-> op, at |-> "found", todo |-> {}]
  <2>1. servant[s].state # "none"
    BY DEF Call, IInv, ServantInv
  <2>2. f \in Frames /\ FrameOK(f)
    BY <2>1 DEF Frames, FrameOK
  <2>3. Len(Below(client)) < MaxDepth
    BY <1>1 DEF Call
  <2> HIDE DEF f
  <2>4. Append(Below(client), f) \in Stack
    BY <1>1, <2>2, <2>3, StackOps
  <2> QED
    BY <1>3, <2>4 DEF f
<1> QED
  BY <1>2, <1>3 DEF Call

\* The skeleton goes on only with a servant that lives.
LEMMA EnterKeeps ==
    ASSUME IInv, Enter
    PROVE  calls' \in Stack
<1>1. calls # <<>> /\ Top.at = "found"
  BY DEF Enter
<1>2. /\ Front(calls) \in Stack /\ Top \in Frames /\ FrameOK(Top) /\ Top.servant \in Servants
  BY <1>1, TopIs
<1> DEFINE todo == Applicable(Top.servant, Top.op)
<1>3. CASE UNCHANGED calls
  BY <1>3 DEF IInv
<1>4. CASE Return("NO_IMPLEMENT", "none")
  BY <1>2, <1>4, AnsweredKeeps DEF Return
<1>5. CASE /\ servant[Top.servant].state # "freed"
           /\ SetTop([Top EXCEPT !.at = "running", !.todo = todo])
  <2>1. servant[Top.servant].state = "active"
    <3>1. servant[Top.servant] \in ServantType
      BY <1>2 DEF IInv, ServantInv
    <3> QED
      BY <1>2, <1>5, <3>1 DEF FrameOK, ServantType
  <2>2. todo \in SUBSET AllClasses
    <3>1. servant[Top.servant].class \in Known(cpl)
      BY <1>2, <2>1 DEF IInv, ServantInv
    <3>2. ToSet(cpl[servant[Top.servant].class]) \subseteq Known(cpl)
      BY <3>1, TablesAre DEF IInv, RegistryInv, TableInv, ListsOK
    <3> QED
      BY <3>2 DEF Applicable, Known
  <2> HIDE DEF todo
  <2>3. [Top EXCEPT !.at = "running", !.todo = todo] \in Frames
    BY <1>2, <2>2 DEF Frames
  <2> QED
    BY <1>1, <1>5, <2>1, <2>2, <2>3, TopIs
<1> QED
  BY <1>3, <1>4, <1>5 DEF Enter

\* A method ends, or goes on to the next.
LEMMA MethodKeeps ==
    ASSUME IInv, MethodReturns \/ NextMethod \/ \E tag \in {"corba", "other"} : MethodRaises(tag)
    PROVE  calls' \in Stack
<1>1. calls # <<>> /\ Top.at = "running"
  BY DEF MethodReturns, NextMethod, MethodRaises, Running
<1>2. /\ Front(calls) \in Stack /\ Top \in Frames /\ FrameOK(Top)
      /\ Top.todo \in SUBSET AllClasses
  BY <1>1, TopIs
<1>3. CASE \E outcome, raised : Return(outcome, raised)
  BY <1>2, <1>3, AnsweredKeeps DEF Return
<1>4. CASE \E later \in SUBSET Top.todo : SetTop([Top EXCEPT !.todo = later])
  <2>1. PICK later \in SUBSET Top.todo : SetTop([Top EXCEPT !.todo = later])
    BY <1>4
  <2>2. [Top EXCEPT !.todo = later] = [Top EXCEPT !.at = "running", !.todo = later]
    BY <1>1, <1>2 DEF Frames
  <2>3. [Top EXCEPT !.todo = later] \in Frames /\ servant[Top.servant].state = "active"
    BY <1>1, <1>2 DEF Frames, FrameOK
  <2> QED
    BY <1>1, <1>2, <2>1, <2>2, <2>3, TopIs
<1> QED
  BY <1>3, <1>4 DEF MethodReturns, NextMethod, MethodRaises, Caught

\* A method catches what its call threw, or leaves with it.
LEMMA ThrownKeeps ==
    ASSUME IInv, Catch \/ Propagate
    PROVE  calls' \in Stack
<1>1. calls # <<>> /\ Top.at = "thrown"
  BY DEF Catch, Propagate
<1>2. /\ Front(calls) \in Stack /\ Top \in Frames /\ FrameOK(Top)
      /\ Top.todo \in SUBSET AllClasses
  BY <1>1, TopIs
<1>3. CASE Propagate
  BY <1>2, <1>3, AnsweredKeeps DEF Propagate, Caught, Return
<1>4. CASE Catch
  <2>1. [Top EXCEPT !.at = "running"] = [Top EXCEPT !.at = "running", !.todo = Top.todo]
    BY <1>2 DEF Frames
  <2>2. [Top EXCEPT !.at = "running"] \in Frames /\ servant[Top.servant].state = "active"
    BY <1>1, <1>2 DEF Frames, FrameOK
  <2>3. SetTop([Top EXCEPT !.at = "running"])
    BY <1>4 DEF Catch
  <2> QED
    BY <1>1, <1>2, <2>1, <2>2, <2>3, TopIs
<1> QED
  BY <1>3, <1>4

\* A servant that is made, referred to, forgotten or freed: no call that went
\* on has one that is freed.
ServantStep ==
    \/ \E s \in Servants : ServantToReference(s) \/ Forget(s) \/ Collect(s)
    \/ \E s \in Servants, c \in Instantiable : MakeServant(s, c)

\* A servant is collected only when no call that went on has it.
LEMMA ServantStepKeeps ==
    ASSUME IInv, ServantStep
    PROVE  IInv' /\ UNCHANGED registry
<1>1. PICK s \in Servants, sv \in ServantType :
         /\ servant' = [servant EXCEPT ![s] = sv]
         /\ UNCHANGED <<registry, methods, calls>> /\ crashed' \in BOOLEAN
         /\ sv.state # "none" /\ sv.class \in Known(cpl)
         /\ servant[s].state = "active" => sv.state = "active" \/ Collect(s)
  <2>1. ASSUME NEW s \in Servants, ServantToReference(s) \/ Forget(s) \/ Collect(s)
        PROVE  \E sv \in ServantType :
                 /\ servant' = [servant EXCEPT ![s] = sv]
                 /\ UNCHANGED <<registry, methods, calls>> /\ crashed' \in BOOLEAN
                 /\ sv.state # "none" /\ sv.class \in Known(cpl)
                 /\ servant[s].state = "active" => sv.state = "active" \/ Collect(s)
    <3>1. servant[s] \in ServantType /\ servant[s].state # "none"
          /\ servant[s].class \in Known(cpl) /\ crashed \in BOOLEAN
      BY <2>1 DEF IInv, ServantInv, ServantToReference, Forget, Collect
    <3>2. CASE ServantToReference(s)
      <4> DEFINE sv == [servant[s] EXCEPT !.referenced = TRUE]
      <4>1. sv \in ServantType /\ sv.class = servant[s].class /\ sv.state = servant[s].state
        BY <3>1 DEF ServantType
      <4>2. servant' = [servant EXCEPT ![s] = sv] /\ UNCHANGED <<registry, methods, calls, crashed>>
        BY <3>2 DEF ServantToReference
      <4> HIDE DEF sv
      <4> QED
        BY <3>1, <3>2, <4>1, <4>2
    <3>3. CASE Forget(s)
      <4> DEFINE sv == [servant[s] EXCEPT !.kept = FALSE]
      <4>1. sv \in ServantType /\ sv.class = servant[s].class /\ sv.state = servant[s].state
        BY <3>1 DEF ServantType
      <4>2. servant' = [servant EXCEPT ![s] = sv] /\ UNCHANGED <<registry, methods, calls, crashed>>
        BY <3>3 DEF Forget
      <4> HIDE DEF sv
      <4> QED
        BY <3>1, <3>3, <4>1, <4>2
    <3>4. CASE Collect(s)
      <4> DEFINE sv == [servant[s] EXCEPT !.state = "freed"]
      <4>1. sv \in ServantType /\ sv.class = servant[s].class /\ sv.state = "freed"
        BY <3>1 DEF ServantType
      <4>2. servant' = [servant EXCEPT ![s] = sv] /\ UNCHANGED <<registry, methods, calls, crashed>>
        BY <3>4 DEF Collect
      <4> HIDE DEF sv
      <4> QED
        BY <3>1, <3>4, <4>1, <4>2
    <3> QED
      BY <2>1, <3>2, <3>3, <3>4
  <2>2. ASSUME NEW s \in Servants, NEW c \in Instantiable, MakeServant(s, c)
        PROVE  \E sv \in ServantType :
                 /\ servant' = [servant EXCEPT ![s] = sv]
                 /\ UNCHANGED <<registry, methods, calls>> /\ crashed' \in BOOLEAN
                 /\ sv.state # "none" /\ sv.class \in Known(cpl)
                 /\ servant[s].state = "active" => sv.state = "active" \/ Collect(s)
    <3> DEFINE new == [class |-> c, kept |-> TRUE, referenced |-> FALSE, state |-> "active"]
    <3>1. c \in Known(cpl) /\ c \in AllClasses /\ crashed \in BOOLEAN
      BY <2>2 DEF MakeServant, Known, IInv, ServantInv
    <3>2. new \in ServantType /\ new.class = c /\ new.state = "active"
      BY <3>1 DEF ServantType
    <3>3. servant' = [servant EXCEPT ![s] = new] /\ UNCHANGED <<registry, methods, calls, crashed>>
      BY <2>2 DEF MakeServant
    <3> HIDE DEF new
    <3> QED
      BY <3>1, <3>2, <3>3
  <2> QED
    BY <2>1, <2>2 DEF ServantStep
<1>2. servant \in [Servants -> ServantType]
  BY DEF IInv, ServantInv
<1>3. /\ servant' \in [Servants -> ServantType]
      /\ \A x \in Servants : servant'[x] = IF x = s THEN sv ELSE servant[x]
  BY <1>1, <1>2
<1>4. RegistryInv' /\ Known(cpl)' = Known(cpl)
  BY <1>1, SameRegistry DEF IInv
<1>5. ServantInv'
  BY <1>1, <1>3, <1>4 DEF IInv, ServantInv
<1>6. (calls \in Stack)'
  <2>1. calls \in Seq(Frames) /\ calls' = calls /\ Len(calls) <= MaxDepth
    BY <1>1 DEF IInv, Stack
  <2>2. ASSUME NEW k \in DOMAIN calls PROVE FrameOK(calls[k])'
    <3>0. calls[k] \in Frames /\ FrameOK(calls[k])
      BY <2>1 DEF IInv, Stack
    <3>1. calls[k].servant \in Servants /\ FrameOK(calls[k])
      BY <3>0 DEF Frames
    <3>2. CASE calls[k].servant = s /\ sv.state # "active"
      <4>1. servant[s].state = "active" => s \notin OnStack(calls[k])
        BY <1>1, <3>2 DEF Collect
      <4> QED
        BY <1>1, <1>3, <2>1, <3>1, <3>2, <4>1 DEF FrameOK, OnStack
    <3> QED
      BY <1>1, <1>3, <2>1, <3>1, <3>2 DEF FrameOK
  <2> QED
    BY <2>1, <2>2 DEF Stack
<1> QED
  BY <1>1, <1>4, <1>5, <1>6 DEF IInv

-----------------------------------------------------------------------------
(* The invariant *)

\* At the start there is nothing.
LEMMA InitKeeps == Init => IInv
<1> SUFFICES ASSUME Init PROVE IInv
  OBVIOUS
<1>1. Known(cpl) = {} /\ ToSet(order) = {}
  BY DEF Init, Known, ToSet
<1>2. /\ cpl \in [AllClasses -> Seq(AllClasses)] /\ order \in Seq(Interfaces)
      /\ epv \in [Interfaces -> SUBSET Ops] /\ gtype \in [Types -> Types \cup {None}]
      /\ names \in SUBSET Types
  BY DEF Init
<1>3. Tables \in TableType
  BY <1>2 DEF Tables, TableType
<1>4. TableInv(Tables)
  <2>1. IsInjective(order)
    BY DEF Init, IsInjective
  <2> QED
    BY <1>1, <1>2, <2>1, TablesAre DEF TableInv, ListsOK, ListsInv
<1>5. TypesInv(Tables)
  BY TablesAre DEF Init, TypesInv, Named
<1>6. loaded \in SUBSET Modules
  BY DEF Init
<1>7. ServantInv
  BY DEF Init, ServantInv, ServantType, NoServant
<1>8. calls \in Stack
  BY BoundsAssumption DEF Init, Stack
<1> QED
  BY <1>3, <1>4, <1>5, <1>6, <1>7, <1>8 DEF IInv, RegistryInv

\* While the servants are as they were, a stack stays one.
LEMMA SameStack ==
    ASSUME UNCHANGED servant
    PROVE  (\A f : FrameOK(f)' <=> FrameOK(f)) /\ Stack' = Stack
  BY DEF FrameOK, Stack

\* Every step keeps the invariant.
LEMMA StepKeeps == IInv /\ [Next]_vars => IInv'
<1> SUFFICES ASSUME IInv, [Next]_vars PROVE IInv'
  OBVIOUS
<1>1. ASSUME RegistryInv', Known(cpl) \subseteq Known(cpl)',
             UNCHANGED <<servant, calls>>, crashed' \in BOOLEAN, methods' \in SUBSET Implements
      PROVE  IInv'
  <2>1. ServantInv'
    BY <1>1 DEF IInv, ServantInv
  <2>2. (calls \in Stack)'
    BY <1>1, SameStack DEF IInv
  <2> QED
    BY <1>1, <2>1, <2>2 DEF IInv
<1>2. CASE \E m \in Modules : OpenModule(m)
  <2>1. UNCHANGED <<servant, calls, crashed, methods>>
    BY <1>2 DEF OpenModule
  <2> QED
    BY <1>1, <1>2, <2>1, OpenModuleKeeps DEF IInv, ServantInv
<1>3. CASE \E i \in Interfaces : RegisterByName(i)
  <2>1. UNCHANGED <<servant, calls, crashed, methods>>
    BY <1>3 DEF RegisterByName
  <2> QED
    BY <1>1, <1>3, <2>1, RegisterByNameKeeps DEF IInv, ServantInv
<1>4. CASE \E ty \in Types : TypecodeToGtypeClass(ty)
  <2>1. UNCHANGED <<servant, calls, methods>> /\ crashed' \in BOOLEAN
    BY <1>4 DEF TypecodeToGtypeClass
  <2> QED
    BY <1>1, <1>4, <2>1, TypecodeToGtypeClassKeeps DEF IInv, ServantInv
<1>5. CASE \E c \in Classes : DefineClass(c)
  <2>1. UNCHANGED <<servant, calls, crashed, methods>>
    BY <1>5 DEF DefineClass
  <2> QED
    BY <1>1, <1>5, <2>1, DefineClassKeeps DEF IInv, ServantInv
<1>6. CASE \E im \in Implements : DefineMethod(im[1], im[2])
  <2>1. PICK im \in Implements : DefineMethod(im[1], im[2])
    BY <1>6
  <2>2. im = <<im[1], im[2]>>
    BY ClassesAssumption
  <2>3. methods' \in SUBSET Implements /\ UNCHANGED <<registry, servant, calls, crashed>>
    BY <2>1, <2>2 DEF DefineMethod, registry, IInv, ServantInv
  <2>4. RegistryInv' /\ Known(cpl)' = Known(cpl)
    BY <2>3, SameRegistry DEF IInv
  <2> QED
    BY <1>1, <2>3, <2>4 DEF IInv, ServantInv
<1>7. CASE ServantStep
  BY <1>7, ServantStepKeeps
<1>8. CASE CallStep
  <2>1. calls' \in Stack
    BY <1>8, CallKeeps, EnterKeeps, MethodKeeps, ThrownKeeps DEF CallStep
  <2>2. UNCHANGED <<registry, methods, servant>> /\ crashed' \in BOOLEAN
    BY <1>8, CallStepLeaves
  <2>3. RegistryInv' /\ Known(cpl)' = Known(cpl)
    BY <2>2, SameRegistry DEF IInv
  <2>4. ServantInv'
    BY <2>2, <2>3 DEF IInv, ServantInv
  <2>5. (calls \in Stack)'
    BY <2>1, <2>2, SameStack
  <2> QED
    BY <2>3, <2>4, <2>5 DEF IInv
<1>9. CASE UNCHANGED vars
  <2>1. UNCHANGED <<registry, methods, servant, calls, crashed>>
    BY <1>9 DEF vars, registry
  <2>2. RegistryInv' /\ Known(cpl)' = Known(cpl)
    BY <2>1, SameRegistry DEF IInv
  <2> QED
    BY <1>1, <1>9, <2>1, <2>2 DEF IInv, ServantInv
<1> QED
  BY <1>2, <1>3, <1>4, <1>5, <1>6, <1>7, <1>8, <1>9 DEF Next, ServantStep, CallStep

\* The invariant holds throughout.
LEMMA Invariant == Spec => []IInv
<1>1. IInv /\ [Next]_vars => IInv'
  BY StepKeeps
<1> QED
  BY <1>1, InitKeeps, PTL DEF Spec

-----------------------------------------------------------------------------
\* The tables, the servants and the stack of calls keep their types.
THEOREM TypeCorrect == Spec => []TypeOK
<1>1. IInv => TypeOK
  <2> SUFFICES ASSUME IInv PROVE TypeOK
    OBVIOUS
  <2>1. /\ order \in Seq(Interfaces) /\ epv \in [Interfaces -> SUBSET Ops]
        /\ gtype \in [Types -> Types \cup {None}] /\ names \subseteq Types
    BY TablesAre DEF IInv, RegistryInv, TableType
  <2>2. /\ IsInjective(order) /\ ListsOK(cpl) /\ ToSet(order) = Known(cpl) \cap Interfaces
    BY TablesAre DEF IInv, RegistryInv, TableInv
  <2>3. calls \in Seq(Frames) /\ Len(calls) <= MaxDepth
    BY DEF IInv, Stack
  <2> QED
    BY <2>1, <2>2, <2>3 DEF TypeOK, IInv, RegistryInv, ServantInv, ServantType, ListsOK
<1> QED
  BY <1>1, Invariant, PTL

\* An interface serves the operations of an ancestor exactly when that
\* ancestor was registered before it.
\* (guile_corba_sys_register_interface)
THEOREM AncestorsServed == Spec => []InheritedOps
<1>1. IInv => InheritedOps
  <2> SUFFICES ASSUME IInv, NEW i \in ToSet(order), NEW op \in Ops \ OpsOf[i]
               PROVE  op \in epv[i] <=> (Owner(op) \in ToSet(Bases[i]) /\ Before(Owner(op), i))
    BY DEF InheritedOps
  <2>1. Serves(Tables, i)
    BY TablesAre DEF IInv, RegistryInv, TableInv
  <2>2. op \in epv[i] <=> (Owner(op) \in ToSet(Bases[i]) /\ Precedes(order, Owner(op), i))
    BY <2>1, TablesAre DEF Serves
  <2>3. Before(Owner(op), i) <=> Precedes(order, Owner(op), i)
    BY DEF Before, Precedes
  <2> QED
    BY <2>2, <2>3
<1> QED
  BY <1>1, Invariant, PTL

\* The servant whose method runs, at any depth of calls, is not freed.
\* (scm_c_generic_skel_func, guile_corba_portable_server_servant_free)
THEOREM RunningKept == Spec => []RunningServantAlive
<1>1. IInv => RunningServantAlive
  BY DEF IInv, Stack, FrameOK, RunningServantAlive
<1> QED
  BY <1>1, Invariant, PTL

\* The table has no GType of another enumeration for one, and only an alias
\* takes an enumeration's own from it.
\* (guile_corba_generic_typecode_to_type)
THEOREM TypesOfEnums == Spec => []EnumsKeepType
<1>1. IInv => EnumsKeepType
  BY TablesAre DEF IInv, RegistryInv, TypesInv, Named, KnownAs, EnumsKeepType
<1> QED
  BY <1>1, Invariant, PTL

\* What a stub lets through, the skeleton knows, if base_interfaces has the
\* bases of each base.
LEMMA StubsMatch ==
    ASSUME AllBases, IInv
    PROVE  StubsMatchSkeletons
<1> SUFFICES ASSUME NEW i \in ToSet(order), NEW op \in Ops
             PROVE  Owner(op) \in ToSet(cpl[i]) <=> op \in epv[i]
  BY DEF StubsMatchSkeletons, StubAccepts
<1>1. Serves(Tables, i) /\ Descends(Tables, i) /\ i \in Interfaces
  BY TablesAre DEF IInv, RegistryInv, TableInv
<1>2. /\ ToSet(cpl[i]) = {i} \cup {b \in ToSet(Bases[i]) : Precedes(order, b, i)}
      /\ OpsOf[i] \subseteq epv[i]
      /\ op \notin OpsOf[i] =>
           (op \in epv[i] <=> Owner(op) \in ToSet(Bases[i]) /\ Precedes(order, Owner(op), i))
  BY <1>1, TablesAre DEF Serves, Descends
<1>3. op \in OpsOf[i] <=> Owner(op) = i
  BY <1>1, OwnerIs
<1> QED
  BY <1>2, <1>3

\* The stub classes and the epv_hash of an interface agree on what it serves.
THEOREM StubsAndSkeletons ==
    ASSUME AllBases
    PROVE  Spec => []StubsMatchSkeletons
<1>1. IInv => StubsMatchSkeletons
  BY StubsMatch
<1> QED
  BY <1>1, Invariant, PTL

\* The first of a list's classes that is in a set has no other before it.
LEMMA FirstIs ==
    ASSUME NEW S, NEW l \in Seq(S), NEW set, ToSet(l) \cap set # {}
    PROVE  /\ First(l, set) \in ToSet(l) \cap set
           /\ \E k \in DOMAIN l : /\ l[k] = First(l, set)
                                  /\ \A j \in DOMAIN l : l[j] \in set => k <= j
<1> DEFINE T == {k \in 1..Len(l) : l[k] \in set}
<1>1. DOMAIN l = 1..Len(l) /\ T \in SUBSET Nat /\ T # {}
  BY DEF ToSet
<1>2. Min(T) \in T /\ \A y \in T : Min(T) <= y
  BY <1>1, MinNumber
<1>3. First(l, set) = l[Min(T)]
  BY <1>1 DEF First, SelectInSeq
<1> QED
  BY <1>1, <1>2, <1>3 DEF ToSet

\* A method that a program defines for an operation of a servant's class can
\* be called, when one of its POA classes descends from all the others.
\* (corba-primitive-find-poa-class, impl_finder_func)
THEOREM MethodsServed ==
    ASSUME AllBases
    PROVE  Spec => []ImplementedOpsServed
<1>1. IInv => ImplementedOpsServed
  <2> SUFFICES ASSUME IInv, NEW s \in Servants, servant[s].state = "active",
                      NEW list, list = ToSet(cpl[servant[s].class]),
                      NEW i \in list \cap Interfaces, list \cap Interfaces \subseteq ToSet(cpl[i]),
                      NEW op \in Ops, NEW c \in list, Owner(op) \in ToSet(cpl[c])
               PROVE  op \in epv[PoaClass(servant[s].class)]
    BY DEF ImplementedOpsServed
  <2> DEFINE class == servant[s].class
             poa == PoaClass(class)
  <2>1. /\ ListsOK(cpl) /\ ToSet(order) = Known(cpl) \cap Interfaces
        /\ class \in Known(cpl) /\ class \in AllClasses /\ cpl[class] \in Seq(AllClasses)
    BY TablesAre DEF IInv, RegistryInv, TableInv, ServantInv, ListsOK, Known
  <2>2. /\ IsInjective(cpl[class]) /\ list \subseteq Known(cpl) /\ i \in Known(cpl)
        /\ ToSet(cpl[c]) \subseteq list
        /\ \A a, b \in AllClasses : Precedes(cpl[i], a, b) => Precedes(cpl[class], a, b)
        /\ cpl[i][1] = i /\ cpl[i] \in Seq(AllClasses)
    BY <2>1 DEF ListsOK, ListsInv, Known
  <2>3. PICK k \in DOMAIN cpl[class] :
           /\ cpl[class][k] = poa /\ poa \in list \cap Interfaces
           /\ \A j \in DOMAIN cpl[class] : cpl[class][j] \in Interfaces => k <= j
    <3>1. ToSet(cpl[class]) \cap Interfaces # {}
      OBVIOUS
    <3> HIDE DEF class, poa
    <3>2. /\ First(cpl[class], Interfaces) \in ToSet(cpl[class]) \cap Interfaces
          /\ \E k \in DOMAIN cpl[class] :
                /\ cpl[class][k] = First(cpl[class], Interfaces)
                /\ \A j \in DOMAIN cpl[class] : cpl[class][j] \in Interfaces => k <= j
      BY <2>1, <3>1, FirstIs
    <3>3. poa = First(cpl[class], Interfaces) /\ list = ToSet(cpl[class])
      BY DEF PoaClass, poa, class
    <3> QED
      BY <3>2, <3>3
  <2> HIDE DEF poa, class
  <2>4. poa = i
    <3> SUFFICES ASSUME poa # i PROVE FALSE
      OBVIOUS
    <3>1. poa \in ToSet(cpl[i])
      BY <2>3
    <3>2. PICK x \in DOMAIN cpl[i] : cpl[i][x] = poa
      BY <3>1 DEF ToSet
    <3>3. DOMAIN cpl[i] = 1..Len(cpl[i]) /\ Len(cpl[i]) \in Nat
      BY <2>2
    <3>4. x # 1 /\ x \in 1..Len(cpl[i])
      BY <2>2, <3>2, <3>3
    <3>5. 1 \in DOMAIN cpl[i] /\ 1 < x
      BY <3>3, <3>4
    <3>6. Precedes(cpl[i], i, poa)
      BY <2>2, <3>2, <3>5 DEF Precedes
    <3>7. i \in AllClasses /\ poa \in AllClasses
      BY <2>3 DEF AllClasses
    <3>8. PICK a, b \in DOMAIN cpl[class] : a < b /\ cpl[class][a] = i /\ cpl[class][b] = poa
      BY <2>2, <3>6, <3>7 DEF Precedes
    <3>9. b = k /\ k <= a
      BY <2>2, <2>3, <3>8 DEF IsInjective
    <3>10. a \in Nat /\ b \in Nat
      BY <2>1, <3>8
    <3> QED
      BY <3>8, <3>9, <3>10
  <2>5. Owner(op) \in ToSet(cpl[i])
    BY <2>2, OwnerIs
  <2>6. i \in ToSet(order)
    BY <2>1, <2>2
  <2>7. op \in epv[i]
    BY <2>5, <2>6, StubsMatch DEF StubsMatchSkeletons, StubAccepts
  <2> QED
    BY <2>4, <2>7 DEF poa, class
<1> QED
  BY <1>1, Invariant, PTL

=============================================================================
