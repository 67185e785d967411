--------------------------- MODULE EventReplProofs ---------------------------
(***************************************************************************)
(* For text that arrives in any number of lines (Lines), of any length and *)
(* any content, and calls of input nested to any depth: the loop evaluates *)
(* the forms of the whole text, each once and in its order.                *)
(*                                                                         *)
(* The answers to a text are a recursive function on its suffixes.  That   *)
(* the recursion has a solution, and of which type, is by induction over   *)
(* sets of numbers (Induction): they go down from the end of the text.     *)
(* The reader's answers do not change when more text arrives (Extension)   *)
(* nor when white space goes before (BlankShift).  So the loop need only   *)
(* remember that, however the text goes on, its answers are those given so *)
(* far and those from some place on (Continues), where the unread text     *)
(* begins (ReadInv).  The stacks that the loop reports do not depend on    *)
(* the text: for them any pieces will do (LoopInv).                        *)
(***************************************************************************)
EXTENDS EventRepl, SequenceTheorems, WellFoundedInduction, TLAPS

Text == Seq(Chars)
After(t, i) == SubSeq(t, i + 1, Len(t))

\* A line: white space ends the text and goes before what follows a symbol.
IsLine(t) ==
    /\ t # <<>> => t[Len(t)] = "w"
    /\ \A k \in 2..Len(t) : t[k] \in {"o", "c"} => t[k - 1] \in {"o", "c", "w"}

Lines == \A p \in Pieces : IsLine(p)

\* The reader has found a form or an error before the end of the text.
Complete(r) == r.kind = "datum" \/ (r.kind = "error" /\ ~r.eof)

-----------------------------------------------------------------------------
(* Numbers *)

\* Every set of numbers has a least one.
LEMMA LeastNumber ==
    ASSUME NEW T \in SUBSET Nat, T # {}
    PROVE  Least(T) \in T /\ \A y \in T : Least(T) <= y
<1> DEFINE R == OpToRel(<, Nat)
<1>1. IsWellFoundedOn(R, Nat)
  BY NatLessThanWellFounded
<1>2. T \subseteq Nat
  OBVIOUS
<1>3. \A x, y \in Nat : <<y, x>> \in R <=> y < x
  BY DEF OpToRel
<1> HIDE DEF R
<1>4. \E x \in T : \A y \in T : ~(<<y, x>> \in R)
  BY <1>1, <1>2, WFMin
<1>5. PICK x \in T : \A y \in T : ~(<<y, x>> \in R)
  BY <1>4
<1>6. ASSUME NEW y \in T PROVE x <= y
  <2>1. x \in Nat /\ y \in Nat /\ ~(y < x)
    BY <1>2, <1>3, <1>5
  <2> QED
    BY <2>1
<1> QED
  BY <1>6 DEF Least

\* And only one.
LEMMA LeastIs ==
    ASSUME NEW T \in SUBSET Nat, NEW x \in T, \A y \in T : x <= y
    PROVE  Least(T) = x
<1>1. Least(T) \in T /\ Least(T) <= x /\ x <= Least(T)
  BY LeastNumber
<1>2. Least(T) \in Nat /\ x \in Nat
  BY <1>1
<1> QED
  BY <1>1, <1>2

\* A set that has 0, and the next of each of its numbers, has all numbers.
LEMMA Induction ==
    ASSUME NEW T, 0 \in T, \A n \in Nat : n \in T => n + 1 \in T
    PROVE  Nat \subseteq T
<1> SUFFICES ASSUME Nat \ T # {} PROVE FALSE
  OBVIOUS
<1>1. PICK x \in Nat \ T : \A y \in Nat \ T : x <= y
  BY LeastNumber
<1>2. x # 0 /\ x - 1 \in Nat
  BY <1>1
<1>3. x - 1 \in T
  BY <1>1, <1>2
<1> QED
  BY <1>1, <1>2, <1>3

-----------------------------------------------------------------------------
(* Where the reader looks *)

Solid(t) == {i \in 1..Len(t) : t[i] # "w"}
SymbolEnds(t, i) == {j \in i..Len(t) : t[j] \in {"o", "c", "w"}}
ListEnds(t, i) == {j \in i..Len(t) : \/ Closes(t, i, j)
                                     \/ t[j] = "b" /\ Starts(t, j)}

\* The reader's operators, in terms of these sets
LEMMA ReadSymbolIs ==
    ASSUME NEW t \in Text, NEW i \in 1..Len(t)
    PROVE  ReadSymbol(t, i) =
             IF SymbolEnds(t, i) = {}
             THEN Found("datum", SubSeq(t, i, Len(t)), Len(t), Len(t), TRUE)
             ELSE LET j == Least(SymbolEnds(t, i)) IN
                  Found("datum", SubSeq(t, i, j - 1), j - 1, j, FALSE)
  BY DEF ReadSymbol, SymbolEnds

LEMMA ReadListIs ==
    ASSUME NEW t \in Text, NEW i \in 1..Len(t)
    PROVE  ReadList(t, i) =
             IF ListEnds(t, i) = {}
             THEN Found("error", <<>>, Len(t), Len(t), TRUE)
             ELSE LET j == Least(ListEnds(t, i)) IN
                  IF t[j] = "b"
                  THEN Found("error", <<>>, j, j, FALSE)
                  ELSE Found("datum", SubSeq(t, i, j), j, j, FALSE)
  BY DEF ReadList, ListEnds

LEMMA ReadIs ==
    ASSUME NEW t \in Text
    PROVE  /\ Solid(t) = {} => Read(t) = Found("eof", <<>>, Len(t), Len(t), TRUE)
           /\ Solid(t) # {} =>
                LET i == Least(Solid(t)) IN
                /\ i \in 1..Len(t) /\ t[i] # "w"
                /\ t[i] = "o" => Read(t) = ReadList(t, i)
                /\ t[i] = "s" => Read(t) = ReadSymbol(t, i)
                /\ t[i] \in {"c", "b"} => Read(t) = Found("error", <<>>, i, i, FALSE)
<1>1. Solid(t) \in SUBSET Nat
  BY DEF Solid
<1>2. Solid(t) # {} => Least(Solid(t)) \in Solid(t)
  BY <1>1, LeastNumber
<1>3. Solid(t) # {} => Least(Solid(t)) \in 1..Len(t) /\ t[Least(Solid(t))] # "w"
  BY <1>2 DEF Solid
<1> DEFINE i == Least(Solid(t))
<1>4. Read(t) = IF Solid(t) = {} THEN Found("eof", <<>>, Len(t), Len(t), TRUE)
                ELSE CASE t[i] = "o" -> ReadList(t, i)
                       [] t[i] = "s" -> ReadSymbol(t, i)
                       [] OTHER -> Found("error", <<>>, i, i, FALSE)
  BY DEF Read, Solid
<1> HIDE DEF i
<1>5. Solid(t) # {} =>
        /\ t[i] = "o" => Read(t) = ReadList(t, i)
        /\ t[i] = "s" => Read(t) = ReadSymbol(t, i)
        /\ t[i] \in {"c", "b"} => Read(t) = Found("error", <<>>, i, i, FALSE)
  BY <1>4
<1> QED
  BY <1>3, <1>4, <1>5 DEF i

\* In a line, the reader finds a form within the text, and fetches no more
\* than one character of white space behind it.
LEMMA ReadBounds ==
    ASSUME NEW t \in Text, IsLine(t)
    PROVE  LET r == Read(t) IN
           /\ Complete(r) =>
                /\ r.length \in 1..Len(t) /\ r.datum \in Text
                /\ \/ r.fetched = r.length
                   \/ /\ r.fetched = r.length + 1 /\ r.fetched \in 1..Len(t)
                      /\ t[r.fetched] = "w"
           /\ ~Complete(r) =>
                /\ r.length = Len(t) /\ r.fetched = Len(t) /\ r.eof
                /\ r.kind \in {"eof", "error"}
           /\ r.kind = "error" => (r.eof <=> ~Complete(r))
           /\ r.kind \in {"eof", "error", "datum"}
<1> DEFINE r == Read(t)
           i == Least(Solid(t))
<1> USE DEF Complete, Found
<1>a. /\ Len(t) \in Nat /\ \A k \in 1..Len(t) : t[k] \in Chars
      /\ <<>> \in Text
  BY DEF Text
<1>1. CASE Solid(t) = {}
  BY <1>1, <1>a, ReadIs
<1>2. CASE Solid(t) # {}
  <2>1. /\ i \in 1..Len(t) /\ t[i] \in {"o", "s", "c", "b"}
        /\ t[i] = "o" => r = ReadList(t, i)
        /\ t[i] = "s" => r = ReadSymbol(t, i)
        /\ t[i] \in {"c", "b"} => r = Found("error", <<>>, i, i, FALSE)
    <3> HIDE DEF Found
    <3> QED
      BY <1>2, <1>a, ReadIs DEF Chars
  <2> HIDE DEF i, r
  <2>2. CASE t[i] \in {"c", "b"}
    BY <2>1, <2>2, <1>a DEF r
  <2>3. CASE t[i] = "s"
    <3> DEFINE E == SymbolEnds(t, i)
               j == Least(E)
    <3>1. Len(t) \in E
      BY <1>a, <2>1, <2>3 DEF SymbolEnds, IsLine
    <3>2. E \in SUBSET Nat /\ j \in E /\ \A k \in E : j <= k
      <4>1. E \in SUBSET Nat
        BY <1>a, <2>1 DEF SymbolEnds
      <4> QED
        BY <3>1, <4>1, LeastNumber
    <3>3. j \in i..Len(t) /\ t[j] \in {"o", "c", "w"} /\ j # i
      BY <3>2, <2>3, <2>1, <1>a DEF SymbolEnds
    <3>4. \A k \in i..(j - 1) : t[k] \notin {"o", "c", "w"}
      <4> SUFFICES ASSUME NEW k \in i..(j - 1), t[k] \in {"o", "c", "w"} PROVE FALSE
        OBVIOUS
      <4>1. k \in E /\ k < j /\ k \in Nat /\ j \in Nat
        BY <3>3, <2>1, <1>a DEF SymbolEnds
      <4> QED
        BY <4>1, <3>2
    <3> HIDE DEF j, E
    <3>5. t[j] = "w"
      <4>1. j \in 2..Len(t) /\ j - 1 \in i..(j - 1)
        BY <3>3, <2>1, <1>a
      <4>2. t[j - 1] \notin {"o", "c", "w"}
        BY <4>1, <3>4
      <4> QED
        BY <4>1, <4>2, <3>3 DEF IsLine
    <3>6. r = Found("datum", SubSeq(t, i, j - 1), j - 1, j, FALSE)
      <4> HIDE DEF Found
      <4> QED
        BY <2>1, <2>3, <3>1, ReadSymbolIs DEF E, j
    <3>7. SubSeq(t, i, j - 1) \in Text
      BY <1>a, <2>1, <3>3, SubSeqProperties DEF Text
    <3> QED
      BY <3>3, <3>5, <3>6, <3>7, <2>1, <1>a DEF r
  <2>4. CASE t[i] = "o"
    <3> DEFINE E == ListEnds(t, i)
               j == Least(E)
    <3>1. CASE E = {}
      <4>1. r = Found("error", <<>>, Len(t), Len(t), TRUE)
        <5> HIDE DEF Found
        <5> QED
          BY <2>1, <2>4, <3>1, ReadListIs
      <4> QED
        BY <4>1, <1>a DEF r
    <3>2. CASE E # {}
      <4>1. j \in E
        <5>1. E \in SUBSET Nat
          BY <1>a, <2>1 DEF ListEnds
        <5> QED
          BY <3>2, <5>1, LeastNumber
      <4>2. j \in i..Len(t)
        BY <4>1 DEF ListEnds
      <4>3. r = IF t[j] = "b"
                THEN Found("error", <<>>, j, j, FALSE)
                ELSE Found("datum", SubSeq(t, i, j), j, j, FALSE)
        <5> HIDE DEF Found
        <5> QED
          BY <2>1, <2>4, <3>2, ReadListIs
      <4>4. SubSeq(t, i, j) \in Text /\ <<>> \in Text
        BY <1>a, <2>1, <4>2, SubSeqProperties, EmptySeq DEF Text
      <4> HIDE DEF j
      <4> QED
        BY <4>2, <4>3, <4>4, <2>1, <1>a DEF r
    <3> QED
      BY <3>1, <3>2
  <2> QED
    BY <2>1, <2>2, <2>3, <2>4
<1> QED
  BY <1>1, <1>2

-----------------------------------------------------------------------------
(* The text goes on *)

\* Larger numbers do not change the least one.
LEMMA LeastKept ==
    ASSUME NEW A \in SUBSET Nat, NEW B \in SUBSET Nat, NEW n \in Nat, A # {},
           \A k \in A : k <= n, \A k \in 0..n : k \in A <=> k \in B
    PROVE  B # {} /\ Least(B) = Least(A)
<1>1. PICK x \in A : x = Least(A) /\ \A y \in A : x <= y
  BY LeastNumber
<1>2. x \in 0..n /\ x \in B
  BY <1>1
<1>3. ASSUME NEW y \in B PROVE x <= y
  <2>1. CASE y <= n
    BY <1>1, <1>3, <2>1
  <2>2. CASE y > n
    BY <1>2, <2>2
  <2> QED
    BY <2>1, <2>2
<1> QED
  BY <1>1, <1>2, <1>3, LeastIs

\* A text and what follows it
LEMMA Longer ==
    ASSUME NEW t \in Text, NEW u \in Text
    PROVE  /\ t \o u \in Text /\ Len(t \o u) = Len(t) + Len(u)
           /\ Len(t) \in Nat /\ Len(u) \in Nat
           /\ \A k \in 1..Len(t) : (t \o u)[k] = t[k] /\ t[k] \in Chars
           /\ \A k \in 1..Len(u) : (t \o u)[Len(t) + k] = u[k]
           /\ \A i \in 1..Len(t), j \in 0..Len(t) :
                 SubSeq(t \o u, i, j) = SubSeq(t, i, j)
<1>1. /\ t \o u \in Text /\ Len(t \o u) = Len(t) + Len(u)
      /\ Len(t) \in Nat /\ Len(u) \in Nat
      /\ \A k \in 1..Len(t) : (t \o u)[k] = t[k] /\ t[k] \in Chars
      /\ \A k \in 1..Len(u) : (t \o u)[Len(t) + k] = u[k]
  BY DEF Text
<1>2. ASSUME NEW i \in 1..Len(t), NEW j \in 0..Len(t)
      PROVE  SubSeq(t \o u, i, j) = SubSeq(t, i, j)
  <2>1. CASE j = 0
    BY <2>1, SubSeqEmpty
  <2>2. CASE j # 0
    BY <2>2, <1>1, SubSeqOfConcat1 DEF Text
  <2> QED
    BY <2>1, <2>2
<1> QED
  BY <1>1, <1>2

\* What the reader has found does not change when more text arrives.
LEMMA Extension ==
    ASSUME NEW t \in Text, IsLine(t), NEW u \in Text, Complete(Read(t))
    PROVE  Read(t \o u) = Read(t)
<1> DEFINE v == t \o u
           i == Least(Solid(t))
           n == Len(t)
<1>1. /\ v \in Text /\ n \in Nat /\ Len(v) >= n /\ Len(v) \in Nat
      /\ \A k \in 1..n : v[k] = t[k] /\ t[k] \in Chars
      /\ \A k \in 1..n, j \in 0..n : SubSeq(v, k, j) = SubSeq(t, k, j)
  <2>1. n \in Nat /\ Len(u) \in Nat /\ Len(v) = n + Len(u)
    BY Longer
  <2>2. \A k \in 1..n, j \in 0..n : SubSeq(v, k, j) = SubSeq(t, k, j)
    BY Longer
  <2>3. v \in Text /\ \A k \in 1..n : v[k] = t[k] /\ t[k] \in Chars
    BY Longer
  <2> HIDE DEF v, n
  <2> QED
    BY <2>1, <2>2, <2>3
<1> HIDE DEF v
<1>2. Solid(t) # {}
  BY ReadIs DEF Complete, Found
<1>3. Solid(v) # {} /\ Least(Solid(v)) = i
  <2>1. /\ Solid(t) \in SUBSET Nat /\ Solid(v) \in SUBSET Nat
        /\ \A k \in Solid(t) : k <= n
        /\ \A k \in 0..n : k \in Solid(t) <=> k \in Solid(v)
    BY <1>1 DEF Solid
  <2> QED
    BY <1>1, <1>2, <2>1, LeastKept
<1>4. /\ i \in 1..n /\ t[i] \in {"o", "s", "c", "b"} /\ v[i] = t[i]
      /\ t[i] = "o" => Read(t) = ReadList(t, i) /\ Read(v) = ReadList(v, i)
      /\ t[i] = "s" => Read(t) = ReadSymbol(t, i) /\ Read(v) = ReadSymbol(v, i)
      /\ t[i] \in {"c", "b"} => Read(t) = Found("error", <<>>, i, i, FALSE)
                               /\ Read(v) = Found("error", <<>>, i, i, FALSE)
  <2> HIDE DEF i
  <2>1. /\ i \in 1..n /\ t[i] # "w"
        /\ t[i] = "o" => Read(t) = ReadList(t, i)
        /\ t[i] = "s" => Read(t) = ReadSymbol(t, i)
        /\ t[i] \in {"c", "b"} => Read(t) = Found("error", <<>>, i, i, FALSE)
    BY <1>2, ReadIs DEF i
  <2>2. /\ v[i] = "o" => Read(v) = ReadList(v, i)
        /\ v[i] = "s" => Read(v) = ReadSymbol(v, i)
        /\ v[i] \in {"c", "b"} => Read(v) = Found("error", <<>>, i, i, FALSE)
    BY <1>1, <1>3, ReadIs
  <2> QED
    BY <2>1, <2>2, <1>1 DEF Chars
<1> HIDE DEF i, n
<1>5. CASE t[i] \in {"c", "b"}
  BY <1>4, <1>5 DEF v
<1>6. CASE t[i] = "s"
  <2> DEFINE E == SymbolEnds(t, i)
             F == SymbolEnds(v, i)
             j == Least(E)
  <2>1. n \in E
    <3>1. t # <<>> /\ n \in i..Len(t)
      BY <1>1, <1>4 DEF n
    <3> QED
      BY <3>1 DEF SymbolEnds, IsLine, n
  <2>2. /\ E \in SUBSET Nat /\ F \in SUBSET Nat
        /\ \A k \in E : k <= n
        /\ \A k \in 0..n : k \in E <=> k \in F
    BY <1>1, <1>4 DEF SymbolEnds, n
  <2>3. F # {} /\ Least(F) = j
    BY <1>1, <2>1, <2>2, LeastKept
  <2>4. j \in E
    BY <2>1, <2>2, LeastNumber
  <2>5. j - 1 \in 0..n
    BY <2>4, <1>1, <1>4 DEF SymbolEnds, n
  <2> HIDE DEF j
  <2>6. SubSeq(v, i, j - 1) = SubSeq(t, i, j - 1)
    BY <1>1, <1>4, <2>5
  <2>7. ReadSymbol(v, i) = Found("datum", SubSeq(v, i, j - 1), j - 1, j, FALSE)
    <3>1. v \in Text /\ i \in 1..Len(v)
      BY <1>1, <1>4
    <3> QED
      BY <2>3, <3>1, ReadSymbolIs
  <2>8. ReadSymbol(t, i) = Found("datum", SubSeq(t, i, j - 1), j - 1, j, FALSE)
    BY <2>1, <1>1, <1>4, ReadSymbolIs DEF j, n
  <2> QED
    BY <1>4, <1>6, <2>6, <2>7, <2>8 DEF v
<1>7. CASE t[i] = "o"
  <2> DEFINE E == ListEnds(t, i)
             F == ListEnds(v, i)
             j == Least(E)
  <2>1. E # {}
    BY <1>4, <1>7, ReadListIs DEF Complete, Found, n
  <2>2. /\ E \in SUBSET Nat /\ F \in SUBSET Nat /\ \A k \in E : k <= n
    <3>1. E \subseteq i..Len(t) /\ F \subseteq i..Len(v)
      BY DEF ListEnds
    <3> QED
      BY <3>1, <1>1, <1>4 DEF n
  <2>3. ASSUME NEW k \in 0..n PROVE k \in E <=> k \in F
    <3>1. k \in i..Len(t) <=> k \in i..Len(v)
      BY <1>1, <1>4 DEF n
    <3>2. ASSUME k \in i..Len(t)
          PROVE  /\ Closes(t, i, k) <=> Closes(v, i, k)
                 /\ t[k] = v[k]
                 /\ Starts(t, k) <=> Starts(v, k)
      <4>1. k \in 1..n /\ (k # 1 => k - 1 \in 1..n)
        BY <3>2, <1>1, <1>4 DEF n
      <4>2. SubSeq(v, i, k) = SubSeq(t, i, k)
        BY <1>1, <1>4
      <4>3. t[k] = v[k] /\ (k # 1 => t[k - 1] = v[k - 1])
        BY <4>1, <1>1
      <4> QED
        BY <4>2, <4>3 DEF Closes, Starts
    <3> QED
      BY <3>1, <3>2 DEF ListEnds
  <2>4. F # {} /\ Least(F) = j
    BY <1>1, <2>1, <2>2, <2>3, LeastKept
  <2>5. j \in E
    BY <2>1, <2>2, LeastNumber
  <2>6. j \in 1..n
    BY <2>5, <1>1, <1>4 DEF ListEnds, n
  <2> HIDE DEF j
  <2>7. SubSeq(v, i, j) = SubSeq(t, i, j) /\ v[j] = t[j]
    BY <1>1, <1>4, <2>6
  <2>8. ReadList(v, i) = IF v[j] = "b" THEN Found("error", <<>>, j, j, FALSE)
                         ELSE Found("datum", SubSeq(v, i, j), j, j, FALSE)
    <3>1. v \in Text /\ i \in 1..Len(v)
      BY <1>1, <1>4
    <3> QED
      BY <2>4, <3>1, ReadListIs
  <2>9. ReadList(t, i) = IF t[j] = "b" THEN Found("error", <<>>, j, j, FALSE)
                         ELSE Found("datum", SubSeq(t, i, j), j, j, FALSE)
    BY <2>1, <1>1, <1>4, ReadListIs DEF j, n
  <2> QED
    BY <1>4, <1>7, <2>7, <2>8, <2>9 DEF v
<1> QED
  BY <1>4, <1>5, <1>6, <1>7

-----------------------------------------------------------------------------
(* White space before the text *)

\* When all numbers grow by one, so does the least.
LEMMA LeastShift ==
    ASSUME NEW A \in SUBSET Nat, NEW B \in SUBSET Nat, 0 \notin B,
           \A k \in Nat : k \in A <=> k + 1 \in B
    PROVE  /\ A = {} <=> B = {}
           /\ A # {} => Least(B) = Least(A) + 1
<1>1. ASSUME NEW y \in B PROVE y - 1 \in A
  BY <1>1
<1>2. A = {} <=> B = {}
  BY <1>1
<1>3. ASSUME A # {} PROVE Least(B) = Least(A) + 1
  <2>1. PICK x \in A : x = Least(A) /\ \A y \in A : x <= y
    BY <1>3, LeastNumber
  <2>2. x + 1 \in B
    BY <2>1
  <2>3. ASSUME NEW y \in B PROVE x + 1 <= y
    <3>1. y - 1 \in A /\ y \in Nat /\ x \in Nat
      BY <1>1
    <3>2. x <= y - 1
      BY <2>1, <3>1
    <3> QED
      BY <3>1, <3>2
  <2> QED
    BY <2>1, <2>2, <2>3, LeastIs
<1> QED
  BY <1>2, <1>3

\* Without its first character, a text is one shorter.
LEMMA Shorter ==
    ASSUME NEW t \in Text, t # <<>>
    PROVE  LET u == SubSeq(t, 2, Len(t)) IN
           /\ u \in Text /\ Len(t) \in Nat /\ Len(t) > 0 /\ Len(u) = Len(t) - 1
           /\ \A k \in 1..Len(u) : u[k] = t[k + 1]
           /\ \A k \in 1..Len(t) : t[k] \in Chars
           /\ \A i \in 1..Len(u), j \in 0..Len(u) :
                 SubSeq(u, i, j) = SubSeq(t, i + 1, j + 1)
<1> DEFINE u == SubSeq(t, 2, Len(t))
<1>1. Len(t) \in Nat /\ Len(t) > 0 /\ \A k \in 1..Len(t) : t[k] \in Chars
  BY DEF Text
<1>2. u \in Text /\ Len(u) = Len(t) - 1 /\ \A k \in 1..Len(u) : u[k] = t[k + 1]
  <2>1. \A k \in 2..Len(t) : t[k] \in Chars
    BY <1>1
  <2>2. u \in Seq(Chars)
    BY <1>1, <2>1, SubSeqProperties
  <2>3. Len(u) = IF 2 <= Len(t) THEN Len(t) - 2 + 1 ELSE 0
    BY <1>1, <2>1, SubSeqProperties
  <2>4. \A k \in 1..(Len(t) - 2 + 1) : u[k] = t[2 + k - 1]
    BY <1>1, <2>1, SubSeqProperties
  <2> HIDE DEF u
  <2>5. Len(u) = Len(t) - 1
    <3> DEFINE n == Len(t)
    <3>1. n \in Nat /\ n > 0 /\ Len(u) = IF 2 <= n THEN n - 2 + 1 ELSE 0
      BY <1>1, <2>3
    <3> HIDE DEF n
    <3>2. Len(u) = n - 1
      BY <3>1
    <3> QED
      BY <3>2 DEF n
  <2>6. \A k \in 1..Len(u) : u[k] = t[k + 1]
    BY <1>1, <2>4, <2>5
  <2> QED
    BY <2>2, <2>5, <2>6 DEF Text
<1>3. ASSUME NEW i \in 1..Len(u), NEW j \in 0..Len(u)
      PROVE  SubSeq(u, i, j) = SubSeq(t, i + 1, j + 1)
  <2>1. CASE j < i
    <3>1. SubSeq(u, i, j) = <<>>
      BY <2>1, <1>1, <1>2, SubSeqEmpty
    <3>2. SubSeq(t, i + 1, j + 1) = <<>>
      BY <2>1, <1>1, <1>2, SubSeqEmpty
    <3> QED
      BY <3>1, <3>2
  <2>2. CASE j >= i
    <3>1. /\ 2 \in 1..Len(t) /\ Len(t) \in 1..Len(t)
          /\ i \in 1..(Len(t) - 2 + 1) /\ j \in 1..(Len(t) - 2 + 1)
      BY <2>2, <1>1, <1>2
    <3>2. SubSeq(SubSeq(t, 2, Len(t)), i, j) = SubSeq(t, 2 + i - 1, 2 + j - 1)
      BY <3>1, SubSeqOfSubSeq DEF Text
    <3>3. 2 + i - 1 = i + 1 /\ 2 + j - 1 = j + 1
      BY <1>1, <1>2
    <3> QED
      BY <3>2, <3>3
  <2> QED
    BY <2>1, <2>2, <1>1, <1>2
<1> HIDE DEF u
<1>4. /\ u \in Text /\ Len(t) \in Nat /\ Len(t) > 0 /\ Len(u) = Len(t) - 1
      /\ \A k \in 1..Len(u) : u[k] = t[k + 1]
      /\ \A k \in 1..Len(t) : t[k] \in Chars
      /\ \A i \in 1..Len(u), j \in 0..Len(u) :
            SubSeq(u, i, j) = SubSeq(t, i + 1, j + 1)
  BY <1>1, <1>2, <1>3
<1> QED
  BY <1>4 DEF u

\* The reader skips white space: its answer is the same, one further on.
LEMMA BlankShift ==
    ASSUME NEW t \in Text, t # <<>>, t[1] = "w"
    PROVE  LET r == Read(SubSeq(t, 2, Len(t))) IN
           /\ Read(t).kind = r.kind /\ Read(t).datum = r.datum
           /\ Read(t).eof = r.eof /\ Read(t).length = r.length + 1
<1> DEFINE u == SubSeq(t, 2, Len(t))
           m == Len(u)
           i == Least(Solid(u))
<1> SUFFICES /\ Read(t).kind = Read(u).kind /\ Read(t).datum = Read(u).datum
             /\ Read(t).eof = Read(u).eof /\ Read(t).length = Read(u).length + 1
  OBVIOUS
<1>1. /\ u \in Text /\ m \in Nat /\ Len(t) = m + 1
      /\ \A k \in 1..m : u[k] = t[k + 1] /\ u[k] \in Chars
      /\ \A k \in 1..m, j \in 0..m : SubSeq(u, k, j) = SubSeq(t, k + 1, j + 1)
  <2>1. u \in Text /\ Len(t) \in Nat /\ Len(t) > 0 /\ m = Len(t) - 1
    BY Shorter
  <2>2. \A k \in 1..m : u[k] = t[k + 1]
    BY Shorter
  <2>3. \A k \in 1..m, j \in 0..m : SubSeq(u, k, j) = SubSeq(t, k + 1, j + 1)
    BY Shorter
  <2>4. \A k \in 1..Len(t) : t[k] \in Chars
    BY Shorter
  <2> HIDE DEF u, m
  <2> QED
    BY <2>1, <2>2, <2>3, <2>4
<1> HIDE DEF u
<1>2. /\ Solid(u) = {} <=> Solid(t) = {}
      /\ Solid(u) # {} => Least(Solid(t)) = i + 1
  <2>1. Solid(u) \in SUBSET Nat /\ Solid(t) \in SUBSET Nat /\ 0 \notin Solid(t)
    BY <1>1 DEF Solid
  <2>2. ASSUME NEW k \in Nat PROVE k \in Solid(u) <=> k + 1 \in Solid(t)
    <3>1. k = 0 => k + 1 \notin Solid(t)
      BY DEF Solid
    <3>2. k # 0 => (k \in 1..m <=> k + 1 \in 1..Len(t))
      BY <1>1
    <3> QED
      BY <3>1, <3>2, <1>1 DEF Solid
  <2> QED
    BY <2>1, <2>2, LeastShift
<1>3. CASE Solid(u) = {}
  <2>1. Read(u) = Found("eof", <<>>, m, m, TRUE)
    BY <1>1, <1>3, ReadIs
  <2>2. Read(t) = Found("eof", <<>>, m + 1, m + 1, TRUE)
    BY <1>1, <1>2, <1>3, ReadIs
  <2> QED
    BY <2>1, <2>2 DEF Found
<1>4. CASE Solid(u) # {}
  <2>1. /\ i \in 1..m /\ u[i] \in {"o", "s", "c", "b"} /\ t[i + 1] = u[i]
        /\ u[i] = "o" => Read(u) = ReadList(u, i) /\ Read(t) = ReadList(t, i + 1)
        /\ u[i] = "s" => Read(u) = ReadSymbol(u, i) /\ Read(t) = ReadSymbol(t, i + 1)
        /\ u[i] \in {"c", "b"} => Read(u) = Found("error", <<>>, i, i, FALSE)
              /\ Read(t) = Found("error", <<>>, i + 1, i + 1, FALSE)
    <3> HIDE DEF i
    <3>1. /\ i \in 1..m /\ u[i] # "w"
          /\ u[i] = "o" => Read(u) = ReadList(u, i)
          /\ u[i] = "s" => Read(u) = ReadSymbol(u, i)
          /\ u[i] \in {"c", "b"} => Read(u) = Found("error", <<>>, i, i, FALSE)
      BY <1>1, <1>4, ReadIs DEF i
    <3>2. /\ t[i + 1] = "o" => Read(t) = ReadList(t, i + 1)
          /\ t[i + 1] = "s" => Read(t) = ReadSymbol(t, i + 1)
          /\ t[i + 1] \in {"c", "b"} =>
               Read(t) = Found("error", <<>>, i + 1, i + 1, FALSE)
      BY <1>2, <1>4, ReadIs
    <3> QED
      BY <1>1, <3>1, <3>2 DEF Chars
  <2> HIDE DEF i, m
  <2>2. /\ i \in 1..Len(u) /\ i + 1 \in 1..Len(t) /\ i \in Nat
        /\ Len(u) = m
    BY <1>1, <2>1 DEF m
  <2>3. CASE u[i] \in {"c", "b"}
    <3>1. Read(u) = Found("error", <<>>, i, i, FALSE)
      BY <2>1, <2>3
    <3>2. Read(t) = Found("error", <<>>, i + 1, i + 1, FALSE)
      BY <2>1, <2>3
    <3> QED
      BY <3>1, <3>2 DEF Found
  <2>4. CASE u[i] = "s"
    <3> DEFINE A == SymbolEnds(u, i)
               B == SymbolEnds(t, i + 1)
               j == Least(A)
    <3>1. A \in SUBSET Nat /\ B \in SUBSET Nat /\ 0 \notin B
      BY <1>1, <2>1, <2>2 DEF SymbolEnds
    <3>2. ASSUME NEW k \in Nat PROVE k \in A <=> k + 1 \in B
      <4>1. k \in i..m <=> k + 1 \in (i + 1)..Len(t)
        BY <1>1, <2>2
      <4>2. k \in i..m => u[k] = t[k + 1]
        BY <1>1, <2>2
      <4> QED
        BY <4>1, <4>2, <2>2 DEF SymbolEnds
    <3>3. (A = {} <=> B = {}) /\ (A # {} => Least(B) = j + 1)
      BY <3>1, <3>2, LeastShift
    <3>4. CASE A = {}
      <4>1. SubSeq(u, i, m) = SubSeq(t, i + 1, m + 1)
        BY <1>1, <2>1
      <4>2. ReadSymbol(u, i) = Found("datum", SubSeq(u, i, m), m, m, TRUE)
        BY <1>1, <2>2, <3>4, ReadSymbolIs
      <4>3. ReadSymbol(t, i + 1) =
              Found("datum", SubSeq(t, i + 1, Len(t)), Len(t), Len(t), TRUE)
        BY <2>2, <3>3, <3>4, ReadSymbolIs
      <4> DEFINE d == SubSeq(u, i, m)
      <4>4. Read(u) = Found("datum", d, m, m, TRUE)
        BY <2>1, <2>4, <4>2
      <4>5. Read(t) = Found("datum", d, m + 1, m + 1, TRUE)
        BY <1>1, <2>1, <2>2, <2>4, <4>1, <4>3
      <4> HIDE DEF d
      <4> QED
        BY <1>1, <4>4, <4>5 DEF Found
    <3>5. CASE A # {}
      <4>1. j \in i..m
        <5>1. j \in A
          BY <3>1, <3>5, LeastNumber
        <5> QED
          BY <5>1, <2>2 DEF SymbolEnds
      <4> HIDE DEF j
      <4>2. j \in Nat /\ j - 1 \in 0..m /\ (j - 1) + 1 = j /\ (j + 1) - 1 = j
        BY <1>1, <2>2, <4>1
      <4>3. SubSeq(u, i, j - 1) = SubSeq(t, i + 1, (j - 1) + 1)
        BY <1>1, <2>1, <4>2
      <4>4. ReadSymbol(u, i) = Found("datum", SubSeq(u, i, j - 1), j - 1, j, FALSE)
        BY <1>1, <2>2, <3>5, ReadSymbolIs DEF j
      <4>5. ReadSymbol(t, i + 1) =
              Found("datum", SubSeq(t, i + 1, (j + 1) - 1), (j + 1) - 1, j + 1, FALSE)
        BY <2>2, <3>3, <3>5, ReadSymbolIs
      <4> DEFINE d == SubSeq(u, i, j - 1)
                 l == j - 1
      <4>6. Read(u) = Found("datum", d, l, j, FALSE)
        BY <2>1, <2>4, <4>4
      <4>7. Read(t) = Found("datum", d, l + 1, j + 1, FALSE)
        BY <2>1, <2>4, <4>2, <4>3, <4>5
      <4>8. l \in Nat
        BY <1>1, <4>2
      <4> HIDE DEF d, l
      <4> QED
        BY <4>6, <4>7, <4>8 DEF Found
    <3> QED
      BY <3>4, <3>5
  <2>5. CASE u[i] = "o"
    <3> DEFINE A == ListEnds(u, i)
               B == ListEnds(t, i + 1)
               j == Least(A)
    <3>1. A \in SUBSET Nat /\ B \in SUBSET Nat /\ 0 \notin B
      <4>1. A \subseteq i..Len(u) /\ B \subseteq (i + 1)..Len(t)
        BY DEF ListEnds
      <4> QED
        BY <4>1, <1>1, <2>2
    <3>2. ASSUME NEW k \in Nat PROVE k \in A <=> k + 1 \in B
      <4>1. k \in i..Len(u) <=> k + 1 \in (i + 1)..Len(t)
        BY <1>1, <2>2
      <4>2. ASSUME k \in i..Len(u)
            PROVE  /\ u[k] = t[k + 1]
                   /\ Closes(u, i, k) <=> Closes(t, i + 1, k + 1)
                   /\ Starts(u, k) <=> Starts(t, k + 1)
        <5>1. k \in 1..m /\ (k # 1 => k - 1 \in 1..m /\ (k - 1) + 1 = k)
              /\ (k + 1) - 1 = k /\ k + 1 # 1
          BY <1>1, <2>2, <4>2
        <5>2. SubSeq(u, i, k) = SubSeq(t, i + 1, k + 1)
          BY <1>1, <2>1, <5>1
        <5>3. u[k] = t[k + 1] /\ (k # 1 => u[k - 1] = t[k])
          BY <1>1, <5>1
        <5>4. Starts(u, k) <=> Starts(t, k + 1)
          <6>1. Starts(t, k + 1) <=> t[k] \in {"o", "c", "w"}
            BY <5>1 DEF Starts
          <6>2. Starts(u, k) <=> k = 1 \/ u[k - 1] \in {"o", "c", "w"}
            BY DEF Starts
          <6> QED
            BY <5>3, <6>1, <6>2
        <5> QED
          BY <5>2, <5>3, <5>4 DEF Closes
      <4> QED
        BY <4>1, <4>2 DEF ListEnds
    <3>3. (A = {} <=> B = {}) /\ (A # {} => Least(B) = j + 1)
      BY <3>1, <3>2, LeastShift
    <3>4. CASE A = {}
      <4>1. ReadList(u, i) = Found("error", <<>>, m, m, TRUE)
        BY <1>1, <2>2, <3>4, ReadListIs
      <4>2. ReadList(t, i + 1) = Found("error", <<>>, Len(t), Len(t), TRUE)
        BY <2>2, <3>3, <3>4, ReadListIs
      <4>3. Read(u) = Found("error", <<>>, m, m, TRUE)
        BY <2>1, <2>5, <4>1
      <4>4. Read(t) = Found("error", <<>>, m + 1, m + 1, TRUE)
        BY <1>1, <2>1, <2>5, <4>2
      <4> QED
        BY <1>1, <4>3, <4>4 DEF Found
    <3>5. CASE A # {}
      <4>1. j \in 1..m
        <5>1. j \in A
          BY <3>1, <3>5, LeastNumber
        <5>2. j \in i..Len(u)
          BY <5>1 DEF ListEnds
        <5> QED
          BY <5>2, <2>2
      <4> HIDE DEF j
      <4>2. SubSeq(u, i, j) = SubSeq(t, i + 1, j + 1) /\ u[j] = t[j + 1]
        BY <1>1, <2>1, <4>1
      <4>3. ReadList(u, i) = IF u[j] = "b" THEN Found("error", <<>>, j, j, FALSE)
                             ELSE Found("datum", SubSeq(u, i, j), j, j, FALSE)
        BY <1>1, <2>2, <3>5, ReadListIs DEF j
      <4>4. ReadList(t, i + 1) =
              IF t[j + 1] = "b" THEN Found("error", <<>>, j + 1, j + 1, FALSE)
              ELSE Found("datum", SubSeq(t, i + 1, j + 1), j + 1, j + 1, FALSE)
        BY <2>2, <3>3, <3>5, ReadListIs
      <4>5. j \in Nat
        BY <1>1, <4>1
      <4>6. CASE u[j] = "b"
        <5>1. Read(u) = Found("error", <<>>, j, j, FALSE)
          BY <2>1, <2>5, <4>3, <4>6
        <5>2. Read(t) = Found("error", <<>>, j + 1, j + 1, FALSE)
          BY <2>1, <2>5, <4>2, <4>4, <4>6
        <5> QED
          BY <4>5, <5>1, <5>2 DEF Found
      <4>7. CASE u[j] # "b"
        <5> DEFINE d == SubSeq(u, i, j)
        <5>1. Read(u) = Found("datum", d, j, j, FALSE)
          BY <2>1, <2>5, <4>3, <4>7
        <5>2. Read(t) = Found("datum", d, j + 1, j + 1, FALSE)
          BY <2>1, <2>5, <4>2, <4>4, <4>7
        <5> HIDE DEF d
        <5> QED
          BY <4>5, <5>1, <5>2 DEF Found
      <4> QED
        BY <4>6, <4>7
    <3> QED
      BY <3>4, <3>5
  <2> QED
    BY <2>1, <2>3, <2>4, <2>5
<1> QED
  BY <1>3, <1>4

-----------------------------------------------------------------------------
(* The answers to a text *)

Words == Seq(Chars \cup {"error"})

Answer(r) == IF r.kind = "datum" THEN r.datum ELSE <<"error">>

\* The answers from i on, where f are those further on
From(t, f, i) ==
    LET r == Read(After(t, i)) IN
    IF Complete(r) THEN <<Answer(r)>> \o f[i + r.length] ELSE <<>>

\* The end of a line is a line.
LEMMA SuffixLine ==
    ASSUME NEW t \in Text, IsLine(t), NEW i \in 0..Len(t)
    PROVE  /\ After(t, i) \in Text /\ IsLine(After(t, i))
           /\ Len(t) \in Nat /\ Len(After(t, i)) = Len(t) - i
           /\ \A k \in 1..(Len(t) - i) : After(t, i)[k] = t[i + k]
<1> DEFINE u == After(t, i)
           n == Len(t)
<1>1. n \in Nat /\ \A k \in (i + 1)..n : t[k] \in Chars
  BY DEF Text
<1>2. /\ u \in Text
      /\ Len(u) = IF i + 1 <= n THEN n - (i + 1) + 1 ELSE 0
      /\ \A k \in 1..(n - (i + 1) + 1) : u[k] = t[(i + 1) + k - 1]
  BY <1>1, SubSeqProperties DEF After, Text
<1> HIDE DEF u, n
<1>3. Len(u) = n - i
  BY <1>1, <1>2 DEF n
<1>4. \A k \in 1..(n - i) : u[k] = t[i + k]
  BY <1>1, <1>2 DEF n
<1>5. u # <<>> => u[Len(u)] = "w"
  <2> SUFFICES ASSUME u # <<>> PROVE u[Len(u)] = "w"
    OBVIOUS
  <2>1. Len(u) > 0
    BY <1>2, EmptySeq DEF Text
  <2>2. n - i \in 1..(n - i) /\ i + (n - i) = n /\ n > 0
    BY <1>1, <1>3, <2>1 DEF n
  <2>3. t # <<>>
    BY <2>2 DEF n
  <2> QED
    BY <1>3, <1>4, <2>2, <2>3 DEF IsLine, n
<1>6. ASSUME NEW k \in 2..Len(u), u[k] \in {"o", "c"}
      PROVE  u[k - 1] \in {"o", "c", "w"}
  <2>1. /\ k \in 1..(n - i) /\ k - 1 \in 1..(n - i) /\ i + k \in 2..n
        /\ i + (k - 1) = (i + k) - 1
    BY <1>1, <1>3, <1>6 DEF n
  <2> QED
    BY <1>4, <1>6, <2>1 DEF IsLine, n
<1>7. IsLine(u)
  BY <1>5, <1>6 DEF IsLine
<1> QED
  BY <1>1, <1>2, <1>3, <1>4, <1>7 DEF u, n

\* What the reader gives from i on is a word, and it ends within the text.
LEMMA ReadFrom ==
    ASSUME NEW t \in Text, IsLine(t), NEW i \in 0..Len(t),
           Complete(Read(After(t, i)))
    PROVE  LET r == Read(After(t, i)) IN
           /\ Answer(r) \in Words
           /\ i + r.length \in (i + 1)..Len(t)
<1> DEFINE r == Read(After(t, i))
<1>1. r.length \in 1..(Len(t) - i) /\ r.datum \in Text /\ Len(t) \in Nat
  BY SuffixLine, ReadBounds
<1> HIDE DEF r
<1>2. r.datum \in Words /\ <<"error">> \in Words
  BY <1>1 DEF Words, Text
<1> QED
  BY <1>1, <1>2 DEF r, Answer

\* What a text holds, its forms and the errors in it from each place on, is
\* well defined on every line: the recursion goes down from the end.
\* (tryread and evalbuf of make-event-repl)
THEOREM AnswersAre ==
    ASSUME NEW t \in Text, IsLine(t)
    PROVE  /\ Answers(t) \in [0..Len(t) -> Seq(Words)]
           /\ \A i \in 0..Len(t) : Answers(t)[i] = From(t, Answers(t), i)
<1> DEFINE L == Len(t)
           Solves(f, n) == /\ f \in [(L - n + 1)..L -> Seq(Words)]
                           /\ \A i \in (L - n + 1)..L : f[i] = From(t, f, i)
           T == {n \in Nat : n <= L + 1 => \E f : Solves(f, n)}
<1>0. L \in Nat
  BY DEF Text
\* The answers from i on are those that are further on, and one before them.
<1>1. ASSUME NEW i \in 0..L, NEW f, \A k \in (i + 1)..L : f[k] \in Seq(Words)
      PROVE  /\ From(t, f, i) \in Seq(Words)
             /\ \A g : (\A k \in (i + 1)..L : g[k] = f[k]) => From(t, g, i) = From(t, f, i)
  <2> DEFINE r == Read(After(t, i))
  <2>1. CASE Complete(r)
    <3>1. Answer(r) \in Words /\ i + r.length \in (i + 1)..L
      BY <2>1, ReadFrom
    <3>2. \A g : From(t, g, i) = <<Answer(r)>> \o g[i + r.length]
      BY <2>1 DEF From
    <3> DEFINE j == i + r.length
               a == Answer(r)
    <3> HIDE DEF r, j, a
    <3>3. f[j] \in Seq(Words) /\ a \in Words
      BY <1>1, <3>1 DEF j, a
    <3>4. \A g : From(t, g, i) = <<a>> \o g[j]
      BY <3>2 DEF j, a
    <3>5. <<a>> \o f[j] \in Seq(Words)
      BY <3>3
    <3>6. j \in (i + 1)..L
      BY <3>1 DEF j
    <3> QED
      BY <3>4, <3>5, <3>6
  <2>2. CASE ~Complete(r)
    BY <2>2 DEF From
  <2> QED
    BY <2>1, <2>2
<1>2. 0 \in T
  <2>1. (L - 0 + 1)..L = {}
    BY <1>0
  <2>2. Solves(<<>>, 0)
    BY <2>1
  <2> QED
    BY <2>2
<1>3. ASSUME NEW n \in Nat, n \in T PROVE n + 1 \in T
  <2> SUFFICES ASSUME n + 1 <= L + 1 PROVE \E g : Solves(g, n + 1)
    OBVIOUS
  <2> DEFINE i == L - n
  <2>1. PICK f : Solves(f, n)
    BY <1>0, <1>3
  <2>2. /\ i \in 0..L /\ L - n + 1 = i + 1 /\ L - (n + 1) + 1 = i
        /\ i \notin (i + 1)..L /\ i..L = {i} \cup ((i + 1)..L)
        /\ \A k \in (i + 1)..L : k \in 0..L /\ (k + 1)..L \subseteq (i + 1)..L
    BY <1>0
  <2> HIDE DEF i
  <2>3. /\ f \in [(i + 1)..L -> Seq(Words)]
        /\ \A k \in (i + 1)..L : f[k] = From(t, f, k)
    BY <2>1, <2>2
  <2> DEFINE g == [k \in i..L |-> IF k = i THEN From(t, f, i) ELSE f[k]]
  <2>4. \A k \in (i + 1)..L : g[k] = f[k] /\ g[k] \in Seq(Words)
    BY <2>2, <2>3
  <2>5. g[i] = From(t, f, i) /\ From(t, f, i) \in Seq(Words)
    BY <1>1, <2>2, <2>3
  <2>6. g \in [i..L -> Seq(Words)]
    BY <2>2, <2>4, <2>5
  <2> HIDE DEF g
  <2>7. From(t, g, i) = From(t, f, i)
    BY <1>1, <2>2, <2>3, <2>4
  <2>8. ASSUME NEW k \in (i + 1)..L PROVE g[k] = From(t, g, k)
    <3>1. k \in 0..L /\ \A j \in (k + 1)..L : f[j] \in Seq(Words) /\ g[j] = f[j]
      BY <2>2, <2>3, <2>4
    <3>2. From(t, g, k) = From(t, f, k)
      BY <1>1, <3>1
    <3> QED
      BY <2>3, <2>4, <3>2
  <2>9. \A k \in i..L : g[k] = From(t, g, k)
    BY <2>2, <2>5, <2>7, <2>8
  <2>10. Solves(g, n + 1)
    BY <2>2, <2>6, <2>9
  <2> QED
    BY <2>10
<1>4. Nat \subseteq T
  <2> HIDE DEF T
  <2> QED
    BY <1>2, <1>3, Induction
<1>5. PICK f : Solves(f, L + 1)
  <2>1. L + 1 \in T
    BY <1>0, <1>4
  <2> QED
    BY <1>0, <2>1
<1>6. L - (L + 1) + 1 = 0
  BY <1>0
<1>7. f \in [0..L -> Seq(Words)] /\ \A i \in 0..L : f[i] = From(t, f, i)
  BY <1>5, <1>6
<1>8. \A g, i : From(t, g, i) =
        LET r == Read(SubSeq(t, i + 1, Len(t))) IN
        IF r.kind = "datum" THEN <<r.datum>> \o g[i + r.length]
        ELSE IF r.kind = "error" /\ ~r.eof
             THEN <<<<"error">>>> \o g[i + r.length]
             ELSE <<>>
  BY DEF From, After, Answer, Complete
<1> DEFINE Fixed(g) ==
             g = [i \in 0..Len(t) |->
                    LET r == Read(SubSeq(t, i + 1, Len(t))) IN
                    IF r.kind = "datum" THEN <<r.datum>> \o g[i + r.length]
                    ELSE IF r.kind = "error" /\ ~r.eof
                         THEN <<<<"error">>>> \o g[i + r.length]
                         ELSE <<>>]
<1>9. ASSUME NEW g PROVE Fixed(g) <=> g = [i \in 0..L |-> From(t, g, i)]
  <2>1. [i \in 0..L |-> From(t, g, i)] =
          [i \in 0..Len(t) |->
             LET r == Read(SubSeq(t, i + 1, Len(t))) IN
             IF r.kind = "datum" THEN <<r.datum>> \o g[i + r.length]
             ELSE IF r.kind = "error" /\ ~r.eof
                  THEN <<<<"error">>>> \o g[i + r.length]
                  ELSE <<>>]
    BY <1>8
  <2> QED
    BY <2>1
<1>10. Answers(t) = CHOOSE g : Fixed(g)
  BY DEF Answers
<1> HIDE DEF Fixed
<1>11. Fixed(f)
  BY <1>7, <1>9
<1>12. Fixed(Answers(t))
  BY <1>10, <1>11
<1> DEFINE a == Answers(t)
<1>13. a = [i \in 0..L |-> From(t, a, i)]
  BY <1>9, <1>12
<1> HIDE DEF a
<1>14. \A i \in 0..L : a[i] = From(t, a, i)
  BY <1>13
<1> DEFINE U == {n \in Nat : n <= L + 1 => \A k \in (L - n + 1)..L : a[k] \in Seq(Words)}
<1>15. 0 \in U
  BY <1>0
<1>16. ASSUME NEW n \in Nat, n \in U PROVE n + 1 \in U
  <2> SUFFICES ASSUME n + 1 <= L + 1, NEW k \in (L - (n + 1) + 1)..L
               PROVE  a[k] \in Seq(Words)
    OBVIOUS
  <2> DEFINE i == L - n
  <2>1. /\ i \in 0..L /\ k \in i..L /\ L - n + 1 = i + 1
        /\ k # i => k \in (i + 1)..L
    BY <1>0
  <2>2. \A j \in (L - n + 1)..L : a[j] \in Seq(Words)
    BY <1>0, <1>16
  <2> HIDE DEF i
  <2>3. a[i] \in Seq(Words)
    BY <1>1, <1>14, <2>1, <2>2
  <2> QED
    BY <2>1, <2>2, <2>3
<1>17. L + 1 \in U
  <2> HIDE DEF U
  <2> QED
    BY <1>0, <1>15, <1>16, Induction
<1>18. \A i \in 0..L : a[i] \in Seq(Words)
  BY <1>0, <1>6, <1>17
<1> QED
  BY <1>13, <1>14, <1>18 DEF a

-----------------------------------------------------------------------------
(* Suffixes of lines *)

\* Two lines are a line.
LEMMA LineConcat ==
    ASSUME NEW t \in Text, IsLine(t), NEW u \in Text, IsLine(u)
    PROVE  IsLine(t \o u)
<1> DEFINE v == t \o u
           n == Len(t)
           m == Len(u)
<1>1. /\ v \in Text /\ n \in Nat /\ m \in Nat /\ Len(v) = n + m
      /\ \A k \in 1..n : v[k] = t[k]
      /\ \A k \in 1..m : v[n + k] = u[k]
  BY Longer
<1>2. /\ n > 0 => t[n] = "w"
      /\ m > 0 => u[m] = "w"
      /\ v # <<>> => n + m > 0
      /\ \A k \in 2..n : t[k] \in {"o", "c"} => t[k - 1] \in {"o", "c", "w"}
      /\ \A k \in 2..m : u[k] \in {"o", "c"} => u[k - 1] \in {"o", "c", "w"}
  <2>1. (n > 0 => t # <<>>) /\ (m > 0 => u # <<>>)
    OBVIOUS
  <2>2. v # <<>> => Len(v) > 0
    BY <1>1, EmptySeq DEF Text
  <2> QED
    BY <1>1, <2>1, <2>2 DEF IsLine
<1> HIDE DEF v, n, m
<1>3. v # <<>> => v[Len(v)] = "w"
  <2>1. CASE m > 0
    BY <1>1, <1>2, <2>1
  <2>2. CASE m = 0
    BY <1>1, <1>2, <2>2
  <2> QED
    BY <1>1, <2>1, <2>2
<1>4. ASSUME NEW k \in 2..Len(v), v[k] \in {"o", "c"}
      PROVE  v[k - 1] \in {"o", "c", "w"}
  <2>1. CASE k <= n
    <3>1. k \in 2..n /\ k \in 1..n /\ k - 1 \in 1..n
      BY <1>1, <2>1
    <3> QED
      BY <1>1, <1>2, <1>4, <3>1
  <2>2. CASE k = n + 1
    <3>1. n > 0 /\ k - 1 = n /\ n \in 1..n
      BY <1>1, <2>2
    <3> QED
      BY <1>1, <1>2, <3>1
  <2>3. CASE k > n + 1
    <3> DEFINE j == k - n
    <3>1. j \in 2..m /\ j \in 1..m /\ j - 1 \in 1..m /\ k = n + j /\ k - 1 = n + (j - 1)
      BY <1>1, <2>3
    <3> HIDE DEF j
    <3> QED
      BY <1>1, <1>2, <1>4, <3>1
  <2> QED
    BY <1>1, <2>1, <2>2, <2>3
<1> QED
  BY <1>3, <1>4 DEF IsLine, v

\* What follows a place in the text goes on when the text does.
LEMMA AfterConcat ==
    ASSUME NEW t \in Text, IsLine(t), NEW u \in Text, IsLine(u), NEW i \in 0..Len(t)
    PROVE  After(t \o u, i) = After(t, i) \o u
<1> DEFINE a == After(t \o u, i)
           b == After(t, i) \o u
           n == Len(t)
           m == Len(u)
<1>1. /\ t \o u \in Text /\ n \in Nat /\ m \in Nat /\ Len(t \o u) = n + m
      /\ \A k \in 1..n : (t \o u)[k] = t[k]
      /\ \A k \in 1..m : (t \o u)[n + k] = u[k]
      /\ IsLine(t \o u)
  BY Longer, LineConcat
<1>2. /\ a \in Text /\ Len(a) = (n + m) - i
      /\ \A k \in 1..((n + m) - i) : a[k] = (t \o u)[i + k]
  <2>1. i \in 0..Len(t \o u)
    BY <1>1
  <2> QED
    BY <1>1, <2>1, SuffixLine
<1>3. /\ After(t, i) \in Text /\ Len(After(t, i)) = n - i
      /\ \A k \in 1..(n - i) : After(t, i)[k] = t[i + k]
  BY SuffixLine
<1>4. /\ b \in Text /\ Len(b) = (n - i) + m
      /\ \A k \in 1..(n - i) : b[k] = After(t, i)[k]
      /\ \A k \in 1..m : b[(n - i) + k] = u[k]
  <2> DEFINE w == After(t, i)
  <2> HIDE DEF w
  <2>1. w \in Text /\ Len(w) = n - i
    BY <1>3 DEF w
  <2>2. /\ w \o u \in Text /\ Len(w \o u) = Len(w) + Len(u)
        /\ \A k \in 1..Len(w) : (w \o u)[k] = w[k]
        /\ \A k \in 1..Len(u) : (w \o u)[Len(w) + k] = u[k]
    BY <2>1, Longer
  <2> QED
    BY <2>1, <2>2 DEF w
<1> HIDE DEF a, b, n, m
<1>5. ASSUME NEW k \in 1..Len(a) PROVE a[k] = b[k]
  <2>1. CASE k <= n - i
    <3>1. k \in 1..((n + m) - i) /\ k \in 1..(n - i) /\ i + k \in 1..n
      BY <1>1, <1>2, <2>1 DEF n
    <3> QED
      BY <1>1, <1>2, <1>3, <1>4, <3>1
  <2>2. CASE k > n - i
    <3> DEFINE j == k - (n - i)
    <3>1. /\ k \in 1..((n + m) - i) /\ j \in 1..m /\ k = (n - i) + j
          /\ i + k = n + j
      BY <1>1, <1>2, <2>2 DEF n
    <3> HIDE DEF j
    <3> QED
      BY <1>1, <1>2, <1>4, <3>1
  <2> QED
    BY <1>1, <1>2, <2>1, <2>2 DEF n
<1>6. Len(a) = Len(b)
  BY <1>1, <1>2, <1>4 DEF n
<1>7. a = b
  BY <1>2, <1>4, <1>5, <1>6, SeqEqual DEF Text
<1> QED
  BY <1>7 DEF a, b

\* What follows a place in what follows a place
LEMMA AfterAfter ==
    ASSUME NEW t \in Text, IsLine(t), NEW i \in 0..Len(t), NEW n \in 0..(Len(t) - i)
    PROVE  After(After(t, i), n) = After(t, i + n)
<1> DEFINE u == After(t, i)
           a == After(u, n)
           b == After(t, i + n)
           L == Len(t)
<1>1. L \in Nat /\ i + n \in 0..L
  BY DEF Text
<1>2. /\ u \in Text /\ IsLine(u) /\ Len(u) = L - i
      /\ \A k \in 1..(L - i) : u[k] = t[i + k]
  BY SuffixLine
<1>3. /\ b \in Text /\ Len(b) = L - (i + n)
      /\ \A k \in 1..(L - (i + n)) : b[k] = t[(i + n) + k]
  BY <1>1, SuffixLine
<1> HIDE DEF u
<1>4. /\ a \in Text /\ Len(a) = Len(u) - n
      /\ \A k \in 1..(Len(u) - n) : a[k] = u[n + k]
  BY <1>2, SuffixLine
<1> HIDE DEF a, b, L
<1>5. Len(a) = Len(b)
  BY <1>1, <1>2, <1>3, <1>4 DEF L
<1>6. ASSUME NEW k \in 1..Len(a) PROVE a[k] = b[k]
  <2>1. /\ k \in 1..(Len(u) - n) /\ k \in 1..(L - (i + n))
        /\ n + k \in 1..(L - i) /\ i + (n + k) = (i + n) + k
    BY <1>1, <1>2, <1>3, <1>4 DEF L
  <2> QED
    BY <1>2, <1>3, <1>4, <2>1
<1>7. a = b
  BY <1>3, <1>4, <1>5, <1>6, SeqEqual DEF Text
<1> QED
  BY <1>7 DEF a, b, u

\* White space does not change the answers.
LEMMA AnswersSkip ==
    ASSUME NEW t \in Text, IsLine(t), NEW i \in 0..(Len(t) - 1), t[i + 1] = "w"
    PROVE  Answers(t)[i] = Answers(t)[i + 1]
<1> DEFINE u == After(t, i)
           v == After(t, i + 1)
           L == Len(t)
           a == Answers(t)
<1>1. L \in Nat /\ i \in 0..L /\ i + 1 \in 0..L /\ 1 \in 0..(L - i) /\ 1 \in 1..(L - i)
  BY DEF Text
<1>2. /\ u \in Text /\ Len(u) = L - i /\ u[1] = "w"
  BY <1>1, SuffixLine
<1>3. u # <<>>
  BY <1>1, <1>2
<1>4. SubSeq(u, 2, Len(u)) = v
  <2>1. After(u, 1) = v
    BY <1>1, AfterAfter
  <2>2. 1 + 1 = 2
    OBVIOUS
  <2> QED
    BY <2>1, <2>2 DEF After
<1> DEFINE r == Read(u)
           q == Read(v)
<1> HIDE DEF u, v
<1>5. r.kind = q.kind /\ r.datum = q.datum /\ r.eof = q.eof /\ r.length = q.length + 1
  BY <1>2, <1>3, <1>4, BlankShift
<1>6. Complete(q) => q.length \in Nat
  <2>1. v \in Text /\ IsLine(v)
    BY <1>1, SuffixLine DEF v
  <2> QED
    BY <2>1, ReadBounds
<1>7. /\ a[i] = IF Complete(r) THEN <<Answer(r)>> \o a[i + r.length] ELSE <<>>
      /\ a[i + 1] = IF Complete(q) THEN <<Answer(q)>> \o a[(i + 1) + q.length] ELSE <<>>
  BY <1>1, AnswersAre DEF From, u, v
<1> HIDE DEF r, q, a
<1>8. (Complete(r) <=> Complete(q)) /\ Answer(r) = Answer(q)
  BY <1>5 DEF Complete, Answer
<1>9. Complete(q) => i + r.length = (i + 1) + q.length
  BY <1>1, <1>5, <1>6
<1>10. a[i] = a[i + 1]
  BY <1>7, <1>8, <1>9
<1> QED
  BY <1>10 DEF a

-----------------------------------------------------------------------------
(* How far the loop has read *)

\* However the text t goes on, its answers are d and those from e on.
Continues(t, e, d) ==
    \A u \in Text : IsLine(u) =>
        Answers(t \o u)[0] = d \o Answers(t \o u)[e]

\* Text may follow.
LEMMA ContinuesInput ==
    ASSUME NEW t \in Text, IsLine(t), NEW e, NEW d, Continues(t, e, d),
           NEW p \in Text, IsLine(p)
    PROVE  Continues(t \o p, e, d)
<1>1. ASSUME NEW u \in Text, IsLine(u)
      PROVE  Answers((t \o p) \o u)[0] = d \o Answers((t \o p) \o u)[e]
  <2>1. (t \o p) \o u = t \o (p \o u)
    BY ConcatAssociative DEF Text
  <2>2. p \o u \in Text /\ IsLine(p \o u)
    BY <1>1, LineConcat, Longer
  <2> QED
    BY <2>1, <2>2 DEF Continues
<1> QED
  BY <1>1 DEF Continues

\* The next form or error is read.
LEMMA ContinuesRead ==
    ASSUME NEW t \in Text, IsLine(t), NEW e \in 0..Len(t), NEW d \in Seq(Words),
           Continues(t, e, d), Complete(Read(After(t, e)))
    PROVE  LET r == Read(After(t, e)) IN
           Continues(t, e + r.length, Append(d, Answer(r)))
<1> DEFINE r == Read(After(t, e))
           a == Answer(r)
           j == e + r.length
<1>1. a \in Words /\ j \in (e + 1)..Len(t)
  BY ReadFrom
<1>2. ASSUME NEW u \in Text, IsLine(u)
      PROVE  Answers(t \o u)[0] = Append(d, a) \o Answers(t \o u)[j]
  <2> DEFINE v == t \o u
             A == Answers(v)
  <2>1. /\ v \in Text /\ IsLine(v) /\ Len(t) \in Nat
        /\ e \in 0..Len(v) /\ j \in 0..Len(v)
    <3>1. v \in Text /\ Len(v) = Len(t) + Len(u) /\ Len(t) \in Nat /\ Len(u) \in Nat
      BY Longer
    <3>2. IsLine(v)
      BY <1>2, LineConcat
    <3> HIDE DEF v, j
    <3> QED
      BY <1>1, <3>1, <3>2
  <2>2. Read(After(v, e)) = r
    <3>1. After(v, e) = After(t, e) \o u
      BY <1>2, AfterConcat
    <3>2. After(t, e) \in Text /\ IsLine(After(t, e))
      BY SuffixLine
    <3> QED
      BY <3>1, <3>2, Extension
  <2>3. A[e] = <<a>> \o A[j]
    <3>1. A[e] = From(v, A, e)
      BY <2>1, AnswersAre
    <3> QED
      BY <2>2, <3>1 DEF From
  <2>4. A[0] = d \o A[e]
    BY <1>2 DEF Continues
  <2>5. A[j] \in Seq(Words)
    <3> HIDE DEF v, j
    <3> QED
      BY <2>1, AnswersAre
  <2> HIDE DEF A, a, j
  <2>6. <<a>> \in Seq(Words) /\ Append(d, a) = d \o <<a>>
    BY <1>1, AppendIsConcat
  <2>7. d \o (<<a>> \o A[j]) = (d \o <<a>>) \o A[j]
    <3> DEFINE x == <<a>>
               y == A[j]
    <3> HIDE DEF x, y
    <3>1. x \in Seq(Words) /\ y \in Seq(Words)
      BY <2>5, <2>6 DEF x, y
    <3>2. (d \o x) \o y = d \o (x \o y)
      BY <3>1, ConcatAssociative
    <3> QED
      BY <3>2 DEF x, y
  <2>8. A[0] = Append(d, a) \o A[j]
    BY <2>3, <2>4, <2>6, <2>7
  <2> QED
    BY <2>8 DEF A
<1> QED
  BY <1>2 DEF Continues

\* White space is passed over.
LEMMA ContinuesSkip ==
    ASSUME NEW t \in Text, IsLine(t), NEW e \in 0..(Len(t) - 1), t[e + 1] = "w",
           NEW d, Continues(t, e, d)
    PROVE  Continues(t, e + 1, d)
<1>1. ASSUME NEW u \in Text, IsLine(u)
      PROVE  Answers(t \o u)[0] = d \o Answers(t \o u)[e + 1]
  <2> DEFINE v == t \o u
  <2>1. /\ v \in Text /\ Len(v) = Len(t) + Len(u) /\ Len(t) \in Nat /\ Len(u) \in Nat
        /\ \A k \in 1..Len(t) : v[k] = t[k]
    BY Longer
  <2>2. IsLine(v)
    BY <1>1, LineConcat
  <2>3. Answers(v)[0] = d \o Answers(v)[e]
    BY <1>1 DEF Continues
  <2> HIDE DEF v
  <2>4. e \in 0..(Len(v) - 1) /\ v[e + 1] = "w"
    BY <2>1
  <2>5. Answers(v)[e] = Answers(v)[e + 1]
    BY <2>1, <2>2, <2>4, AnswersSkip
  <2> QED
    BY <2>3, <2>5 DEF v
<1> QED
  BY <1>1 DEF Continues

\* What has been read is the beginning of the answers, and all of them when
\* nothing complete follows.
LEMMA ContinuesEnd ==
    ASSUME NEW t \in Text, IsLine(t), NEW e \in 0..Len(t), NEW d \in Seq(Words),
           Continues(t, e, d)
    PROVE  /\ IsPrefix(d, Answers(t)[0])
           /\ ~Complete(Read(After(t, e))) => Answers(t)[0] = d
<1> DEFINE A == Answers(t)
<1>1. A[0] = d \o A[e]
  <2>1. <<>> \in Text /\ IsLine(<<>>)
    BY EmptySeq DEF IsLine, Text
  <2>2. t \o <<>> = t
    BY ConcatEmptySeq DEF Text
  <2> QED
    BY <2>1, <2>2 DEF Continues
<1>2. A[e] \in Seq(Words) /\ A[e] = From(t, A, e)
  BY AnswersAre
<1> HIDE DEF A
<1>3. IsPrefix(d, A[0])
  <2> DEFINE s == A[e]
  <2> HIDE DEF s
  <2>1. s \in Seq(Words) /\ A[0] = d \o s
    BY <1>1, <1>2 DEF s
  <2> QED
    BY <2>1, ConcatProperties DEF IsPrefix
<1>4. ~Complete(Read(After(t, e))) => A[0] = d
  BY <1>1, <1>2, ConcatEmptySeq DEF From
<1> QED
  BY <1>3, <1>4 DEF A

-----------------------------------------------------------------------------
(* The loop, whatever the text *)

\* A call that is not the innermost has been nested, and a form that has fed
\* nothing starts without a stack.
StackInv ==
    /\ \A k \in 1..(Len(levels) - 1) : levels[k].nested
    /\ levels # <<>> /\ top.at = "eval" /\ ~top.nested => stack = Unsaved

LoopInv == TypeOK /\ StackInv /\ ReportsOwnStack

\* The reader's answer lies in the text, and it puts back one character at
\* most.
LEMMA ReadTypes ==
    ASSUME NEW t \in Text
    PROVE  LET r == Read(t) IN
           /\ r.kind \in {"eof", "error", "datum"}
           /\ r.datum \in Text
           /\ r.length \in 0..Len(t) /\ r.fetched \in 0..Len(t)
           /\ r.fetched = r.length \/ r.fetched = r.length + 1
<1> DEFINE r == Read(t)
           i == Least(Solid(t))
<1> USE DEF Found
<1>1. /\ Len(t) \in Nat /\ \A k \in 1..Len(t) : t[k] \in Chars
      /\ <<>> \in Text
  BY DEF Text
<1>2. CASE Solid(t) = {}
  BY <1>1, <1>2, ReadIs
<1>3. CASE Solid(t) # {}
  <2>1. /\ i \in 1..Len(t) /\ t[i] \in {"o", "s", "c", "b"}
        /\ t[i] = "o" => r = ReadList(t, i)
        /\ t[i] = "s" => r = ReadSymbol(t, i)
        /\ t[i] \in {"c", "b"} => r = Found("error", <<>>, i, i, FALSE)
    <3> HIDE DEF Found
    <3> QED
      BY <1>1, <1>3, ReadIs DEF Chars
  <2> HIDE DEF i, r
  <2>2. \A j, k \in i..Len(t) : SubSeq(t, i, j) \in Text /\ SubSeq(t, i, j - 1) \in Text
    BY <1>1, <2>1, SubSeqProperties DEF Text
  <2>3. CASE t[i] \in {"c", "b"}
    BY <1>1, <2>1, <2>3 DEF r
  <2>4. CASE t[i] = "s"
    <3> DEFINE E == SymbolEnds(t, i)
               j == Least(E)
    <3>1. r = IF E = {} THEN Found("datum", SubSeq(t, i, Len(t)), Len(t), Len(t), TRUE)
              ELSE Found("datum", SubSeq(t, i, j - 1), j - 1, j, FALSE)
      <4> HIDE DEF Found
      <4> QED
        BY <2>1, <2>4, ReadSymbolIs
    <3>2. E # {} => j \in i..Len(t)
      <4>1. E \in SUBSET Nat /\ E \subseteq i..Len(t)
        BY <1>1, <2>1 DEF SymbolEnds
      <4> QED
        BY <4>1, LeastNumber
    <3>3. Len(t) \in i..Len(t)
      BY <1>1, <2>1
    <3> HIDE DEF E, j
    <3> QED
      BY <1>1, <2>1, <2>2, <3>1, <3>2, <3>3 DEF r
  <2>5. CASE t[i] = "o"
    <3> DEFINE E == ListEnds(t, i)
               j == Least(E)
    <3>1. r = IF E = {} THEN Found("error", <<>>, Len(t), Len(t), TRUE)
              ELSE IF t[j] = "b" THEN Found("error", <<>>, j, j, FALSE)
              ELSE Found("datum", SubSeq(t, i, j), j, j, FALSE)
      <4> HIDE DEF Found
      <4> QED
        BY <2>1, <2>5, ReadListIs
    <3>2. E # {} => j \in i..Len(t)
      <4>1. E \in SUBSET Nat /\ E \subseteq i..Len(t)
        BY <1>1, <2>1 DEF ListEnds
      <4> QED
        BY <4>1, LeastNumber
    <3> HIDE DEF E, j
    <3> QED
      BY <1>1, <2>1, <2>2, <3>1, <3>2 DEF r
  <2> QED
    BY <2>1, <2>3, <2>4, <2>5
<1> QED
  BY <1>2, <1>3

\* What the type says of the calls.
LEMMA LevelsType ==
    ASSUME TypeOK
    PROVE  LET Levels == [at : {"read", "eval"}, form : Nat, nested : BOOLEAN] IN
           /\ levels \in Seq(Levels) /\ Len(levels) \in Nat
           /\ DOMAIN levels = 1..Len(levels)
           /\ levels # <<>> => Len(levels) \in 1..Len(levels) /\ top \in Levels
           /\ levels = <<>> <=> Len(levels) = 0
           /\ \A k \in 1..Len(levels) : levels[k] \in Levels
<1> DEFINE Levels == [at : {"read", "eval"}, form : Nat, nested : BOOLEAN]
<1>1. levels \in Seq(Levels)
  BY DEF TypeOK
<1> HIDE DEF Levels
<1>2. /\ Len(levels) \in Nat /\ DOMAIN levels = 1..Len(levels)
      /\ levels = <<>> <=> Len(levels) = 0
      /\ \A k \in 1..Len(levels) : levels[k] \in Levels
  BY <1>1
<1>3. levels # <<>> => Len(levels) \in 1..Len(levels)
  BY <1>2
<1>4. levels # <<>> => top \in Levels
  BY <1>2, <1>3 DEF top
<1> QED
  BY <1>1, <1>2, <1>3, <1>4 DEF Levels

\* The innermost call of input returns.
LEMMA Leave ==
    ASSUME LoopInv, levels # <<>>, levels' = Front(levels)
    PROVE  /\ levels' \in Seq([at : {"read", "eval"}, form : Nat, nested : BOOLEAN])
           /\ Len(levels') <= MaxDepth
           /\ StackInv'
<1> DEFINE Levels == [at : {"read", "eval"}, form : Nat, nested : BOOLEAN]
           n == Len(levels)
           m == Len(levels')
<1>1. /\ levels \in Seq(Levels) /\ n \in Nat /\ n > 0 /\ n <= MaxDepth
      /\ \A k \in 1..n : levels[k] \in Levels
  <2>1. /\ levels \in Seq(Levels) /\ n \in Nat /\ n \in 1..n
        /\ \A k \in 1..n : levels[k] \in Levels
    BY LevelsType DEF LoopInv
  <2>2. n <= MaxDepth
    BY DEF LoopInv, TypeOK
  <2> HIDE DEF Levels, n
  <2> QED
    BY <2>1, <2>2
<1>2. \A k \in 1..(n - 1) : levels[k].nested
  BY DEF LoopInv, StackInv
<1> HIDE DEF Levels
<1>3. /\ levels' \in Seq(Levels) /\ m = n - 1
      /\ \A k \in 1..m : levels'[k] = levels[k]
  <2>1. levels' = SubSeq(levels, 1, n - 1)
    BY DEF Front
  <2>2. n - 1 \in Int /\ \A k \in 1..(n - 1) : levels[k] \in Levels
    BY <1>1
  <2>3. /\ SubSeq(levels, 1, n - 1) \in Seq(Levels)
        /\ Len(SubSeq(levels, 1, n - 1)) = IF 1 <= n - 1 THEN n - 1 - 1 + 1 ELSE 0
        /\ \A k \in 1..(n - 1 - 1 + 1) : SubSeq(levels, 1, n - 1)[k] = levels[1 + k - 1]
    BY <2>2, SubSeqProperties
  <2> HIDE DEF n, m
  <2>4. m = IF 1 <= n - 1 THEN n - 1 - 1 + 1 ELSE 0
    BY <2>1, <2>3 DEF m
  <2>5. m = n - 1 /\ n - 1 - 1 + 1 = n - 1
    BY <1>1, <2>4
  <2>6. \A k \in 1..m : levels'[k] = levels[1 + k - 1] /\ 1 + k - 1 = k
    BY <2>1, <2>3, <2>5
  <2> QED
    BY <2>1, <2>3, <2>5, <2>6
<1>4. \A k \in 1..m : levels'[k].nested
  <2> HIDE DEF m
  <2> QED
    BY <1>2, <1>3
<1>5. levels' # <<>> => m \in 1..m
  BY <1>3
<1>6. levels' # <<>> => top'.nested
  BY <1>4, <1>5 DEF top
<1>7. m \in Nat /\ m <= MaxDepth /\ \A k \in 1..(m - 1) : k \in 1..m
  <2> HIDE DEF n, m
  <2> QED
    BY <1>1, <1>3, BoundsAssumption
<1>8. StackInv'
  BY <1>4, <1>6, <1>7 DEF StackInv
<1> QED
  BY <1>3, <1>7, <1>8 DEF Levels

\* The innermost call goes on at another place.
LEMMA GoesOn ==
    ASSUME LoopInv, levels # <<>>, NEW l, levels' = WithTop(l),
           l \in [at : {"read", "eval"}, form : Nat, nested : BOOLEAN],
           l.at = "read" \/ stack' = Unsaved
    PROVE  /\ levels' \in Seq([at : {"read", "eval"}, form : Nat, nested : BOOLEAN])
           /\ Len(levels') <= MaxDepth
           /\ StackInv'
<1> DEFINE Levels == [at : {"read", "eval"}, form : Nat, nested : BOOLEAN]
           n == Len(levels)
<1>1. /\ levels \in Seq(Levels) /\ n \in Nat /\ n \in 1..n /\ l \in Levels
      /\ n <= MaxDepth
  BY LevelsType DEF LoopInv, TypeOK
<1>2. \A k \in 1..(n - 1) : levels[k].nested
  BY DEF LoopInv, StackInv
<1> HIDE DEF Levels
<1>3. levels' = [levels EXCEPT ![n] = l]
  BY DEF WithTop
<1>4. /\ levels' \in Seq(Levels) /\ Len(levels') = n
      /\ \A k \in 1..n : levels'[k] = IF k = n THEN l ELSE levels[k]
  BY <1>1, <1>3, ExceptSeq
<1>5. top' = l
  BY <1>1, <1>4 DEF top
<1> HIDE DEF n
<1>6. \A k \in 1..(n - 1) : levels'[k].nested
  <2>1. \A k \in 1..(n - 1) : k \in 1..n /\ k # n
    BY <1>1
  <2> QED
    BY <1>2, <1>4, <2>1
<1>7. StackInv'
  BY <1>4, <1>5, <1>6 DEF StackInv
<1> QED
  BY <1>1, <1>4, <1>7 DEF Levels

\* What the other variables have to do with it
LEMMA TypeParts ==
    ASSUME LoopInv
    PROVE  /\ stack \in Nat /\ Len(done) \in Nat /\ done \in Seq(Words)
           /\ report \in [error : Nat, stack : Nat, nested : BOOLEAN]
           /\ fed \in Text /\ pieces \in 0..MaxPieces
           /\ buffer \in Text /\ held \in Text /\ Len(held) <= 1
           /\ bufpos \in 0..Len(buffer)
<1>1. done \in Seq(Words)
  BY DEF LoopInv, TypeOK, Words
<1>2. Len(done) \in Nat
  BY <1>1
<1> QED
  BY <1>1, <1>2 DEF LoopInv, TypeOK, Text

\* The type, from its parts
LEMMA TypeWhole ==
    ASSUME /\ stack' \in Nat /\ done' \in Seq(Words)
           /\ report' \in [error : Nat, stack : Nat, nested : BOOLEAN]
           /\ fed' \in Text /\ pieces' \in 0..MaxPieces
           /\ buffer' \in Text /\ held' \in Text /\ Len(held') <= 1
           /\ bufpos' \in 0..Len(buffer')
           /\ levels' \in Seq([at : {"read", "eval"}, form : Nat, nested : BOOLEAN])
           /\ Len(levels') <= MaxDepth
    PROVE  TypeOK'
  BY DEF TypeOK, Text, Words

\* At the start there is no text and no call.
LEMMA LoopInit == Init => LoopInv
<1> SUFFICES ASSUME Init PROVE LoopInv
  OBVIOUS
<1> USE DEF Init
<1>1. TypeOK
  BY BoundsAssumption DEF TypeOK, Unsaved
<1>2. StackInv /\ ReportsOwnStack
  BY DEF StackInv, ReportsOwnStack
<1> QED
  BY <1>1, <1>2 DEF LoopInv

\* More text arrives.
LEMMA LoopInput ==
    ASSUME LoopInv, NEW p \in Pieces, Input(p)
    PROVE  LoopInv'
<1> DEFINE Levels == [at : {"read", "eval"}, form : Nat, nested : BOOLEAN]
           new == [at |-> "read", form |-> 0, nested |-> FALSE]
           outer == [i \in DOMAIN levels |-> [levels[i] EXCEPT !.nested = TRUE]]
<1>1. /\ pieces < MaxPieces
      /\ levels # <<>> => Len(levels) < MaxDepth
      /\ buffer' = buffer \o p /\ fed' = fed \o p /\ pieces' = pieces + 1
      /\ levels' = Append(outer, new)
      /\ UNCHANGED <<bufpos, held, stack, report, done>>
  BY DEF Input, AppendTo
<1>2. p \in Text
  BY PiecesAssumption DEF Text
<1>3. /\ outer \in Seq(Levels) /\ Len(outer) = Len(levels)
      /\ \A k \in 1..Len(levels) : outer[k].nested
  <2>1. /\ levels \in Seq(Levels) /\ Len(levels) \in Nat
        /\ DOMAIN levels = 1..Len(levels)
    BY LevelsType DEF LoopInv
  <2>2. \A k \in 1..Len(levels) : levels[k] \in Levels
    BY LevelsType DEF LoopInv
  <2>3. \A k \in 1..Len(levels) :
          [levels[k] EXCEPT !.nested = TRUE] \in Levels
          /\ [levels[k] EXCEPT !.nested = TRUE].nested
    BY <2>2
  <2>4. outer \in [1..Len(levels) -> Levels]
    BY <2>1, <2>3
  <2>5. \A k \in 1..Len(levels) : outer[k].nested
    BY <2>1, <2>3
  <2> HIDE DEF Levels, outer
  <2> QED
    BY <2>1, <2>4, <2>5
<1> HIDE DEF outer
<1>4. /\ levels' \in Seq(Levels) /\ Len(levels') = Len(levels) + 1
      /\ levels'[Len(levels')] = new
      /\ \A k \in 1..Len(levels) : levels'[k].nested
  <2>1. new \in Levels
    OBVIOUS
  <2> HIDE DEF new, Levels
  <2>2. Len(levels) \in Nat
    BY LevelsType DEF LoopInv
  <2> QED
    BY <1>1, <1>3, <2>1, <2>2, AppendProperties
<1>5. /\ buffer' \in Text /\ fed' \in Text /\ bufpos' \in 0..Len(buffer')
  <2>1. /\ buffer \in Text /\ fed \in Text /\ Len(buffer) \in Nat
        /\ bufpos \in 0..Len(buffer) /\ Len(p) \in Nat
        /\ buffer' \in Text /\ Len(buffer') = Len(buffer) + Len(p) /\ fed' \in Text
    BY <1>1, <1>2 DEF LoopInv, TypeOK, Text
  <2> QED
    BY <1>1, <2>1
<1>6. TypeOK'
  <2>1. Len(levels') <= MaxDepth
    BY <1>1, <1>4, BoundsAssumption, LevelsType DEF LoopInv, TypeOK
  <2>2. pieces' \in 0..MaxPieces
    BY <1>1, BoundsAssumption DEF LoopInv, TypeOK
  <2> HIDE DEF new
  <2> QED
    BY <1>1, <1>4, <1>5, <2>1, <2>2 DEF LoopInv, TypeOK, Text
<1>7. StackInv'
  <2>1. Len(levels') - 1 = Len(levels) /\ Len(levels) \in Nat
    BY <1>4, LevelsType DEF LoopInv
  <2> QED
    BY <1>4, <2>1 DEF StackInv, top
<1>8. ReportsOwnStack'
  BY <1>1 DEF LoopInv, ReportsOwnStack
<1> QED
  BY <1>6, <1>7, <1>8 DEF LoopInv

\* What the reader leaves in the buffer, and how much of it is handed out
LEMMA Fetched ==
    ASSUME LoopInv, TryRead
    PROVE  LET r == Read(held \o buffer)
               n == IF r.fetched < Len(held) THEN 0 ELSE r.fetched - Len(held) IN
           /\ n \in 0..Len(buffer)
           /\ held' \in Text /\ Len(held') <= 1
           /\ SubSeq(buffer, n + 1, Len(buffer)) \in Text
<1> DEFINE t == held \o buffer
           r == Read(t)
           n == IF r.fetched < Len(held) THEN 0 ELSE r.fetched - Len(held)
<1>1. held \in Text /\ buffer \in Text
  BY TypeParts
<1>2. /\ t \in Text /\ Len(buffer) \in Nat /\ Len(held) \in Nat
      /\ Len(t) = Len(held) + Len(buffer)
  BY <1>1, Longer
<1> HIDE DEF t
<1>3. /\ r.length \in 0..Len(t) /\ r.fetched \in 0..Len(t)
      /\ r.fetched = r.length \/ r.fetched = r.length + 1
  BY <1>2, ReadTypes
<1>4. n \in 0..Len(buffer)
  <2> HIDE DEF r
  <2> QED
    BY <1>2, <1>3
<1>5. held' = SubSeq(t, r.length + 1, r.fetched)
  BY DEF TryRead, t
<1>6. held' \in Text /\ Len(held') <= 1
  <2> DEFINE a == r.length + 1
             b == r.fetched
  <2>1. /\ a \in Int /\ b \in Int /\ b <= a
        /\ \A k \in a..b : k \in 1..Len(t)
    <3> HIDE DEF r
    <3> QED
      BY <1>2, <1>3
  <2> HIDE DEF a, b, r
  <2>2. \A k \in a..b : t[k] \in Chars
    BY <1>2, <2>1 DEF Text
  <2>3. /\ SubSeq(t, a, b) \in Seq(Chars)
        /\ Len(SubSeq(t, a, b)) = IF a <= b THEN b - a + 1 ELSE 0
    BY <2>1, <2>2, SubSeqProperties
  <2> QED
    BY <1>5, <2>1, <2>3 DEF a, b, Text
<1>7. SubSeq(buffer, n + 1, Len(buffer)) \in Text
  <2> HIDE DEF n
  <2>1. /\ n + 1 \in Int /\ Len(buffer) \in Int
        /\ \A k \in (n + 1)..Len(buffer) : k \in 1..Len(buffer)
    BY <1>2, <1>4
  <2>2. \A k \in (n + 1)..Len(buffer) : buffer[k] \in Chars
    BY <1>1, <2>1 DEF Text
  <2> QED
    BY <2>1, <2>2, SubSeqProperties DEF Text
<1> QED
  BY <1>4, <1>6, <1>7 DEF t

\* The reader is called.
LEMMA LoopTryRead ==
    ASSUME LoopInv, TryRead
    PROVE  LoopInv'
<1> DEFINE t == held \o buffer
           r == Read(t)
           n == IF r.fetched < Len(held) THEN 0 ELSE r.fetched - Len(held)
           error == Len(done) + 1
           new == [at |-> "eval", form |-> Len(done) + 1, nested |-> FALSE]
<1>1. /\ levels # <<>> /\ top.at = "read" /\ fed' = fed /\ pieces' = pieces
      /\ \/ /\ r.kind = "datum" /\ DiscardBuf(n) /\ done' = Append(done, r.datum)
            /\ levels' = WithTop(new) /\ stack' = Unsaved /\ report' = report
         \/ r.kind = "error" /\ ReadFails(r, n, Unsaved)
         \/ /\ r.kind = "eof" /\ bufpos' = n /\ levels' = Front(levels)
            /\ stack' = Unsaved /\ UNCHANGED <<buffer, report, done>>
  BY DEF TryRead, CaughtAfresh
<1>2. /\ n \in 0..Len(buffer) /\ held' \in Text /\ Len(held') <= 1
      /\ SubSeq(buffer, n + 1, Len(buffer)) \in Text
  BY Fetched
<1>3. /\ error \in Nat /\ new \in [at : {"read", "eval"}, form : Nat, nested : BOOLEAN]
      /\ error # Unsaved /\ Unsaved \in Nat
  BY TypeParts DEF Unsaved
<1>4. /\ r.datum \in Words /\ <<"error">> \in Words
  <2>1. held \in Text /\ buffer \in Text
    BY TypeParts
  <2>2. t \in Text
    BY <2>1, Longer
  <2> HIDE DEF t
  <2>3. r.datum \in Text
    BY <2>2, ReadTypes
  <2> QED
    BY <2>3 DEF Text, Words
<1> HIDE DEF t, r, n, error, new
<1>5. /\ buffer' \in Text /\ bufpos' \in 0..Len(buffer') /\ done' \in Seq(Words)
  <2>1. CASE DiscardBuf(n) /\ (done' = Append(done, r.datum) \/ done' = Append(done, <<"error">>))
    <3>1. buffer' \in Text /\ bufpos' = 0
      BY <1>2, <2>1 DEF DiscardBuf
    <3>2. bufpos' \in 0..Len(buffer')
      BY <3>1 DEF Text
    <3>3. done' \in Seq(Words)
      <4>1. done \in Seq(Words)
        BY TypeParts
      <4>2. \A d \in Words : Append(done, d) \in Seq(Words)
        BY <4>1, AppendProperties
      <4> QED
        BY <1>4, <2>1, <4>2
    <3> QED
      BY <3>1, <3>2, <3>3
  <2>2. CASE bufpos' = n /\ UNCHANGED <<buffer, done>>
    BY <1>2, <2>2, TypeParts
  <2> QED
    BY <1>1, <2>1, <2>2 DEF ReadFails
<1>6. /\ stack' \in Nat /\ report' \in [error : Nat, stack : Nat, nested : BOOLEAN]
      /\ ReportsOwnStack'
      /\ levels' \in Seq([at : {"read", "eval"}, form : Nat, nested : BOOLEAN])
      /\ Len(levels') <= MaxDepth
      /\ StackInv'
  <2>1. CASE r.kind = "datum"
    <3>1. levels' = WithTop(new) /\ stack' = Unsaved /\ report' = report
      BY <1>1, <2>1
    <3>2. ReportsOwnStack' /\ stack' \in Nat
      BY <1>3, <3>1 DEF ReportsOwnStack, LoopInv
    <3> QED
      BY <1>1, <1>3, <3>1, <3>2, GoesOn, TypeParts
  <2>2. CASE r.kind = "error"
    <3>1. /\ levels' = Front(levels) /\ stack' = error
          /\ \/ report' = report
             \/ report' = [error |-> error, stack |-> error, nested |-> FALSE]
      <4>1. ReadFails(r, n, Unsaved)
        BY <1>1, <2>2
      <4>2. Saved(Unsaved, error) = error
        BY DEF Saved
      <4> QED
        BY <4>1, <4>2 DEF ReadFails, error
    <3>2. ReportsOwnStack' /\ stack' \in Nat
          /\ report' \in [error : Nat, stack : Nat, nested : BOOLEAN]
      <4>1. CASE report' = report
        BY <1>3, <3>1, <4>1, TypeParts DEF ReportsOwnStack, LoopInv
      <4>2. CASE report' = [error |-> error, stack |-> error, nested |-> FALSE]
        BY <1>3, <3>1, <4>2 DEF ReportsOwnStack
      <4> QED
        BY <3>1, <4>1, <4>2
    <3> QED
      BY <1>1, <3>1, <3>2, Leave
  <2>3. CASE r.kind = "eof"
    <3>1. levels' = Front(levels) /\ stack' = Unsaved /\ report' = report
      BY <1>1, <2>3
    <3>2. ReportsOwnStack' /\ stack' \in Nat
      BY <1>3, <3>1 DEF ReportsOwnStack, LoopInv
    <3> QED
      BY <1>1, <3>1, <3>2, Leave, TypeParts
  <2> QED
    BY <1>1, <2>1, <2>2, <2>3
<1>7. TypeOK'
  <2>1. fed' \in Text /\ pieces' \in 0..MaxPieces
    BY <1>1, TypeParts
  <2> QED
    BY <1>2, <1>5, <1>6, <2>1, TypeWhole
<1> QED
  BY <1>6, <1>7 DEF LoopInv

\* A form returns, fails or throws.
LEMMA LoopEval ==
    ASSUME LoopInv, EvalReturns \/ EvalErrors \/ EvalThrows
    PROVE  LoopInv'
<1> DEFINE Levels == [at : {"read", "eval"}, form : Nat, nested : BOOLEAN]
<1>1. /\ levels # <<>> /\ top.at = "eval"
      /\ UNCHANGED <<buffer, bufpos, held, fed, pieces, done>>
      /\ \/ levels' = WithTop([top EXCEPT !.at = "read"])
         \/ levels' = Front(levels)
      /\ \/ stack' = stack
         \/ stack' = Saved(stack, top.form)
      /\ \/ report' = report
         \/ /\ report' = [error |-> top.form, stack |-> stack', nested |-> top.nested]
            /\ stack' = Saved(stack, top.form)
  BY DEF EvalReturns, EvalErrors, EvalThrows
<1>2. top \in Levels
  BY <1>1, LevelsType DEF LoopInv
<1>3. stack' \in Nat
  BY <1>1, <1>2, TypeParts DEF Saved
<1>4. /\ report' \in [error : Nat, stack : Nat, nested : BOOLEAN]
      /\ ReportsOwnStack'
  <2>1. CASE report' = report
    BY <2>1, TypeParts DEF LoopInv, ReportsOwnStack
  <2>2. CASE /\ report' = [error |-> top.form, stack |-> stack', nested |-> top.nested]
             /\ stack' = Saved(stack, top.form)
    <3>1. report' \in [error : Nat, stack : Nat, nested : BOOLEAN]
      BY <1>2, <1>3, <2>2
    <3>2. ~top.nested => stack' = top.form
      BY <1>1, <2>2 DEF LoopInv, StackInv, Saved
    <3> QED
      BY <2>2, <3>1, <3>2 DEF ReportsOwnStack
  <2> QED
    BY <1>1, <2>1, <2>2
<1>5. /\ levels' \in Seq(Levels) /\ Len(levels') <= MaxDepth
      /\ StackInv'
  <2>1. CASE levels' = WithTop([top EXCEPT !.at = "read"])
    <3>1. [top EXCEPT !.at = "read"] \in Levels /\ [top EXCEPT !.at = "read"].at = "read"
      BY <1>2
    <3> QED
      BY <1>1, <2>1, <3>1, GoesOn
  <2>2. CASE levels' = Front(levels)
    BY <1>1, <2>2, Leave
  <2> QED
    BY <1>1, <2>1, <2>2
<1>6. TypeOK'
  BY <1>1, <1>3, <1>4, <1>5, TypeParts, TypeWhole
<1> QED
  BY <1>4, <1>5, <1>6 DEF LoopInv

\* Every step keeps it.
LEMMA LoopStep == LoopInv /\ [Next]_vars => LoopInv'
<1> SUFFICES ASSUME LoopInv, [Next]_vars PROVE LoopInv'
  OBVIOUS
<1>1. CASE UNCHANGED vars
  BY <1>1 DEF vars, LoopInv, TypeOK, StackInv, top, ReportsOwnStack
<1> QED
  BY <1>1, LoopInput, LoopTryRead, LoopEval DEF Next, Finished

LEMMA LoopSafe == Spec => []LoopInv
  BY LoopInit, LoopStep, PTL DEF Spec

\* Every variable has its type.
THEOREM TypeCorrect == Spec => []TypeOK
<1>1. LoopInv => TypeOK
  BY DEF LoopInv
<1> QED
  BY <1>1, LoopSafe, PTL

\* An error is shown with its own stack, unless its form had fed the loop.
THEOREM OwnStack == Spec => []ReportsOwnStack
<1>1. LoopInv => ReportsOwnStack
  BY DEF LoopInv
<1> QED
  BY <1>1, LoopSafe, PTL

-----------------------------------------------------------------------------
(* The loop and its text *)

\* The text follows a place e in all the text, up to which it has answered.
ReadInv ==
    /\ IsLine(fed) /\ held \in {<<>>, <<"w">>}
    /\ \E e \in 0..Len(fed) :
          held \o buffer = After(fed, e) /\ Continues(fed, e, done)

\* When pending? answers no, nothing complete is left.
WaitInv == ~Pending => ~Complete(Read(held \o buffer))

IInv == LoopInv /\ ReadInv /\ WaitInv

\* At the start nothing has been read, and nothing is left to read.
LEMMA InitSafe == Init => IInv
<1> SUFFICES ASSUME Init PROVE IInv
  OBVIOUS
<1> USE DEF Init
<1>1. LoopInv
  BY LoopInit
<1>2. <<>> \in Text /\ IsLine(<<>>) /\ Len(<<>>) = 0
  BY EmptySeq DEF Text, IsLine
<1>3. ReadInv
  <2>1. held \o buffer = After(fed, 0)
    BY DEF After
  <2>2. Continues(<<>>, 0, <<>>)
    <3>1. ASSUME NEW u \in Text, IsLine(u)
          PROVE  Answers(<<>> \o u)[0] = <<>> \o Answers(<<>> \o u)[0]
      <4>1. <<>> \o u = u
        BY ConcatEmptySeq DEF Text
      <4>2. 0 \in 0..Len(u)
        BY DEF Text
      <4>3. Answers(u)[0] \in Seq(Words)
        BY <3>1, <4>2, AnswersAre
      <4> QED
        BY <4>1, <4>3, ConcatEmptySeq
    <3> QED
      BY <3>1 DEF Continues
  <2> QED
    BY <1>2, <2>1, <2>2 DEF ReadInv
<1>4. WaitInv
  <2>1. Solid(<<>>) = {}
    BY <1>2 DEF Solid
  <2>2. Read(<<>>) = Found("eof", <<>>, 0, 0, TRUE)
    BY <1>2, <2>1, ReadIs
  <2> QED
    BY <2>2 DEF WaitInv, Complete, Found
<1> QED
  BY <1>1, <1>3, <1>4 DEF IInv

LEMMA TextConcat ==
    ASSUME NEW a \in Text, NEW b \in Text, NEW c \in Text
    PROVE  a \o (b \o c) = (a \o b) \o c
  BY ConcatAssociative DEF Text

\* A line arrives.
LEMMA InputSafe ==
    ASSUME IInv, Lines, NEW p \in Pieces, Input(p)
    PROVE  IInv'
<1>1. /\ buffer' = buffer \o p /\ fed' = fed \o p
      /\ UNCHANGED <<bufpos, held, done>>
  BY DEF Input, AppendTo
<1>2. p \in Text /\ IsLine(p)
  BY PiecesAssumption DEF Lines, Text
<1>3. /\ buffer \in Text /\ held \in Text /\ fed \in Text /\ Len(buffer) \in Nat
      /\ bufpos \in 0..Len(buffer) /\ Len(p) \in Nat
      /\ buffer' \in Text /\ Len(buffer') = Len(buffer) + Len(p) /\ fed' \in Text
  BY <1>1, <1>2 DEF IInv, LoopInv, TypeOK, Text
<1>4. ReadInv'
  <2>1. PICK e \in 0..Len(fed) :
            held \o buffer = After(fed, e) /\ Continues(fed, e, done)
    BY DEF IInv, ReadInv
  <2>2. IsLine(fed) /\ IsLine(fed')
    BY <1>1, <1>2, <1>3, LineConcat DEF IInv, ReadInv
  <2>3. held' \o buffer' = After(fed', e)
    <3>1. held \o (buffer \o p) = (held \o buffer) \o p
      <4>1. held \in Text /\ buffer \in Text /\ p \in Text
        BY <1>2, <1>3
      <4> QED
        BY <4>1, TextConcat
    <3>2. After(fed \o p, e) = After(fed, e) \o p
      BY <1>2, <1>3, <2>2, AfterConcat
    <3> QED
      BY <1>1, <2>1, <3>1, <3>2
  <2>4. Continues(fed', e, done')
    BY <1>1, <1>2, <1>3, <2>1, <2>2, ContinuesInput
  <2>5. e \in 0..Len(fed')
    <3>1. Len(fed') = Len(fed) + Len(p) /\ Len(fed) \in Nat
      BY <1>1, <1>2, <1>3, Longer
    <3> QED
      BY <1>3, <3>1
  <2> QED
    BY <1>1, <2>2, <2>3, <2>4, <2>5 DEF IInv, ReadInv
<1>5. WaitInv'
  <2>1. CASE Len(p) = 0
    <3>1. p = <<>>
      BY <1>2, <2>1, EmptySeq DEF Text
    <3>2. buffer' = buffer
      BY <1>1, <1>3, <3>1, ConcatEmptySeq DEF Text
    <3> QED
      BY <1>1, <3>2 DEF IInv, WaitInv, Pending
  <2>2. CASE Len(p) > 0
    <3>1. bufpos' < Len(buffer')
      BY <1>1, <1>3, <2>2
    <3> QED
      BY <3>1 DEF WaitInv, Pending
  <2> QED
    BY <1>3, <2>1, <2>2
<1> QED
  BY <1>4, <1>5, LoopInput DEF IInv

\* White space holds no form.
LEMMA NoText ==
    /\ ~Complete(Read(<<>>)) /\ ~Complete(Read(<<"w">>))
    /\ <<>> \in Text /\ <<"w">> \in Text
<1>1. <<>> \in Text /\ <<"w">> \in Text
  BY EmptySeq DEF Text, Chars
<1>2. Solid(<<>>) = {} /\ Solid(<<"w">>) = {}
  BY DEF Solid
<1>3. Read(<<>>).kind = "eof" /\ Read(<<"w">>).kind = "eof"
  BY <1>1, <1>2, ReadIs DEF Found
<1> QED
  BY <1>1, <1>3 DEF Complete

\* What is left to read
LEMMA Unread ==
    ASSUME IInv
    PROVE  LET t == held \o buffer
               r == Read(t) IN
           /\ t \in Text /\ IsLine(t) /\ held \in Text /\ buffer \in Text
           /\ Len(held) \in 0..1 /\ Len(buffer) \in Nat
           /\ Len(t) = Len(held) + Len(buffer)
           /\ r.fetched \in Len(held)..Len(t)
<1> DEFINE t == held \o buffer
           r == Read(t)
<1>1. held \in Text /\ buffer \in Text
  BY DEF IInv, LoopInv, TypeOK, Text
<1>2. IsLine(t)
  BY SuffixLine DEF IInv, LoopInv, ReadInv, TypeOK, Text
<1>3. /\ t \in Text /\ Len(buffer) \in Nat /\ Len(held) \in Nat
      /\ Len(t) = Len(held) + Len(buffer)
  BY <1>1, Longer
<1>4. Len(held) \in 0..1
  <2>1. Len(held) <= 1
    BY DEF IInv, LoopInv, TypeOK
  <2> DEFINE h == Len(held)
  <2>2. h \in Nat /\ h <= 1
    BY <1>3, <2>1
  <2> HIDE DEF h
  <2>3. h \in 0..1
    BY <2>2
  <2> QED
    BY <2>3 DEF h
<1> HIDE DEF t
<1>5. r.fetched \in Len(held)..Len(t)
  <2>1. CASE Complete(r)
    <3>1. r.length \in 1..Len(t) /\ (r.fetched = r.length \/ r.fetched \in 1..Len(t))
      BY <1>2, <1>3, <2>1, ReadBounds
    <3> HIDE DEF r
    <3>2. r.fetched \in 1..Len(t)
      BY <3>1
    <3> DEFINE h == Len(held)
               l == Len(t)
               f == r.fetched
    <3>3. l \in Nat /\ h \in 0..1 /\ f \in 1..l
      BY <1>3, <1>4, <3>2
    <3> HIDE DEF h, l, f
    <3>4. f \in h..l
      BY <3>3
    <3> QED
      BY <3>4 DEF h, l, f
  <2>2. CASE ~Complete(r)
    <3>1. r.fetched = Len(t)
      BY <1>2, <1>3, <2>2, ReadBounds
    <3> QED
      BY <1>3, <1>4, <3>1
  <2> QED
    BY <2>1, <2>2
<1> QED
  BY <1>1, <1>2, <1>3, <1>4, <1>5 DEF t

\* A form or an error is taken from the text.
LEMMA Taken ==
    ASSUME IInv,
           NEW n, n = Read(held \o buffer).fetched - Len(held),
           Complete(Read(held \o buffer)), DiscardBuf(n), UNCHANGED fed,
           held' = SubSeq(held \o buffer, Read(held \o buffer).length + 1,
                          Read(held \o buffer).fetched),
           done' = Append(done, Answer(Read(held \o buffer)))
    PROVE  ReadInv' /\ WaitInv'
<1> DEFINE t == held \o buffer
           r == Read(t)
<1>1. /\ t \in Text /\ IsLine(t) /\ held \in Text /\ buffer \in Text
      /\ Len(held) \in 0..1 /\ Len(buffer) \in Nat
      /\ Len(t) = Len(held) + Len(buffer)
      /\ r.fetched \in Len(held)..Len(t)
  BY Unread
<1>2. /\ r.length \in 1..Len(t)
      /\ \/ r.fetched = r.length
         \/ r.fetched = r.length + 1 /\ r.fetched \in 1..Len(t) /\ t[r.fetched] = "w"
  BY <1>1, ReadBounds
<1>3. PICK e \in 0..Len(fed) : t = After(fed, e) /\ Continues(fed, e, done)
  BY DEF IInv, ReadInv
<1>4. fed \in Text /\ IsLine(fed) /\ Len(fed) \in Nat /\ done \in Seq(Words)
  BY DEF IInv, LoopInv, ReadInv, TypeOK, Text, Words
<1>5. Len(t) = Len(fed) - e
  BY <1>3, <1>4, SuffixLine
<1>6. Answer(r) \in Words /\ e + r.length \in 0..Len(fed) /\ r.length \in 0..(Len(fed) - e)
  <2>1. Answer(r) \in Words
    BY <1>3, <1>4, ReadFrom
  <2> HIDE DEF t, r
  <2> QED
    BY <1>2, <1>4, <1>5, <2>1
<1>7. /\ held' = SubSeq(t, r.length + 1, r.fetched)
      /\ buffer' = SubSeq(buffer, n + 1, Len(buffer)) /\ bufpos' = 0
      /\ n = r.fetched - Len(held) /\ fed' = fed
  BY DEF DiscardBuf
<1>8. Continues(fed, e + r.length, done')
  BY <1>3, <1>4, ContinuesRead
<1>9. buffer' = After(t, r.fetched)
  <2> HIDE DEF t, r
  <2>1. CASE r.fetched = Len(t)
    <3>1. n = Len(buffer) /\ n + 1 > Len(buffer) /\ r.fetched + 1 > Len(t)
          /\ n \in Int /\ r.fetched \in Int /\ Len(t) \in Int
      BY <1>1, <1>7, <2>1
    <3>2. SubSeq(buffer, n + 1, Len(buffer)) = <<>>
      BY <1>1, <3>1, SubSeqEmpty
    <3>3. SubSeq(t, r.fetched + 1, Len(t)) = <<>>
      BY <3>1, SubSeqEmpty
    <3> QED
      BY <1>7, <3>2, <3>3 DEF After
  <2>2. CASE r.fetched < Len(t)
    <3> DEFINE i == r.fetched + 1
               j == Len(t)
    <3>1. /\ i \in (Len(held) + 1)..(Len(held) + Len(buffer))
          /\ j \in (Len(held) + 1)..(Len(held) + Len(buffer))
          /\ i - Len(held) = n + 1 /\ j - Len(held) = Len(buffer)
      <4> DEFINE h == Len(held)
                 b == Len(buffer)
                 f == r.fetched
      <4>1. /\ h \in Nat /\ b \in Nat /\ j = h + b /\ f \in h..j /\ f < j
            /\ i = f + 1 /\ n = f - h
        BY <1>1, <1>7, <2>2
      <4> HIDE DEF h, b, f, i, j
      <4>2. i \in (h + 1)..(h + b) /\ j \in (h + 1)..(h + b) /\ i - h = n + 1 /\ j - h = b
        BY <4>1
      <4> QED
        BY <4>2 DEF h, b
    <3> HIDE DEF i, j
    <3>2. SubSeq(held \o buffer, i, j) = SubSeq(buffer, i - Len(held), j - Len(held))
      BY <1>1, <3>1, SubSeqOfConcat2 DEF Text
    <3> QED
      BY <1>7, <3>1, <3>2 DEF After, i, j, t
  <2> QED
    BY <1>1, <2>1, <2>2
<1> HIDE DEF r
<1>10. held' \o buffer' = After(t, r.length)
  <2>1. /\ r.length + 1 \in 1..(Len(t) + 1) /\ r.fetched \in r.length..Len(t)
        /\ (r.length + 1) - 1 = r.length /\ Len(t) \in r.fetched..Len(t)
    BY <1>1, <1>2
  <2> HIDE DEF t
  <2>2. SubSeq(t, r.length + 1, r.fetched) \o SubSeq(t, r.fetched + 1, Len(t))
          = SubSeq(t, r.length + 1, Len(t))
    BY <1>1, <2>1, ConcatAdjacentSubSeq DEF Text
  <2> QED
    BY <1>7, <1>9, <2>2 DEF After
<1>11. held' \o buffer' = After(fed, e + r.length)
  BY <1>3, <1>4, <1>6, <1>10, AfterAfter
<1>12. held' \in {<<>>, <<"w">>}
  <2>1. CASE r.fetched = r.length
    <3> HIDE DEF t
    <3>1. r.length + 1 > r.fetched /\ r.length \in Int /\ r.fetched \in Int
      BY <1>1, <1>2, <2>1
    <3>2. SubSeq(t, r.length + 1, r.fetched) = <<>>
      BY <3>1, SubSeqEmpty
    <3> QED
      BY <1>7, <3>2
  <2>2. CASE r.fetched = r.length + 1 /\ r.fetched \in 1..Len(t) /\ t[r.fetched] = "w"
    <3> HIDE DEF t
    <3>1. held' = SubSeq(t, r.fetched, r.fetched)
      BY <1>7, <2>2
    <3>2. SubSeq(t, r.fetched, r.fetched) = <<t[r.fetched]>>
      <4>1. /\ r.fetched \in 1..Len(t) /\ r.fetched \in r.fetched..Len(t)
            /\ r.fetched + 1 > r.fetched /\ r.fetched \in Int
        BY <1>1, <2>2
      <4>2. SubSeq(t, r.fetched, r.fetched) =
              <<t[r.fetched]>> \o SubSeq(t, r.fetched + 1, r.fetched)
        BY <1>1, <4>1, SubSeqRecursiveFirst DEF Text
      <4>3. SubSeq(t, r.fetched + 1, r.fetched) = <<>>
        BY <4>1, SubSeqEmpty
      <4>4. <<t[r.fetched]>> \in Seq(Chars)
        BY <2>2 DEF Chars
      <4> QED
        BY <4>2, <4>3, <4>4, ConcatEmptySeq
    <3> QED
      BY <2>2, <3>1, <3>2
  <2> QED
    BY <1>2, <2>1, <2>2
<1>13. ReadInv'
  BY <1>4, <1>6, <1>7, <1>8, <1>11, <1>12 DEF ReadInv
<1>14. buffer' \in Text /\ Len(buffer') \in Nat
  <2> HIDE DEF t
  <2>1. r.fetched \in 0..Len(t)
    BY <1>1
  <2>2. After(t, r.fetched) \in Text
    BY <1>1, <2>1, SuffixLine
  <2> QED
    BY <1>9, <2>2 DEF Text
<1>15. held' \in Text /\ Len(held') <= 1
  <2>1. Len(<<>>) <= 1 /\ Len(<<"w">>) <= 1
    OBVIOUS
  <2> QED
    BY <1>12, <2>1, NoText
<1>16. WaitInv'
  <2> SUFFICES ASSUME ~(bufpos' < Len(buffer')) PROVE ~Complete(Read(held' \o buffer'))
    BY DEF WaitInv, Pending
  <2>1. buffer' = <<>>
    BY <1>7, <1>14, EmptySeq DEF Text
  <2>2. held' \o buffer' = held'
    BY <1>15, <2>1, ConcatEmptySeq DEF Text
  <2> QED
    BY <1>12, <2>2, NoText
<1> QED
  BY <1>13, <1>16

\* All the text is fetched and stays, as no form is complete.
LEMMA Awaited ==
    ASSUME IInv,
           ~Complete(Read(held \o buffer)), UNCHANGED <<fed, buffer, done>>,
           held' = SubSeq(held \o buffer, Read(held \o buffer).length + 1,
                          Read(held \o buffer).fetched),
           bufpos' = Read(held \o buffer).fetched - Len(held)
    PROVE  ReadInv' /\ WaitInv'
<1> DEFINE t == held \o buffer
           r == Read(t)
<1>1. /\ t \in Text /\ IsLine(t) /\ held \in Text /\ buffer \in Text
      /\ Len(held) \in 0..1 /\ Len(buffer) \in Nat
      /\ Len(t) = Len(held) + Len(buffer)
  BY Unread
<1>2. r.length = Len(t) /\ r.fetched = Len(t)
  BY <1>1, ReadBounds
<1>3. PICK e \in 0..Len(fed) : t = After(fed, e) /\ Continues(fed, e, done)
  BY DEF IInv, ReadInv
<1>4. fed \in Text /\ IsLine(fed) /\ Len(fed) \in Nat
  BY DEF IInv, LoopInv, ReadInv, TypeOK, Text
<1>5. bufpos' = Len(buffer)
  BY <1>1, <1>2
<1>6. held' = <<>>
  <2>1. Len(t) + 1 > Len(t)
    BY <1>1
  <2>2. SubSeq(t, Len(t) + 1, Len(t)) = <<>>
    BY <1>1, <2>1, SubSeqEmpty
  <2> QED
    BY <1>2, <2>2
<1>7. held' \o buffer' = buffer
  BY <1>1, <1>6, ConcatEmptySeq DEF Text
<1>8. CASE held = <<>>
  <2>1. t = buffer
    BY <1>1, <1>8, ConcatEmptySeq DEF Text
  <2>2. ReadInv'
    BY <1>3, <1>4, <1>6, <1>7, <2>1 DEF ReadInv
  <2>3. WaitInv'
    BY <1>7, <2>1 DEF WaitInv
  <2> QED
    BY <1>1, <1>5, <1>6, <2>2, <2>3
<1>9. CASE held = <<"w">>
  <2>1. /\ t # <<>> /\ t[1] = "w" /\ Len(t) = 1 + Len(buffer)
    BY <1>1, <1>9 DEF Text
  <2>2. SubSeq(t, 2, Len(t)) = buffer
    <3>1. CASE Len(buffer) = 0
      <4>1. 2 > Len(t) /\ buffer = <<>>
        BY <1>1, <2>1, <3>1, EmptySeq DEF Text
      <4> QED
        BY <1>1, <4>1, SubSeqEmpty
    <3>2. CASE Len(buffer) > 0
      <4> DEFINE i == 2
                 j == Len(t)
      <4>1. /\ i \in (Len(held) + 1)..(Len(held) + Len(buffer))
            /\ j \in (Len(held) + 1)..(Len(held) + Len(buffer))
            /\ i - Len(held) = 1 /\ j - Len(held) = Len(buffer)
        BY <1>1, <1>9, <3>2
      <4> HIDE DEF i, j
      <4>2. SubSeq(held \o buffer, i, j) = SubSeq(buffer, i - Len(held), j - Len(held))
        BY <1>1, <4>1, SubSeqOfConcat2 DEF Text
      <4>3. SubSeq(buffer, 1, Len(buffer)) = buffer
        BY <1>1, SubSeqFull DEF Text
      <4> QED
        BY <4>1, <4>2, <4>3 DEF i, j
    <3> QED
      BY <1>1, <3>1, <3>2
  <2> HIDE DEF t
  <2>3. WaitInv'
    <3>1. ~Complete(Read(buffer))
      <4>1. Read(t).kind = Read(buffer).kind /\ Read(t).eof = Read(buffer).eof
        BY <1>1, <2>1, <2>2, BlankShift
      <4> QED
        BY <4>1 DEF Complete, t
    <3> QED
      BY <1>7, <3>1 DEF WaitInv
  <2>4. /\ e \in 0..(Len(fed) - 1) /\ fed[e + 1] = "w" /\ e + 1 \in 0..Len(fed)
        /\ 1 \in 0..(Len(fed) - e)
    <3>1. Len(t) = Len(fed) - e /\ \A k \in 1..(Len(fed) - e) : t[k] = fed[e + k]
      BY <1>3, <1>4, SuffixLine
    <3>2. 1 \in 1..(Len(fed) - e)
      BY <1>1, <1>4, <2>1, <3>1
    <3> QED
      BY <1>4, <2>1, <3>1, <3>2
  <2>5. buffer = After(fed, e + 1)
    <3>1. After(t, 1) = After(fed, e + 1)
      BY <1>3, <1>4, <2>4, AfterAfter
    <3> QED
      BY <2>2, <3>1 DEF After
  <2>6. Continues(fed, e + 1, done)
    BY <1>3, <1>4, <2>4, ContinuesSkip
  <2>7. ReadInv'
    BY <1>4, <1>6, <1>7, <2>4, <2>5, <2>6 DEF ReadInv
  <2> QED
    BY <1>1, <1>5, <1>6, <2>3, <2>7
<1> QED
  BY <1>8, <1>9 DEF IInv, ReadInv

\* The reader is called.
LEMMA TryReadSafe ==
    ASSUME IInv, TryRead
    PROVE  IInv'
<1> DEFINE t == held \o buffer
           r == Read(t)
           k == IF r.fetched < Len(held) THEN 0 ELSE r.fetched - Len(held)
           n == r.fetched - Len(held)
<1>1. fed' = fed /\ held' = SubSeq(t, r.length + 1, r.fetched)
  BY DEF TryRead
<1>2. k = n
  <2>1. Len(held) \in 0..1 /\ r.fetched \in Len(held)..Len(t) /\ Len(t) = Len(held) + Len(buffer)
        /\ Len(buffer) \in Nat
    BY Unread
  <2> DEFINE h == Len(held)
             l == Len(t)
             f == r.fetched
             b == Len(buffer)
  <2>2. h \in 0..1 /\ f \in h..l /\ l = h + b /\ b \in Nat
    BY <2>1
  <2> HIDE DEF h, l, f, b
  <2>3. (IF f < h THEN 0 ELSE f - h) = f - h
    BY <2>2
  <2> QED
    BY <2>3 DEF h, f
<1>3. \/ r.kind = "datum" /\ DiscardBuf(k) /\ done' = Append(done, r.datum)
      \/ r.kind = "error" /\ ReadFails(r, k, Unsaved)
      \/ r.kind = "eof" /\ bufpos' = k /\ UNCHANGED <<buffer, done>>
  BY DEF TryRead, CaughtAfresh
<1>4. /\ r.kind = "error" => (r.eof <=> ~Complete(r))
      /\ r.kind = "datum" => Complete(r) /\ Answer(r) = r.datum
      /\ r.kind = "error" => Answer(r) = <<"error">>
      /\ r.kind = "eof" => ~Complete(r)
  <2>1. t \in Text /\ IsLine(t)
    BY Unread
  <2>2. r.kind = "error" => (r.eof <=> ~Complete(r))
    BY <2>1, ReadBounds
  <2> HIDE DEF r
  <2> QED
    BY <2>2 DEF Complete, Answer
<1>5. ReadInv' /\ WaitInv'
  <2>1. CASE Complete(r)
    <3>1. DiscardBuf(n) /\ done' = Append(done, Answer(r))
      <4> HIDE DEF r, n, k
      <4> QED
        BY <1>2, <1>3, <1>4, <2>1 DEF ReadFails
    <3> QED
      BY <1>1, <2>1, <3>1, Taken
  <2>2. CASE ~Complete(r)
    <3>1. bufpos' = n /\ UNCHANGED <<buffer, done>>
      <4> HIDE DEF r, n, k
      <4> QED
        BY <1>2, <1>3, <1>4, <2>2 DEF ReadFails
    <3> QED
      BY <1>1, <2>2, <3>1, Awaited
  <2> QED
    BY <2>1, <2>2
<1> QED
  BY <1>5, LoopTryRead DEF IInv

\* Every step keeps the invariant; evaluation leaves the text alone.
LEMMA NextSafe == Lines /\ IInv /\ [Next]_vars => IInv'
<1> SUFFICES ASSUME Lines, IInv, [Next]_vars PROVE IInv'
  OBVIOUS
<1>1. ASSUME UNCHANGED <<buffer, bufpos, held, fed, done>> PROVE IInv'
  <2>1. LoopInv'
    BY LoopStep DEF IInv
  <2>2. ReadInv' /\ WaitInv'
    BY <1>1 DEF IInv, ReadInv, WaitInv, Pending
  <2> QED
    BY <2>1, <2>2 DEF IInv
<1>2. CASE EvalReturns \/ EvalErrors \/ EvalThrows
  BY <1>1, <1>2 DEF EvalReturns, EvalErrors, EvalThrows
<1>3. CASE UNCHANGED vars
  BY <1>1, <1>3 DEF vars
<1> QED
  BY <1>2, <1>3, InputSafe, TryReadSafe DEF Next, Finished

\* Where every piece of text is a line, the invariant holds.
LEMMA Safe ==
    ASSUME Lines
    PROVE  Spec => []IInv
<1>1. IInv /\ [Next]_vars => IInv'
  BY NextSafe
<1> QED
  BY <1>1, InitSafe, PTL DEF Spec

\* The forms evaluated and the errors reported are those of the whole text,
\* however it is cut into pieces, and whatever the forms do.
THEOREM EveryFormOnce ==
    ASSUME Lines
    PROVE  Spec => []FormsInOrder
<1>1. IInv => FormsInOrder
  <2> SUFFICES ASSUME IInv PROVE FormsInOrder
    OBVIOUS
  <2>1. PICK e \in 0..Len(fed) :
            held \o buffer = After(fed, e) /\ Continues(fed, e, done)
    BY DEF IInv, ReadInv
  <2> QED
    BY <2>1, TypeParts, ContinuesEnd DEF IInv, ReadInv, FormsInOrder, WholeText
<1> QED
  BY <1>1, Safe, PTL

\* Between two calls of input, where pending? answers no, every complete form
\* of the text has been evaluated.
THEOREM NothingLeft ==
    ASSUME Lines
    PROVE  Spec => []NothingForgotten
<1>1. IInv => NothingForgotten
  <2> SUFFICES ASSUME IInv, ~Pending PROVE done = WholeText
    BY DEF NothingForgotten
  <2>1. PICK e \in 0..Len(fed) :
            held \o buffer = After(fed, e) /\ Continues(fed, e, done)
    BY DEF IInv, ReadInv
  <2>2. ~Complete(Read(After(fed, e)))
    BY <2>1 DEF IInv, WaitInv
  <2> QED
    BY <2>1, <2>2, TypeParts, ContinuesEnd DEF IInv, ReadInv, WholeText
<1> QED
  BY <1>1, Safe, PTL
=============================================================================
