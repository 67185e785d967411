---------------------------- MODULE VfsPortProofs ----------------------------
(***************************************************************************)
(* For files, buffers and calls of any size, and a program that does not   *)
(* force the output of a port it reads from: a port on a handle that was   *)
(* opened to seek is a transparent view of its file (VfsPort implements    *)
(* FilePort), whichever calls of GnomeVFS are cut short or fail.           *)
(*                                                                         *)
(* The functions of the port type are shown one by one to keep what the    *)
(* program sees: Seen(p), the bytes of the file with those of the write    *)
(* buffer over them, and Place(p), the position in them.                   *)
(***************************************************************************)
EXTENDS VfsPort, SequenceTheorems, TLAPS

CarefulProgram == Random /\ Env = {}

\* What the program sees of a port p: VfsPort's Contents and FilePosition
Seen(p) == Overlay(p.file, p.pos, p.wbuf)
Place(p) == p.pos + Len(p.wbuf) - Len(p.rbuf)

\* A port that has its handle
PortType == [handle : {TRUE}, file : Seq(Bytes), pos : Nat, rbuf : Seq(Bytes), back : Seq(Bytes),
             wbuf : Seq(Bytes), active : {"neither", "read", "write"}]

\* One buffer is in use, and active says which.
Directed(p) ==
    /\ p.wbuf # <<>> => p.active = "write" /\ p.rbuf = <<>> /\ p.back = <<>>
    /\ p.rbuf # <<>> \/ p.back # <<>> => p.active = "read"

\* The read buffer is the part of the file that ends at the position.
Buffered(p) ==
    /\ Len(p.rbuf) <= p.pos /\ Len(p.rbuf) <= ReadSize
    /\ p.rbuf # <<>> => p.pos <= Len(p.file)
    /\ \A k \in 1..Len(p.rbuf) : p.rbuf[k] = p.file[p.pos - Len(p.rbuf) + k]

\* The bounds of the model hold with what is pending.
Bounded(p) ==
    /\ Len(p.file) <= MaxLen /\ p.pos + Len(p.wbuf) <= MaxLen
    /\ Len(p.wbuf) <= WriteSize

PortInv(p) == p \in PortType /\ Directed(p) /\ Buffered(p) /\ Bounded(p)

\* A port without a handle
Dead(p) ==
    p \in [handle : {FALSE}, file : {p.file}, pos : {p.pos}, rbuf : {p.rbuf}, back : {p.back},
           wbuf : {p.wbuf}, active : {"neither", "read", "write"}]

IInv == open \in BOOLEAN /\ (open => PortInv(port) \/ Dead(port))

-----------------------------------------------------------------------------
(* Sequences *)

\* One sequence after another
LEMMA Concat ==
    ASSUME NEW a \in Seq(Bytes), NEW b \in Seq(Bytes)
    PROVE  /\ a \o b \in Seq(Bytes) /\ Len(a \o b) = Len(a) + Len(b)
           /\ \A k \in 1..(Len(a) + Len(b)) :
                (a \o b)[k] = IF k <= Len(a) THEN a[k] ELSE b[k - Len(a)]
BY ConcatProperties

\* A sequence cut in two
LEMMA Cut ==
    ASSUME NEW s \in Seq(Bytes), NEW k \in 0..Len(s)
    PROVE  /\ First(s, k) \in Seq(Bytes) /\ Len(First(s, k)) = k
           /\ \A j \in 1..k : First(s, k)[j] = s[j]
           /\ Rest(s, k) \in Seq(Bytes) /\ Len(Rest(s, k)) = Len(s) - k
           /\ \A j \in 1..(Len(s) - k) : Rest(s, k)[j] = s[k + j]
           /\ First(s, k) \o Rest(s, k) = s
<1> DEFINE n == Len(s)
<1>1. n \in Nat /\ \A j \in 1..n : s[j] \in Bytes
  BY LenProperties, ElementOfSeq
<1>2. /\ SubSeq(s, 1, k) \in Seq(Bytes)
      /\ Len(SubSeq(s, 1, k)) = IF 1 <= k THEN k - 1 + 1 ELSE 0
      /\ \A j \in 1..(k - 1 + 1) : SubSeq(s, 1, k)[j] = s[1 + j - 1]
  BY <1>1, SubSeqProperties
<1>3. /\ SubSeq(s, k + 1, n) \in Seq(Bytes)
      /\ Len(SubSeq(s, k + 1, n)) = IF k + 1 <= n THEN n - (k + 1) + 1 ELSE 0
      /\ \A j \in 1..(n - (k + 1) + 1) : SubSeq(s, k + 1, n)[j] = s[(k + 1) + j - 1]
  BY <1>1, SubSeqProperties
<1> DEFINE a == First(s, k)
           b == Rest(s, k)
<1>4. /\ a \in Seq(Bytes) /\ Len(a) = k
      /\ \A j \in 1..k : a[j] = s[j]
  BY <1>1, <1>2 DEF First
<1>5. b \in Seq(Bytes) /\ Len(b) = n - k
  BY <1>1, <1>3 DEF Rest
<1>6. ASSUME NEW j \in 1..(n - k) PROVE b[j] = s[k + j]
  <2>1. j \in 1..(n - (k + 1) + 1) /\ (k + 1) + j - 1 = k + j
    BY <1>1
  <2> QED
    BY <1>3, <2>1 DEF Rest
<1> HIDE DEF a, b
<1>7. a \o b = s
  <2>1. /\ a \o b \in Seq(Bytes) /\ Len(a \o b) = n
        /\ \A j \in 1..n : (a \o b)[j] = IF j <= k THEN a[j] ELSE b[j - k]
    <3>1. k + (n - k) = n
      BY <1>1
    <3> QED
      BY <1>4, <1>5, <3>1, Concat
  <2>2. ASSUME NEW j \in 1..n PROVE (a \o b)[j] = s[j]
    <3>1. CASE j <= k
      <4>1. j \in 1..k
        BY <1>1, <3>1
      <4> QED
        BY <1>4, <2>1, <3>1, <4>1
    <3>2. CASE ~(j <= k)
      <4>1. j - k \in 1..(n - k) /\ k + (j - k) = j
        BY <1>1, <3>2
      <4> QED
        BY <1>6, <2>1, <3>2, <4>1
    <3> QED
      BY <3>1, <3>2
  <2> QED
    BY <2>1, <2>2, SeqEqual
<1> QED
  BY <1>4, <1>5, <1>6, <1>7 DEF a, b

\* o is f with s over it, after n bytes, and has length l.
IsOverlay(o, f, n, s, l) ==
    /\ o \in Seq(Bytes) /\ Len(o) = l
    /\ \A k \in 1..l : o[k] = IF k \in (n + 1)..(n + Len(s)) THEN s[k - n]
                              ELSE IF k <= Len(f) THEN f[k] ELSE Hole

\* What is written over a file, and what is left of it
LEMMA OverlayIs ==
    ASSUME NEW f \in Seq(Bytes), NEW n \in Nat, NEW s \in Seq(Bytes), s # <<>>
    PROVE  IsOverlay(Overlay(f, n, s), f, n, s, Larger(Len(f), n + Len(s)))
<1> DEFINE m == Larger(Len(f), n + Len(s))
           g == [k \in 1..m |-> IF k \in (n + 1)..(n + Len(s)) THEN s[k - n]
                                ELSE IF k <= Len(f) THEN f[k] ELSE Hole]
<1>1. /\ Len(f) \in Nat /\ Len(s) \in Nat
      /\ \A k \in 1..Len(f) : f[k] \in Bytes
      /\ \A k \in 1..Len(s) : s[k] \in Bytes
  BY LenProperties, ElementOfSeq
<1>2. m \in Nat /\ Overlay(f, n, s) = g
  BY <1>1 DEF Overlay, Larger
<1>3. ASSUME NEW k \in 1..m
      PROVE  (IF k \in (n + 1)..(n + Len(s)) THEN s[k - n]
              ELSE IF k <= Len(f) THEN f[k] ELSE Hole) \in Bytes
  <2>1. CASE k \in (n + 1)..(n + Len(s))
    <3>1. k - n \in 1..Len(s)
      BY <1>1, <2>1
    <3> QED
      BY <1>1, <2>1, <3>1
  <2>2. CASE k \notin (n + 1)..(n + Len(s)) /\ k <= Len(f)
    <3>1. k \in 1..Len(f)
      BY <1>1, <1>2, <2>2
    <3> QED
      BY <1>1, <2>2, <3>1
  <2>3. CASE k \notin (n + 1)..(n + Len(s)) /\ ~(k <= Len(f))
    BY <2>3, HoleAssumption
  <2> QED
    BY <2>1, <2>2, <2>3
<1> HIDE DEF m
<1>4. g \in [1..m -> Bytes]
  BY <1>3
<1>5. g \in Seq(Bytes) /\ DOMAIN g = 1..m
  BY <1>2, <1>4, IsASeq
<1>6. Len(g) = m
  BY <1>2, <1>5, LenProperties
<1> QED
  BY <1>2, <1>5, <1>6 DEF m, IsOverlay

\* An overlay is a sequence.
LEMMA OverlayType ==
    ASSUME NEW f \in Seq(Bytes), NEW n \in Nat, NEW s \in Seq(Bytes)
    PROVE  /\ Overlay(f, n, s) \in Seq(Bytes)
           /\ s = <<>> => Overlay(f, n, s) = f
           /\ Len(f) <= MaxLen /\ n + Len(s) <= MaxLen => Len(Overlay(f, n, s)) <= MaxLen
<1>1. CASE s = <<>>
  BY <1>1 DEF Overlay
<1>2. CASE s # <<>>
  <2>1. Len(f) \in Nat /\ Len(s) \in Nat
    BY LenProperties
  <2> QED
    BY <1>2, <2>1, OverlayIs DEF Larger, IsOverlay
<1> QED
  BY <1>1, <1>2

\* Two pieces written one after the other are as good as one.
LEMMA OverlayTwice ==
    ASSUME NEW f \in Seq(Bytes), NEW n \in Nat, NEW a \in Seq(Bytes), NEW b \in Seq(Bytes)
    PROVE  Overlay(Overlay(f, n, a), n + Len(a), b) = Overlay(f, n, a \o b)
<1>1. Len(f) \in Nat /\ Len(a) \in Nat /\ Len(b) \in Nat
  BY LenProperties
<1>2. CASE a = <<>>
  <2>1. a \o b = b /\ Len(a) = 0 /\ Overlay(f, n, a) = f
    BY <1>2, ConcatEmptySeq, EmptySeq DEF Overlay
  <2> QED
    BY <2>1
<1>3. CASE b = <<>>
  <2>1. a \o b = a
    BY <1>3, ConcatEmptySeq
  <2> QED
    BY <1>3, <2>1 DEF Overlay
<1>4. CASE a # <<>> /\ b # <<>>
  <2> DEFINE c == a \o b
             g == Overlay(f, n, a)
             h == Overlay(g, n + Len(a), b)
             o == Overlay(f, n, c)
             m == Larger(Len(f), n + Len(a))
             l == Larger(Len(f), n + Len(a) + Len(b))
  <2>1. /\ c \in Seq(Bytes) /\ Len(c) = Len(a) + Len(b)
        /\ \A k \in 1..(Len(a) + Len(b)) : c[k] = IF k <= Len(a) THEN a[k] ELSE b[k - Len(a)]
    BY Concat
  <2>2. Len(a) > 0 /\ Len(b) > 0
    BY <1>1, <1>4, EmptySeq
  <2>3. c # <<>>
    BY <1>1, <2>1, <2>2, EmptySeq
  <2>4. /\ g \in Seq(Bytes) /\ Len(g) = m
        /\ \A k \in 1..m : g[k] = IF k \in (n + 1)..(n + Len(a)) THEN a[k - n]
                                  ELSE IF k <= Len(f) THEN f[k] ELSE Hole
    BY <1>4, OverlayIs DEF IsOverlay
  <2>5. m \in Nat /\ l \in Nat /\ Larger(m, n + Len(a) + Len(b)) = l /\ m <= l
        /\ n + (Len(a) + Len(b)) = n + Len(a) + Len(b)
    BY <1>1, <2>2 DEF Larger
  <2> HIDE DEF c, g, m, l
  <2>6. /\ h \in Seq(Bytes) /\ Len(h) = l
        /\ \A k \in 1..l : h[k] = IF k \in (n + Len(a) + 1)..(n + Len(a) + Len(b))
                                  THEN b[k - (n + Len(a))]
                                  ELSE IF k <= m THEN g[k] ELSE Hole
    <3>1. n + Len(a) \in Nat
      BY <1>1
    <3>2. IsOverlay(h, g, n + Len(a), b, Larger(Len(g), n + Len(a) + Len(b)))
      BY <1>4, <2>4, <3>1, OverlayIs
    <3> HIDE DEF h
    <3>3. IsOverlay(h, g, n + Len(a), b, l)
      BY <2>4, <2>5, <3>2
    <3> QED
      BY <2>4, <3>3 DEF IsOverlay
  <2>7. /\ o \in Seq(Bytes) /\ Len(o) = l
        /\ \A k \in 1..l : o[k] = IF k \in (n + 1)..(n + Len(a) + Len(b)) THEN c[k - n]
                                  ELSE IF k <= Len(f) THEN f[k] ELSE Hole
    <3>1. IsOverlay(o, f, n, c, Larger(Len(f), n + Len(c)))
      BY <2>1, <2>3, OverlayIs
    <3>2. n + Len(c) = n + Len(a) + Len(b) /\ Larger(Len(f), n + Len(c)) = l
      BY <2>1, <2>5 DEF l
    <3> HIDE DEF o
    <3>3. IsOverlay(o, f, n, c, l)
      BY <3>1, <3>2
    <3> QED
      BY <3>2, <3>3 DEF IsOverlay
  <2> HIDE DEF h, o
  <2>8. ASSUME NEW k \in 1..l PROVE h[k] = o[k]
    <3>1. CASE k \in (n + Len(a) + 1)..(n + Len(a) + Len(b))
      <4>1. /\ k \in (n + 1)..(n + Len(a) + Len(b)) /\ k - n \in 1..(Len(a) + Len(b))
            /\ ~(k - n <= Len(a)) /\ (k - n) - Len(a) = k - (n + Len(a))
        BY <1>1, <2>5, <3>1
      <4>2. h[k] = b[k - (n + Len(a))] /\ o[k] = c[k - n]
        BY <2>6, <2>7, <3>1, <4>1
      <4>3. c[k - n] = b[(k - n) - Len(a)]
        BY <2>1, <4>1
      <4> QED
        BY <4>1, <4>2, <4>3
    <3>2. CASE k \in (n + 1)..(n + Len(a))
      <4>1. /\ k \in (n + 1)..(n + Len(a) + Len(b)) /\ k - n \in 1..(Len(a) + Len(b))
            /\ k - n <= Len(a) /\ k \notin (n + Len(a) + 1)..(n + Len(a) + Len(b))
            /\ k \in 1..m /\ k <= m
        BY <1>1, <2>5, <3>2 DEF m, Larger
      <4>2. h[k] = g[k] /\ o[k] = c[k - n]
        BY <2>6, <2>7, <4>1
      <4>3. g[k] = a[k - n] /\ c[k - n] = a[k - n]
        BY <2>1, <2>4, <3>2, <4>1
      <4> QED
        BY <4>2, <4>3
    <3>3. CASE k \notin (n + 1)..(n + Len(a) + Len(b))
      <4>1. /\ k \notin (n + Len(a) + 1)..(n + Len(a) + Len(b)) /\ k \notin (n + 1)..(n + Len(a))
            /\ (k <= m => k \in 1..m) /\ (k <= Len(f) => k <= m)
        BY <1>1, <2>5, <3>3 DEF m, Larger
      <4> QED
        BY <2>4, <2>6, <2>7, <3>3, <4>1
    <3> QED
      BY <1>1, <2>5, <3>1, <3>2, <3>3
  <2>9. h = o
    BY <2>6, <2>7, <2>8, SeqEqual
  <2> QED
    BY <2>9 DEF h, o, g, c
<1> QED
  BY <1>2, <1>3, <1>4

\* Two pieces from the start of a sequence
LEMMA Pieces ==
    ASSUME NEW s \in Seq(Bytes), NEW i \in 0..Len(s), NEW j \in 0..(Len(s) - i)
    PROVE  First(s, i) \o First(Rest(s, i), j) = First(s, i + j)
<1>1. Len(s) \in Nat
  BY LenProperties
<1> DEFINE a == First(s, i)
           c == Rest(s, i)
           b == First(c, j)
           d == First(s, i + j)
<1>2. /\ a \in Seq(Bytes) /\ Len(a) = i /\ \A k \in 1..i : a[k] = s[k]
      /\ c \in Seq(Bytes) /\ Len(c) = Len(s) - i
      /\ \A k \in 1..(Len(s) - i) : c[k] = s[i + k]
  BY Cut
<1>3. i + j \in 0..Len(s)
  BY <1>1
<1>4. d \in Seq(Bytes) /\ Len(d) = i + j /\ \A k \in 1..(i + j) : d[k] = s[k]
  BY <1>3, Cut
<1> HIDE DEF a, c, d
<1>5. b \in Seq(Bytes) /\ Len(b) = j /\ \A k \in 1..j : b[k] = c[k]
  <2>1. j \in 0..Len(c)
    BY <1>1, <1>2
  <2> QED
    BY <1>2, <2>1, Cut
<1> HIDE DEF b
<1>6. /\ a \o b \in Seq(Bytes) /\ Len(a \o b) = i + j
      /\ \A k \in 1..(i + j) : (a \o b)[k] = IF k <= i THEN a[k] ELSE b[k - i]
  BY <1>2, <1>5, Concat
<1>7. ASSUME NEW k \in 1..(i + j) PROVE (a \o b)[k] = d[k]
  <2>1. CASE k <= i
    <3>1. k \in 1..i
      BY <1>1, <2>1
    <3> QED
      BY <1>2, <1>4, <1>6, <2>1, <3>1
  <2>2. CASE ~(k <= i)
    <3>1. k - i \in 1..j /\ k - i \in 1..(Len(s) - i) /\ i + (k - i) = k
      BY <1>1, <2>2
    <3>2. (a \o b)[k] = b[k - i] /\ d[k] = s[k]
      BY <1>4, <1>6, <2>2
    <3>3. b[k - i] = c[k - i]
      BY <1>5, <3>1
    <3>4. c[k - i] = s[i + (k - i)]
      BY <1>2, <3>1
    <3> QED
      BY <3>1, <3>2, <3>3, <3>4
  <2> QED
    BY <2>1, <2>2
<1>8. a \o b = d
  BY <1>4, <1>6, <1>7, SeqEqual
<1> QED
  BY <1>8 DEF a, b, c, d

-----------------------------------------------------------------------------
(* The port type's functions that write *)

\* A port that is not read from
WriteReady(p) == p \in PortType /\ p.rbuf = <<>> /\ p.back = <<>> /\ Bounded(p)

\* For the program, q is as p was.
Same(q, p) == Seen(q) = Seen(p) /\ Place(q) = Place(p) /\ q.back = p.back

\* In q, the first k bytes of s have been written where p was.
Wrote(q, p, s, k) ==
    /\ k \in 0..Len(s)
    /\ Seen(q) = Overlay(Seen(p), Place(p), First(s, k))
    /\ Place(q) = Place(p) + k

\* The bounds' types
LEMMA Bounds ==
    /\ WriteSize \in Nat /\ WriteSize > 0 /\ ReadSize \in Nat /\ ReadSize > 0
    /\ MaxLen \in Nat /\ MaxWrite \in Nat /\ MaxBack \in Nat
BY SizesAssumption

\* A port's fields
LEMMA Fields ==
    ASSUME NEW p \in PortType
    PROVE  /\ p.file \in Seq(Bytes) /\ p.rbuf \in Seq(Bytes) /\ p.back \in Seq(Bytes)
           /\ p.wbuf \in Seq(Bytes) /\ p.pos \in Nat
           /\ Len(p.file) \in Nat /\ Len(p.rbuf) \in Nat /\ Len(p.back) \in Nat
           /\ Len(p.wbuf) \in Nat
<1>1. /\ p.file \in Seq(Bytes) /\ p.rbuf \in Seq(Bytes) /\ p.back \in Seq(Bytes)
      /\ p.wbuf \in Seq(Bytes) /\ p.pos \in Nat
  BY DEF PortType
<1> QED
  BY <1>1, LenProperties

\* What the program sees of a port that is not read from
LEMMA SeenType ==
    ASSUME NEW p, WriteReady(p)
    PROVE  /\ Seen(p) \in Seq(Bytes) /\ Place(p) \in Nat
           /\ Place(p) = p.pos + Len(p.wbuf) /\ Place(p) <= MaxLen
           /\ p.wbuf = <<>> => Seen(p) = p.file /\ Place(p) = p.pos
<1>1. p \in PortType /\ p.rbuf = <<>> /\ p.pos + Len(p.wbuf) <= MaxLen
  BY DEF WriteReady, Bounded
<1>2. Len(p.rbuf) = 0 /\ (p.wbuf = <<>> => Len(p.wbuf) = 0)
  BY <1>1, EmptySeq
<1>3. /\ Overlay(p.file, p.pos, p.wbuf) \in Seq(Bytes)
      /\ p.wbuf = <<>> => Overlay(p.file, p.pos, p.wbuf) = p.file
  BY <1>1, Fields, OverlayType
<1> QED
  BY <1>1, <1>2, <1>3, Fields DEF Seen, Place

\* gnome_vfs_write puts a at the position; b is what is still to be written.
Put(p, a, b, act) == [PutBytes(p, a) EXCEPT !.wbuf = b, !.active = act]

\* Then the program sees both.
LEMMA PutSafe ==
    ASSUME NEW p, WriteReady(p), NEW a \in Seq(Bytes), NEW b \in Seq(Bytes),
           NEW act \in {"neither", "read", "write"},
           p.pos + Len(a) + Len(b) <= MaxLen, Len(b) <= WriteSize,
           NEW q, q = Put(p, a, b, act)
    PROVE  /\ WriteReady(q) /\ q.wbuf = b /\ q.active = act
           /\ Seen(q) = Overlay(p.file, p.pos, a \o b)
           /\ Place(q) = p.pos + Len(a) + Len(b)
<1> DEFINE f == Overlay(p.file, p.pos, a)
<1>1. /\ p \in PortType /\ p.rbuf = <<>> /\ p.back = <<>> /\ Len(p.file) <= MaxLen
      /\ Len(a) \in Nat /\ Len(b) \in Nat /\ Len(p.rbuf) = 0
  BY LenProperties, EmptySeq DEF WriteReady, Bounded
<1>2. f \in Seq(Bytes) /\ Len(f) <= MaxLen
  <2>1. p.pos + Len(a) <= MaxLen
    BY <1>1, Fields, Bounds
  <2> QED
    BY <1>1, <2>1, Fields, OverlayType
<1> HIDE DEF f
<1>3. /\ q \in PortType /\ q.file = f /\ q.pos = p.pos + Len(a) /\ q.wbuf = b
      /\ q.active = act /\ q.rbuf = <<>> /\ q.back = <<>>
  <2>1. PutBytes(p, a) = [p EXCEPT !.file = f, !.pos = p.pos + Len(a)]
    BY <1>1 DEF PutBytes, PortType, f
  <2>2. q = [p EXCEPT !.file = f, !.pos = p.pos + Len(a), !.wbuf = b, !.active = act]
    BY <1>1, <2>1 DEF PortType, Put
  <2>3. p.pos + Len(a) \in Nat
    BY <1>1, Fields
  <2> QED
    BY <1>1, <1>2, <2>2, <2>3 DEF PortType
<1>4. Seen(q) = Overlay(p.file, p.pos, a \o b)
  <2>1. Overlay(f, p.pos + Len(a), b) = Overlay(p.file, p.pos, a \o b)
    <3>1. p.file \in Seq(Bytes) /\ p.pos \in Nat
      BY <1>1, Fields
    <3> QED
      BY <3>1, OverlayTwice DEF f
  <2> QED
    BY <1>3, <2>1 DEF Seen
<1>5. Place(q) = p.pos + Len(a) + Len(b)
  <2>1. q.pos = p.pos + Len(a) /\ Len(q.wbuf) = Len(b) /\ Len(q.rbuf) = 0 /\ p.pos \in Nat
    BY <1>1, <1>3, Fields
  <2> QED
    BY <1>1, <2>1 DEF Place
<1>6. WriteReady(q)
  BY <1>1, <1>2, <1>3, Fields DEF WriteReady, Bounded
<1> QED
  BY <1>3, <1>4, <1>5, <1>6

\* vport_flush, whether it fails or not: no byte is lost or repeated.
LEMMA FlushSafe ==
    ASSUME NEW p, WriteReady(p), NEW r \in VportFlush(p)
    PROVE  /\ r.ok \in BOOLEAN /\ WriteReady(r.port) /\ Same(r.port, p)
           /\ r.ok => r.port.wbuf = <<>> /\ r.port.active = "neither"
           /\ ~r.ok => r.port.active = p.active /\ p.wbuf # <<>>
<1>1. /\ p \in PortType /\ p.back = <<>> /\ p.wbuf \in Seq(Bytes) /\ Len(p.wbuf) \in Nat
      /\ p.pos \in Nat /\ p.pos + Len(p.wbuf) <= MaxLen /\ Len(p.wbuf) <= WriteSize
      /\ p.active \in {"neither", "read", "write"}
  BY Fields DEF WriteReady, Bounded, PortType
<1>2. /\ Seen(p) = Overlay(p.file, p.pos, p.wbuf) /\ Place(p) = p.pos + Len(p.wbuf)
      /\ <<>> \in Seq(Bytes) /\ Len(<<>>) = 0 /\ p.wbuf \o <<>> = p.wbuf
  BY <1>1, SeenType, EmptySeq, ConcatEmptySeq DEF Seen
<1>3. CASE p.wbuf = <<>> /\ r = Good([p EXCEPT !.active = "neither"])
  <2>1. Len(p.wbuf) = 0 /\ Len(p.wbuf) \in Nat
    BY <1>3, EmptySeq
  <2> DEFINE q == [p EXCEPT !.active = "neither"]
  <2>2. r.ok = TRUE /\ r.port = q
    BY <1>3 DEF Good
  <2>3. /\ q \in PortType /\ q.file = p.file /\ q.pos = p.pos /\ q.rbuf = p.rbuf
        /\ q.back = p.back /\ q.wbuf = p.wbuf /\ q.active = "neither"
    BY <1>1 DEF PortType
  <2> HIDE DEF q
  <2>4. WriteReady(q) /\ Same(q, p)
    BY <2>3 DEF WriteReady, Bounded, Same, Seen, Place
  <2> QED
    BY <1>3, <2>2, <2>3, <2>4
<1>4. CASE r = Good([PutBytes(p, p.wbuf) EXCEPT !.wbuf = <<>>, !.active = "neither"])
  <2> DEFINE q == [PutBytes(p, p.wbuf) EXCEPT !.wbuf = <<>>, !.active = "neither"]
  <2>1. /\ WriteReady(q) /\ q.wbuf = <<>> /\ q.active = "neither"
        /\ Seen(q) = Overlay(p.file, p.pos, p.wbuf \o <<>>)
        /\ Place(q) = p.pos + Len(p.wbuf) + 0
    <3>1. p.pos + Len(p.wbuf) + Len(<<>>) <= MaxLen /\ Len(<<>>) <= WriteSize
      BY <1>1, <1>2, Bounds
    <3>2. q = Put(p, p.wbuf, <<>>, "neither")
      BY DEF Put
    <3> HIDE DEF q
    <3>3. PICK e \in Seq(Bytes) : e = <<>>
      BY <1>2
    <3>4. /\ WriteReady(q) /\ q.wbuf = e /\ q.active = "neither"
          /\ Seen(q) = Overlay(p.file, p.pos, p.wbuf \o e)
          /\ Place(q) = p.pos + Len(p.wbuf) + Len(e)
      <4>1. p.wbuf \in Seq(Bytes) /\ q = Put(p, p.wbuf, e, "neither")
        BY <1>1, <3>2, <3>3
      <4>2. p.pos + Len(p.wbuf) + Len(e) <= MaxLen /\ Len(e) <= WriteSize
        BY <3>1, <3>3
      <4> QED
        BY <4>1, <4>2, PutSafe
    <3> QED
      BY <1>2, <3>3, <3>4
  <2>2. r.ok = TRUE /\ r.port = q
    BY <1>4 DEF Good
  <2> HIDE DEF q
  <2>3. q.back = <<>>
    BY <2>1 DEF WriteReady
  <2>4. Place(q) = Place(p)
    BY <1>1, <1>2, <2>1
  <2> QED
    BY <1>1, <1>2, <2>1, <2>2, <2>3, <2>4 DEF Same
<1>5. CASE \E k \in 0..(Len(p.wbuf) - 1) :
             r = Bad([PutBytes(p, First(p.wbuf, k)) EXCEPT !.wbuf = Rest(p.wbuf, k)])
  <2>1. PICK k \in 0..(Len(p.wbuf) - 1) :
              r = Bad([PutBytes(p, First(p.wbuf, k)) EXCEPT !.wbuf = Rest(p.wbuf, k)])
    BY <1>5
  <2> DEFINE a == First(p.wbuf, k)
             b == Rest(p.wbuf, k)
             o == [PutBytes(p, a) EXCEPT !.wbuf = b]
             q == [PutBytes(p, a) EXCEPT !.wbuf = b, !.active = p.active]
  <2>2. /\ a \in Seq(Bytes) /\ b \in Seq(Bytes) /\ Len(a) = k /\ Len(b) = Len(p.wbuf) - k
        /\ a \o b = p.wbuf /\ k \in 0..Len(p.wbuf) /\ p.wbuf # <<>>
    <3>1. k \in 0..Len(p.wbuf) /\ Len(p.wbuf) # 0
      BY <1>1
    <3> QED
      BY <1>1, <3>1, Cut, EmptySeq
  <2> HIDE DEF a, b
  <2>3. o = q
    BY <1>1 DEF PutBytes, PortType
  <2>4. /\ WriteReady(q) /\ q.wbuf = b /\ q.active = p.active
        /\ Seen(q) = Overlay(p.file, p.pos, a \o b)
        /\ Place(q) = p.pos + Len(a) + Len(b)
    <3>1. p.pos + Len(a) + Len(b) <= MaxLen /\ Len(b) <= WriteSize
      <4>1. Len(a) + Len(b) = Len(p.wbuf) /\ Len(b) <= Len(p.wbuf) /\ Len(b) \in Nat
        BY <1>1, <2>2
      <4>2. p.pos + Len(a) + Len(b) = p.pos + Len(p.wbuf)
        <5>1. p.pos \in Nat /\ Len(a) \in Nat /\ Len(b) \in Nat
          BY <1>1, <2>2, <4>1
        <5> HIDE DEF q
        <5> QED
          BY <4>1, <5>1
      <4> QED
        BY <1>1, <4>1, <4>2, Bounds
    <3>2. q = Put(p, a, b, p.active)
      BY DEF Put
    <3> HIDE DEF q
    <3>3. a \in Seq(Bytes) /\ b \in Seq(Bytes) /\ p.active \in {"neither", "read", "write"}
      BY <1>1, <2>2
    <3> QED
      BY <3>1, <3>2, <3>3, PutSafe
  <2>5. r.ok = FALSE /\ r.port = q
    BY <2>1, <2>3 DEF Bad, a, b
  <2> HIDE DEF q
  <2>6. q.back = <<>>
    BY <2>4 DEF WriteReady
  <2>7. Place(q) = Place(p)
    <3>1. Len(a) + Len(b) = Len(p.wbuf) /\ Len(a) \in Nat /\ Len(b) \in Nat
      BY <1>1, <2>2
    <3>2. p.pos + Len(a) + Len(b) = p.pos + Len(p.wbuf)
      BY <1>1, <3>1
    <3> QED
      BY <1>2, <2>4, <3>2
  <2> QED
    BY <1>1, <1>2, <2>2, <2>4, <2>5, <2>6, <2>7 DEF Same
<1>6. p.handle = TRUE
  BY <1>1 DEF PortType
<1> QED
  BY <1>3, <1>4, <1>5, <1>6 DEF VportFlush, OfHandle

\* Writing without the buffer
LEMMA WriteAllSafe ==
    ASSUME NEW p, WriteReady(p), p.wbuf = <<>>, NEW s \in Seq(Bytes),
           p.pos + Len(s) <= MaxLen, NEW r \in WriteAll(p, s)
    PROVE  /\ r.ok \in BOOLEAN /\ WriteReady(r.port)
           /\ r.port.wbuf = <<>> /\ r.port.active = p.active
           /\ \E k \in 0..Len(s) : Wrote(r.port, p, s, k) /\ (r.ok => k = Len(s))
<1>1. /\ p \in PortType /\ p.pos \in Nat /\ Len(s) \in Nat
      /\ p.active \in {"neither", "read", "write"}
      /\ Seen(p) = p.file /\ Place(p) = p.pos
      /\ <<>> \in Seq(Bytes) /\ Len(<<>>) = 0
  BY Fields, SeenType, EmptySeq, LenProperties DEF WriteReady, PortType
<1>2. PICK k \in 0..Len(s) :
          /\ r.port = PutBytes(p, First(s, k))
          /\ (r.ok = TRUE /\ k = Len(s)) \/ r.ok = FALSE
  <2>1. CASE r = Good(PutBytes(p, s))
    <3>1. Len(s) \in 0..Len(s)
      BY <1>1
    <3>2. Rest(s, Len(s)) \in Seq(Bytes) /\ Len(Rest(s, Len(s))) = Len(s) - Len(s)
          /\ First(s, Len(s)) \in Seq(Bytes) /\ First(s, Len(s)) \o Rest(s, Len(s)) = s
      BY <3>1, Cut
    <3>3. Rest(s, Len(s)) = <<>>
      BY <1>1, <3>2, EmptySeq
    <3>4. First(s, Len(s)) = s
      BY <3>2, <3>3, ConcatEmptySeq
    <3>5. r.port = PutBytes(p, First(s, Len(s))) /\ r.ok = TRUE
      BY <2>1, <3>4 DEF Good
    <3> QED
      BY <3>1, <3>5
  <2>2. CASE \E k \in 0..(Len(s) - 1) : r = Bad(PutBytes(p, First(s, k)))
    <3>1. PICK k \in 0..(Len(s) - 1) : r = Bad(PutBytes(p, First(s, k)))
      BY <2>2
    <3>2. k \in 0..Len(s) /\ r.port = PutBytes(p, First(s, k)) /\ r.ok = FALSE
      BY <1>1, <3>1 DEF Bad
    <3> QED
      BY <3>2
  <2>3. p.handle = TRUE
    BY <1>1 DEF PortType
  <2> QED
    BY <2>1, <2>2, <2>3 DEF WriteAll, OfHandle
<1> DEFINE a == First(s, k)
           q == [PutBytes(p, a) EXCEPT !.wbuf = <<>>, !.active = p.active]
<1>3. a \in Seq(Bytes) /\ Len(a) = k /\ a \o <<>> = a
  BY Cut, ConcatEmptySeq
<1>4. PutBytes(p, a) = q
  BY <1>1 DEF PutBytes, PortType
<1> HIDE DEF a
<1>5. /\ WriteReady(q) /\ q.wbuf = <<>> /\ q.active = p.active
      /\ Seen(q) = Overlay(p.file, p.pos, a \o <<>>)
      /\ Place(q) = p.pos + Len(a) + 0
  <2>1. p.pos + Len(a) + Len(<<>>) <= MaxLen /\ Len(<<>>) <= WriteSize
    BY <1>1, <1>3, Bounds
  <2>2. q = Put(p, a, <<>>, p.active)
    BY DEF Put
  <2> HIDE DEF q
  <2>3. PICK e \in Seq(Bytes) : e = <<>>
    BY <1>1
  <2>4. /\ WriteReady(q) /\ q.wbuf = e /\ q.active = p.active
        /\ Seen(q) = Overlay(p.file, p.pos, a \o e)
        /\ Place(q) = p.pos + Len(a) + Len(e)
    <3>1. a \in Seq(Bytes) /\ q = Put(p, a, e, p.active)
      BY <1>3, <2>2, <2>3
    <3>2. p.pos + Len(a) + Len(e) <= MaxLen /\ Len(e) <= WriteSize
      BY <2>1, <2>3
    <3>3. p.active \in {"neither", "read", "write"}
      BY <1>1
    <3> QED
      BY <3>1, <3>2, <3>3, PutSafe
  <2> QED
    BY <1>1, <2>3, <2>4
<1>6. r.port = q
  BY <1>2, <1>4 DEF a
<1> HIDE DEF q
<1>7. Place(q) = Place(p) + k
  BY <1>1, <1>3, <1>5
<1>8. Wrote(r.port, p, s, k)
  BY <1>1, <1>3, <1>5, <1>6, <1>7 DEF Wrote, a
<1> QED
  BY <1>2, <1>5, <1>6, <1>8

\* Some bytes of s, and then some of the rest
LEMMA WroteMore ==
    ASSUME NEW p, WriteReady(p), NEW q, NEW t, NEW s \in Seq(Bytes),
           NEW i, NEW j, Wrote(q, p, s, i), Wrote(t, q, Rest(s, i), j)
    PROVE  /\ i + j \in 0..Len(s) /\ Wrote(t, p, s, i + j)
           /\ j = Len(Rest(s, i)) => i + j = Len(s)
<1>1. Seen(p) \in Seq(Bytes) /\ Place(p) \in Nat /\ Len(s) \in Nat /\ i \in 0..Len(s)
  BY SeenType, LenProperties DEF Wrote
<1> DEFINE a == First(s, i)
           c == Rest(s, i)
           b == First(c, j)
<1>2. a \in Seq(Bytes) /\ Len(a) = i /\ c \in Seq(Bytes) /\ Len(c) = Len(s) - i
  BY <1>1, Cut
<1>3. j \in 0..(Len(s) - i) /\ j \in 0..Len(c)
  BY <1>2 DEF Wrote
<1>4. a \o b = First(s, i + j)
  BY <1>1, <1>3, Pieces
<1> HIDE DEF a, c
<1>5. b \in Seq(Bytes)
  BY <1>2, <1>3, Cut
<1> HIDE DEF b
<1>6. /\ Seen(q) = Overlay(Seen(p), Place(p), a) /\ Place(q) = Place(p) + i
      /\ Seen(t) = Overlay(Seen(q), Place(q), b) /\ Place(t) = Place(q) + j
  BY DEF Wrote, a, b, c
<1>7. Seen(t) = Overlay(Seen(p), Place(p), a \o b)
  <2>1. Overlay(Overlay(Seen(p), Place(p), a), Place(p) + Len(a), b)
          = Overlay(Seen(p), Place(p), a \o b)
    <3>1. Seen(p) \in Seq(Bytes) /\ Place(p) \in Nat /\ a \in Seq(Bytes)
      BY <1>1, <1>2
    <3> QED
      BY <1>5, <3>1, OverlayTwice
  <2> QED
    BY <1>2, <1>6, <2>1
<1>8. Place(t) = Place(p) + (i + j) /\ i + j \in 0..Len(s)
  BY <1>1, <1>3, <1>6
<1>9. j = Len(c) => i + j = Len(s)
  BY <1>1, <1>2
<1> QED
  BY <1>4, <1>7, <1>8, <1>9 DEF Wrote, c

\* All of a sequence
LEMMA WholeSeq ==
    ASSUME NEW s \in Seq(Bytes)
    PROVE  Len(s) \in 0..Len(s) /\ First(s, Len(s)) = s
<1>1. Len(s) \in Nat /\ Len(s) \in 0..Len(s)
  BY LenProperties
<1> DEFINE a == First(s, Len(s))
<1>2. a \in Seq(Bytes) /\ Len(a) = Len(s) /\ \A j \in 1..Len(s) : a[j] = s[j]
  BY <1>1, Cut
<1> HIDE DEF a
<1>3. a = s
  BY <1>2, SeqEqual
<1> QED
  BY <1>1, <1>3 DEF a

\* A port whose read buffer and put-back buffer are empty
LEMMA Ready ==
    ASSUME NEW p
    PROVE  /\ WriteReady(p) /\ (p.wbuf = <<>> \/ p.active = "write") => PortInv(p)
           /\ PortInv(p) /\ p.active # "read" =>
                WriteReady(p) /\ (p.wbuf = <<>> \/ p.active = "write")
<1>1. ASSUME WriteReady(p), p.wbuf = <<>> \/ p.active = "write" PROVE PortInv(p)
  <2>1. p \in PortType /\ p.rbuf = <<>> /\ p.back = <<>> /\ Bounded(p)
    BY <1>1 DEF WriteReady
  <2>2. Len(p.rbuf) = 0 /\ Len(p.back) = 0 /\ p.pos \in Nat
    BY <2>1, EmptySeq, Fields
  <2>3. Buffered(p)
    BY <2>1, <2>2, Bounds DEF Buffered
  <2>4. Directed(p)
    BY <1>1, <2>1 DEF Directed
  <2> QED
    BY <2>1, <2>3, <2>4 DEF PortInv
<1>2. ASSUME PortInv(p), p.active # "read"
      PROVE  WriteReady(p) /\ (p.wbuf = <<>> \/ p.active = "write")
  BY <1>2 DEF PortInv, Directed, WriteReady
<1> QED
  BY <1>1, <1>2

\* p with another write buffer
Buffering(p, w) == [p EXCEPT !.wbuf = w]

\* What fits goes to the write buffer.
LEMMA BufferSafe ==
    ASSUME NEW p, WriteReady(p), NEW s \in Seq(Bytes), NEW i \in 0..Len(s),
           Len(p.wbuf) + i <= WriteSize, p.pos + Len(p.wbuf) + i <= MaxLen,
           NEW q, q = Buffering(p, p.wbuf \o First(s, i))
    PROVE  /\ WriteReady(q) /\ Wrote(q, p, s, i)
           /\ q.active = p.active /\ Len(q.wbuf) = Len(p.wbuf) + i
<1> DEFINE a == First(s, i)
           w == p.wbuf \o a
<1>1. /\ p \in PortType /\ p.rbuf = <<>> /\ p.back = <<>> /\ Len(p.file) <= MaxLen
      /\ p.file \in Seq(Bytes) /\ p.wbuf \in Seq(Bytes) /\ p.pos \in Nat
      /\ Len(p.wbuf) \in Nat /\ Len(s) \in Nat /\ i \in Nat /\ Len(p.rbuf) = 0
  BY Fields, LenProperties, EmptySeq DEF WriteReady, Bounded
<1>2. a \in Seq(Bytes) /\ Len(a) = i
  BY Cut
<1> HIDE DEF a
<1>3. w \in Seq(Bytes) /\ Len(w) = Len(p.wbuf) + i
  BY <1>1, <1>2, Concat
<1>4. Overlay(Overlay(p.file, p.pos, p.wbuf), p.pos + Len(p.wbuf), a) = Overlay(p.file, p.pos, w)
  <2>1. p.file \in Seq(Bytes) /\ p.pos \in Nat /\ p.wbuf \in Seq(Bytes) /\ a \in Seq(Bytes)
    BY <1>1, <1>2
  <2> QED
    BY <2>1, OverlayTwice
<1>5. q = [p EXCEPT !.wbuf = w]
  BY DEF a, Buffering
<1> HIDE DEF w
<1>6. /\ q \in PortType /\ q.file = p.file /\ q.pos = p.pos /\ q.rbuf = <<>> /\ q.back = <<>>
      /\ q.wbuf = w /\ q.active = p.active
  BY <1>1, <1>3, <1>5 DEF PortType
<1>7. WriteReady(q)
  <2>1. Len(q.wbuf) = Len(p.wbuf) + i /\ q.pos + Len(q.wbuf) = p.pos + Len(p.wbuf) + i
    <3>1. q.pos = p.pos /\ Len(q.wbuf) = Len(p.wbuf) + i
      BY <1>3, <1>6
    <3> QED
      BY <1>1, <3>1
  <2> QED
    BY <1>1, <1>6, <2>1 DEF WriteReady, Bounded
<1>8. Place(p) = p.pos + Len(p.wbuf) /\ Place(q) = p.pos + Len(w)
  BY <1>6, <1>7, SeenType
<1>9. Place(q) = Place(p) + i
  BY <1>1, <1>3, <1>8
<1>10. Seen(q) = Overlay(Seen(p), Place(p), a)
  BY <1>4, <1>6, <1>8 DEF Seen
<1> QED
  BY <1>3, <1>6, <1>7, <1>9, <1>10 DEF Wrote, a

\* vport_write: what the program sees is as if the bytes had gone to the
\* file at once, or as many of them as were written or buffered before an
\* error.
LEMMA VportWriteSafe ==
    ASSUME NEW p, PortInv(p), p.active # "read", NEW s \in Seq(Bytes),
           p.pos + Len(p.wbuf) + Len(s) <= MaxLen, NEW r \in VportWrite(p, s)
    PROVE  /\ r.ok \in BOOLEAN /\ WriteReady(r.port)
           /\ ~r.ok => r.port.wbuf = <<>> \/ r.port.active = "write"
           /\ \E k \in 0..Len(s) : Wrote(r.port, p, s, k) /\ (r.ok => k = Len(s))
<1>1. /\ WriteReady(p) /\ (p.wbuf = <<>> \/ p.active = "write")
      /\ p \in PortType /\ p.pos \in Nat /\ Len(p.wbuf) \in Nat /\ Len(s) \in Nat
      /\ WriteSize \in Nat /\ WriteSize > 0 /\ MaxLen \in Nat
      /\ Len(p.wbuf) <= WriteSize /\ (p.wbuf = <<>> => Len(p.wbuf) = 0)
      /\ p.active \in {"neither", "read", "write"}
  BY Ready, Fields, Bounds, LenProperties, EmptySeq DEF WriteReady, Bounded, PortType
<1>2. CASE p.wbuf = <<>> /\ Len(s) >= WriteSize
  <2>1. r \in WriteAll(p, s)
    BY <1>2 DEF VportWrite
  <2>2. p.pos + Len(s) <= MaxLen
    BY <1>1, <1>2
  <2> QED
    BY <1>1, <1>2, <2>1, <2>2, WriteAllSafe
<1>3. CASE ~(p.wbuf = <<>> /\ Len(s) >= WriteSize)
  <2> DEFINE fits == Smaller(Len(s), Space(p))
             q == [p EXCEPT !.wbuf = p.wbuf \o First(s, fits)]
             rest == Rest(s, fits)
             Remainder(u) == IF Len(s) >= WriteSize /\ rest # <<>> THEN WriteAll(u, rest)
                             ELSE {Good([u EXCEPT !.wbuf = rest])}
  <2>1. r \in IF Len(q.wbuf) = WriteSize
              THEN UNION {IF t.ok THEN Remainder(t.port) ELSE {t} : t \in VportFlush(q)}
              ELSE {Good(q)}
    BY <1>3 DEF VportWrite, Then
  <2>2. /\ fits \in 0..Len(s) /\ Len(p.wbuf) + fits <= WriteSize
        /\ p.pos + Len(p.wbuf) + fits <= MaxLen
        /\ fits = Len(s) \/ Len(p.wbuf) + fits = WriteSize
        /\ p.wbuf = <<>> => Len(p.wbuf) + fits # WriteSize
    <3>1. fits = IF Len(s) > WriteSize - Len(p.wbuf) THEN WriteSize - Len(p.wbuf) ELSE Len(s)
      BY <1>1 DEF Smaller, Space
    <3> HIDE DEF fits
    <3> DEFINE l == Len(s)
               w == Len(p.wbuf)
    <3>2. /\ l \in Nat /\ w \in Nat /\ w <= WriteSize /\ WriteSize \in Nat /\ p.pos \in Nat
          /\ p.pos + w + l <= MaxLen /\ MaxLen \in Nat
      BY <1>1
    <3>3. p.wbuf = <<>> => w = 0 /\ l < WriteSize
      BY <1>1, <1>3
    <3> HIDE DEF l, w
    <3>4. fits = IF l > WriteSize - w THEN WriteSize - w ELSE l
      BY <3>1 DEF l, w
    <3>5. /\ fits \in 0..l /\ w + fits <= WriteSize /\ p.pos + w + fits <= MaxLen
          /\ fits = l \/ w + fits = WriteSize
      BY <3>2, <3>4
    <3>6. p.wbuf = <<>> => w + fits # WriteSize
      BY <3>2, <3>3, <3>4
    <3> QED
      BY <3>5, <3>6 DEF l, w
  <2>3. rest \in Seq(Bytes) /\ Len(rest) = Len(s) - fits
    BY <2>2, Cut
  <2> HIDE DEF fits
  <2>4. /\ WriteReady(q) /\ Wrote(q, p, s, fits)
        /\ q.active = p.active /\ Len(q.wbuf) = Len(p.wbuf) + fits
    <3>1. q = Buffering(p, p.wbuf \o First(s, fits))
      BY DEF Buffering
    <3>2. /\ WriteReady(p) /\ fits \in 0..Len(s) /\ Len(p.wbuf) + fits <= WriteSize
          /\ p.pos + Len(p.wbuf) + fits <= MaxLen
      BY <1>1, <2>2
    <3> HIDE DEF q, rest
    <3> QED
      BY <3>1, <3>2, BufferSafe
  <2> HIDE DEF q, rest
  <2>5. CASE Len(q.wbuf) # WriteSize
    <3>1. r = Good(q) /\ fits = Len(s)
      BY <2>1, <2>2, <2>4, <2>5
    <3>2. r.ok = TRUE /\ r.port = q
      BY <3>1 DEF Good
    <3> QED
      BY <2>2, <2>4, <3>1, <3>2
  <2>6. CASE Len(q.wbuf) = WriteSize
    <3>1. PICK t \in VportFlush(q) : r \in IF t.ok THEN Remainder(t.port) ELSE {t}
      BY <2>1, <2>6
    <3>2. /\ t.ok \in BOOLEAN /\ WriteReady(t.port) /\ Same(t.port, q)
          /\ t.ok => t.port.wbuf = <<>> /\ t.port.active = "neither"
          /\ ~t.ok => t.port.active = q.active
      BY <2>4, FlushSafe
    <3>3. Wrote(t.port, p, s, fits)
      BY <2>4, <3>2 DEF Wrote, Same
    <3>4. CASE ~t.ok
      <4>1. r = t /\ p.active = "write"
        BY <1>1, <2>2, <2>4, <2>6, <3>1, <3>4
      <4> QED
        BY <2>2, <2>4, <3>2, <3>3, <3>4, <4>1
    <3>5. CASE t.ok
      <4> DEFINE u == t.port
      <4>1. r \in Remainder(u) /\ WriteReady(u) /\ u.wbuf = <<>>
        BY <3>1, <3>2, <3>5
      <4>2. /\ u.pos \in Nat /\ u.pos = Place(u) /\ Seen(u) = u.file /\ u.pos + Len(rest) <= MaxLen
            /\ u.file \in Seq(Bytes)
        <5>1. u.pos = Place(u) /\ Place(u) \in Nat /\ Seen(u) = u.file /\ u.file \in Seq(Bytes)
          BY <4>1, SeenType, Fields DEF WriteReady
        <5>2. Place(u) = p.pos + Len(p.wbuf) + fits
          BY <1>1, <3>3, SeenType DEF Wrote
        <5> QED
          BY <1>1, <2>2, <2>3, <5>1, <5>2
      <4> HIDE DEF u
      <4>3. CASE Len(s) >= WriteSize /\ rest # <<>>
        <5>1. r \in WriteAll(u, rest)
          BY <4>1, <4>3
        <5>2. /\ r.ok \in BOOLEAN /\ WriteReady(r.port) /\ r.port.wbuf = <<>>
              /\ \E k \in 0..Len(rest) : Wrote(r.port, u, rest, k) /\ (r.ok => k = Len(rest))
          BY <2>3, <4>1, <4>2, <5>1, WriteAllSafe
        <5>3. PICK k \in 0..Len(rest) : Wrote(r.port, u, rest, k) /\ (r.ok => k = Len(rest))
          BY <5>2
        <5>4. /\ fits + k \in 0..Len(s) /\ Wrote(r.port, p, s, fits + k)
              /\ k = Len(rest) => fits + k = Len(s)
          BY <1>1, <3>3, <5>3, WroteMore DEF rest, u
        <5> QED
          BY <5>2, <5>3, <5>4
      <4>4. CASE ~(Len(s) >= WriteSize /\ rest # <<>>)
        <5> DEFINE v == [u EXCEPT !.wbuf = rest]
        <5>1. r.ok = TRUE /\ r.port = v
          BY <4>1, <4>4 DEF Good
        <5>2. Len(rest) <= WriteSize /\ Len(rest) \in Nat
          BY <1>1, <2>2, <2>3, <4>4, EmptySeq
        <5>3. u \in PortType /\ u.rbuf = <<>> /\ u.back = <<>> /\ Len(u.file) <= MaxLen
          BY <4>1 DEF WriteReady, Bounded
        <5>4. /\ v \in PortType /\ v.file = u.file /\ v.pos = u.pos /\ v.wbuf = rest
              /\ v.rbuf = <<>> /\ v.back = <<>>
          BY <2>3, <5>3 DEF PortType
        <5> HIDE DEF v
        <5>5. WriteReady(v)
          BY <4>2, <5>2, <5>3, <5>4 DEF WriteReady, Bounded
        <5>6. Place(v) = Place(u) + Len(rest)
          BY <4>2, <5>4, <5>5, SeenType
        <5>7. Seen(v) = Overlay(Seen(u), Place(u), First(rest, Len(rest))) /\ Len(rest) \in 0..Len(rest)
          BY <2>3, <4>2, <5>4, WholeSeq DEF Seen
        <5>8. Wrote(v, u, rest, Len(rest))
          BY <5>6, <5>7 DEF Wrote
        <5>9. /\ fits + Len(rest) \in 0..Len(s) /\ Wrote(v, p, s, fits + Len(rest))
              /\ fits + Len(rest) = Len(s)
          BY <1>1, <3>3, <5>8, WroteMore DEF rest, u
        <5> QED
          BY <5>1, <5>5, <5>9
      <4> QED
        BY <4>3, <4>4
    <3> QED
      BY <3>2, <3>4, <3>5
  <2> QED
    BY <2>5, <2>6
<1> QED
  BY <1>2, <1>3

-----------------------------------------------------------------------------
(* Changing direction *)

\* For the program, q is as p was but for bytes given back or read ahead,
\* which are skipped.
Skipped(q, p) ==
    /\ Seen(q) = Seen(p) /\ q.back = <<>>
    /\ \E k \in 0..ReadSize : Place(q) = Place(p) + k

\* Port r has nothing pending and stands where the program is in p, or the
\* call failed and skipped no more than what had been read ahead.
Settled(r, p) ==
    /\ r.ok \in BOOLEAN
    /\ ~r.ok => PortInv(r.port) /\ (Same(r.port, p) \/ Skipped(r.port, p))
    /\ r.ok => /\ WriteReady(r.port) /\ r.port.wbuf = <<>> /\ r.port.active = "neither"
               /\ Seen(r.port) = Seen(p) /\ Place(r.port) = Place(p) - Len(p.back)

\* What the program sees of a port that is not written to
LEMMA SeenReading ==
    ASSUME NEW p, PortInv(p), p.wbuf = <<>>
    PROVE  /\ Seen(p) = p.file /\ Place(p) = p.pos - Len(p.rbuf)
           /\ Place(p) \in Nat /\ Place(p) <= MaxLen
<1>1. /\ p \in PortType /\ Len(p.rbuf) <= p.pos /\ Len(p.wbuf) = 0
      /\ p.pos + Len(p.wbuf) <= MaxLen
      /\ p.pos \in Nat /\ Len(p.rbuf) \in Nat
  BY Fields, EmptySeq DEF PortInv, Buffered, Bounded
<1> DEFINE n == p.pos
           l == Len(p.rbuf)
           w == Len(p.wbuf)
<1>2. n \in Nat /\ l \in Nat /\ l <= n /\ w = 0 /\ n + w <= MaxLen /\ MaxLen \in Nat
  BY <1>1, Bounds
<1>3. Place(p) = n + w - l
  BY DEF Place
<1> HIDE DEF n, l, w
<1>4. n + w - l = n - l /\ n - l \in Nat /\ n - l <= MaxLen
  BY <1>2
<1>5. Seen(p) = p.file
  BY DEF Seen, Overlay
<1> QED
  BY <1>3, <1>4, <1>5 DEF n, l

\* The position that the program sees is in the file's bounds.
LEMMA PlaceType ==
    ASSUME NEW p, PortInv(p)
    PROVE  Place(p) \in Nat /\ Place(p) <= MaxLen
<1>1. CASE p.wbuf = <<>>
  BY <1>1, SeenReading
<1>2. CASE p.wbuf # <<>>
  <2>1. WriteReady(p) /\ p.back = <<>>
    BY <1>2, Ready DEF PortInv, Directed, WriteReady
  <2> QED
    BY <2>1, SeenType
<1> QED
  BY <1>1, <1>2

\* scm_end_input and vport_end_input
LEMMA EndInputSafe ==
    ASSUME NEW p, PortInv(p), p.active = "read", NEW r \in EndInput(p)
    PROVE  Settled(r, p)
<1>1. /\ p \in PortType /\ p.wbuf = <<>> /\ p.handle = TRUE
      /\ Len(p.rbuf) <= ReadSize /\ p.pos <= MaxLen /\ Len(p.file) <= MaxLen
      /\ p.pos \in Nat /\ Len(p.back) \in Nat /\ Len(p.rbuf) \in Nat
      /\ <<>> \in Seq(Bytes) /\ Len(<<>>) = 0
  <2>1. p \in PortType /\ p.wbuf = <<>> /\ Bounded(p) /\ Buffered(p)
    BY DEF PortInv, Directed
  <2>2. Len(p.wbuf) = 0 /\ Len(<<>>) = 0 /\ <<>> \in Seq(Bytes)
    BY <2>1, EmptySeq
  <2>3. p.pos + Len(p.wbuf) <= MaxLen /\ p.pos \in Nat /\ Len(p.file) <= MaxLen
    BY <2>1, Fields DEF Bounded
  <2>4. Len(p.back) \in Nat /\ Len(p.rbuf) \in Nat /\ Len(p.rbuf) <= ReadSize
    BY <2>1, Fields DEF Buffered
  <2>5. p.pos <= MaxLen
    <3>1. p.pos + 0 = p.pos
      BY <2>3
    <3> QED
      BY <2>2, <2>3, <3>1
  <2>6. p.handle = TRUE
    BY <2>1 DEF PortType
  <2> QED
    BY <2>1, <2>2, <2>3, <2>4, <2>5, <2>6
<1>2. Seen(p) = p.file /\ Place(p) = p.pos - Len(p.rbuf)
  BY <1>1, SeenReading
<1> DEFINE unread == Len(p.back) + Len(p.rbuf)
           o == [p EXCEPT !.back = <<>>, !.rbuf = <<>>]
           q(n) == [o EXCEPT !.pos = n, !.active = "neither"]
<1>3. \/ unread = 0 /\ r = Good(q(p.pos))
      \/ r = Bad(o)
      \/ p.pos - unread \in Nat /\ r = Good(q(p.pos - unread))
  <2>1. o.handle = TRUE
    BY <1>1 DEF PortType
  <2>2. r \in IF unread = 0 THEN {Good(q(p.pos))}
              ELSE IF o.handle THEN {Bad(o)} \cup {Good(q(n)) : n \in {p.pos - unread} \cap Nat}
                   ELSE {Bad(o)}
    BY DEF EndInput, OfHandle
  <2> HIDE DEF o, q, unread
  <2> QED
    BY <2>1, <2>2
<1>4. ASSUME NEW n \in Nat, n = p.pos - unread, r = Good(q(n)) PROVE Settled(r, p)
  <2> DEFINE u == q(n)
  <2>1. r.ok = TRUE /\ r.port = u
    BY <1>4 DEF Good
  <2>2. /\ u \in PortType /\ u.back = <<>> /\ u.rbuf = <<>> /\ u.pos = n /\ u.active = "neither"
        /\ u.file = p.file /\ u.wbuf = <<>>
    BY <1>1 DEF PortType
  <2> HIDE DEF u
  <2>3. n <= MaxLen /\ n = p.pos - Len(p.rbuf) - Len(p.back)
    <3> DEFINE m == p.pos
               b == Len(p.back)
               l == Len(p.rbuf)
    <3>1. m \in Nat /\ b \in Nat /\ l \in Nat /\ m <= MaxLen /\ n = m - (b + l) /\ MaxLen \in Nat
      BY <1>1, <1>4, Bounds
    <3> HIDE DEF m, b, l
    <3>2. n <= MaxLen /\ n = m - l - b
      BY <3>1
    <3> QED
      BY <3>2 DEF m, b, l
  <2>4. WriteReady(u)
    <3>1. Len(u.wbuf) = 0 /\ u.pos + Len(u.wbuf) <= MaxLen
      BY <1>1, <2>2, <2>3
    <3> QED
      BY <1>1, <2>2, <3>1, Bounds DEF WriteReady, Bounded
  <2>5. Seen(u) = u.file /\ Place(u) = u.pos
    BY <2>2, <2>4, SeenType
  <2> QED
    BY <1>2, <2>1, <2>2, <2>3, <2>4, <2>5 DEF Settled
<1>5. CASE r = Bad(o)
  <2>1. r.ok = FALSE /\ r.port = o
    BY <1>5 DEF Bad
  <2>2. /\ o \in PortType /\ o.back = <<>> /\ o.rbuf = <<>> /\ o.pos = p.pos /\ o.active = "read"
        /\ o.file = p.file /\ o.wbuf = <<>>
    BY <1>1 DEF PortType
  <2> HIDE DEF o
  <2>3. WriteReady(o)
    <3>1. Len(o.wbuf) = 0 /\ o.pos + Len(o.wbuf) <= MaxLen
      BY <1>1, <2>2
    <3> QED
      BY <1>1, <2>2, <3>1, Bounds DEF WriteReady, Bounded
  <2>4. PortInv(o) /\ Seen(o) = o.file /\ Place(o) = o.pos
    BY <2>2, <2>3, Ready, SeenType
  <2>5. Len(p.rbuf) \in 0..ReadSize /\ Place(o) = Place(p) + Len(p.rbuf)
    <3> DEFINE l == Len(p.rbuf)
               m == p.pos
    <3>1. l \in Nat /\ m \in Nat /\ l <= ReadSize /\ ReadSize \in Nat
      BY <1>1, Bounds
    <3> HIDE DEF l, m
    <3>2. l \in 0..ReadSize /\ m = m - l + l
      BY <3>1
    <3> QED
      BY <1>2, <2>2, <2>4, <3>2 DEF l, m
  <2> QED
    BY <1>2, <2>1, <2>2, <2>4, <2>5 DEF Settled, Skipped
<1>6. CASE unread = 0 /\ r = Good(q(p.pos))
  <2> DEFINE m == p.pos
             l == unread
  <2>1. m \in Nat /\ l = 0
    BY <1>1, <1>6
  <2> HIDE DEF m, l
  <2>2. m = m - l
    BY <2>1
  <2> HIDE DEF q
  <2> QED
    BY <1>1, <1>4, <1>6, <2>2 DEF m, l
<1> HIDE DEF unread, o, q
<1> QED
  BY <1>3, <1>4, <1>5, <1>6

\* A flush of a port that is not read from
LEMMA FlushSettles ==
    ASSUME NEW p, PortInv(p), p.active # "read", NEW r \in VportFlush(p)
    PROVE  Settled(r, p)
<1>1. WriteReady(p) /\ (p.wbuf = <<>> \/ p.active = "write")
  BY Ready
<1>2. /\ r.ok \in BOOLEAN /\ WriteReady(r.port) /\ Same(r.port, p)
      /\ r.ok => r.port.wbuf = <<>> /\ r.port.active = "neither"
      /\ ~r.ok => r.port.active = p.active /\ p.wbuf # <<>>
  BY <1>1, FlushSafe
<1>3. p.back = <<>> /\ Len(p.back) = 0 /\ Place(p) \in Nat
  BY <1>1, EmptySeq, SeenType DEF WriteReady
<1>4. ~r.ok => PortInv(r.port)
  BY <1>1, <1>2, Ready
<1>5. Place(p) - Len(p.back) = Place(p)
  BY <1>3
<1> QED
  BY <1>2, <1>4, <1>5 DEF Settled, Same

\* A port on which nothing is pending
LEMMA IdleSettles ==
    ASSUME NEW p, PortInv(p), p.active = "neither"
    PROVE  Settled(Good(p), p)
<1>1. WriteReady(p) /\ p.wbuf = <<>>
  BY Ready
<1>2. p.back = <<>> /\ Len(p.back) = 0 /\ Place(p) \in Nat
  BY <1>1, EmptySeq, SeenType DEF WriteReady
<1>3. Place(p) - Len(p.back) = Place(p)
  BY <1>2
<1> QED
  BY <1>1, <1>3 DEF Settled, Good

\* vport_seek, before it moves the handle
LEMMA BeforeSeekSettles ==
    ASSUME NEW p, PortInv(p), NEW r \in BeforeSeek(p)
    PROVE  Settled(r, p)
<1>1. p.active \in {"neither", "read", "write"}
  BY DEF PortInv, PortType
<1>2. CASE p.active = "neither"
  BY <1>2, IdleSettles DEF BeforeSeek
<1>3. CASE p.active = "read"
  <2>1. r \in EndInput(p)
    BY <1>3 DEF BeforeSeek
  <2> QED
    BY <1>3, <2>1, EndInputSafe
<1>4. CASE p.active = "write"
  <2>1. r \in VportFlush(p)
    BY <1>4 DEF BeforeSeek
  <2> QED
    BY <1>4, <2>1, FlushSettles
<1> QED
  BY <1>1, <1>2, <1>3, <1>4

\* Guile's port layer, before the file is cut
LEMMA DirectionSettles ==
    ASSUME NEW p, PortInv(p), NEW r \in Then(FlushIfWriting(p), EndIfReading)
    PROVE  Settled(r, p)
<1>1. p.active \in {"neither", "read", "write"}
  BY DEF PortInv, PortType
<1>2. PICK t \in FlushIfWriting(p) : r \in IF t.ok THEN EndIfReading(t.port) ELSE {t}
  BY DEF Then
<1>3. CASE p.active # "write"
  <2>1. t = Good(p)
    BY <1>2, <1>3 DEF FlushIfWriting
  <2>2. r \in EndIfReading(p)
    BY <1>2, <2>1 DEF Good
  <2>3. CASE p.active = "neither"
    <3>1. r = Good(p)
      BY <2>2, <2>3 DEF EndIfReading
    <3> QED
      BY <2>3, <3>1, IdleSettles
  <2>4. CASE p.active = "read"
    <3>1. r \in EndInput(p)
      BY <2>2, <2>4 DEF EndIfReading
    <3> QED
      BY <2>4, <3>1, EndInputSafe
  <2> QED
    BY <1>1, <1>3, <2>3, <2>4
<1>4. CASE p.active = "write"
  <2>1. t \in VportFlush(p)
    BY <1>2, <1>4 DEF FlushIfWriting
  <2>2. Settled(t, p)
    BY <1>4, <2>1, FlushSettles
  <2>3. CASE t.ok
    <3>1. t.port.active = "neither"
      BY <2>2, <2>3 DEF Settled
    <3>2. r = Good(t.port)
      BY <1>2, <2>3, <3>1 DEF EndIfReading
    <3>3. r.ok = TRUE /\ r.port = t.port
      BY <3>2 DEF Good
    <3> QED
      BY <2>2, <2>3, <3>3 DEF Settled
  <2>4. CASE ~t.ok
    BY <1>2, <2>2, <2>4
  <2> QED
    BY <2>3, <2>4
<1> QED
  BY <1>3, <1>4

\* A port that the program starts to read from
LEMMA ToReading ==
    ASSUME NEW p, PortInv(p), p.wbuf = <<>>, NEW q, q = [p EXCEPT !.active = "read"]
    PROVE  /\ PortInv(q) /\ q.active = "read" /\ Same(q, p)
           /\ q.file = p.file /\ q.pos = p.pos /\ q.rbuf = p.rbuf /\ q.wbuf = <<>>
<1>1. p \in PortType /\ Buffered(p) /\ Bounded(p)
  BY DEF PortInv
<1>2. /\ q \in PortType /\ q.active = "read" /\ q.file = p.file /\ q.pos = p.pos
      /\ q.rbuf = p.rbuf /\ q.back = p.back /\ q.wbuf = p.wbuf
  BY <1>1 DEF PortType
<1>3. Buffered(q) /\ Bounded(q) /\ Directed(q)
  BY <1>1, <1>2 DEF Buffered, Bounded, Directed
<1> QED
  BY <1>2, <1>3 DEF PortInv, Same, Seen, Place

\* A byte is taken from the read buffer: it is the one of the file at the
\* program's position.
LEMMA TakeByte ==
    ASSUME NEW p, PortInv(p), p.rbuf # <<>>, NEW q, q = [p EXCEPT !.rbuf = Tail(p.rbuf)]
    PROVE  /\ PortInv(q) /\ Seen(q) = Seen(p) /\ q.back = p.back
           /\ Place(p) \in Nat /\ Place(p) < Len(Seen(p)) /\ Place(q) = Place(p) + 1
           /\ Head(p.rbuf) = Seen(p)[Place(p) + 1]
<1>1. /\ p \in PortType /\ Directed(p) /\ Buffered(p) /\ Bounded(p) /\ p.wbuf = <<>>
      /\ p.active = "read" /\ p.rbuf \in Seq(Bytes) /\ p.back \in Seq(Bytes)
      /\ p.pos \in Nat /\ Len(p.rbuf) \in Nat /\ Len(p.back) \in Nat /\ Len(p.file) \in Nat
  BY Fields DEF PortInv, Directed
<1>2. /\ Tail(p.rbuf) \in Seq(Bytes) /\ Len(Tail(p.rbuf)) = Len(p.rbuf) - 1
      /\ \A k \in 1..(Len(p.rbuf) - 1) : Tail(p.rbuf)[k] = p.rbuf[k + 1]
      /\ Head(p.rbuf) = p.rbuf[1] /\ Len(p.rbuf) > 0
  BY <1>1, HeadTailProperties, EmptySeq
<1> DEFINE u == Tail(p.rbuf)
<1>3. /\ q \in PortType /\ q.file = p.file /\ q.pos = p.pos /\ q.rbuf = u /\ q.back = p.back
      /\ q.wbuf = <<>> /\ q.active = "read"
  BY <1>1, <1>2 DEF PortType
<1>4. /\ Len(p.rbuf) <= p.pos /\ Len(p.rbuf) <= ReadSize /\ p.pos <= Len(p.file)
      /\ \A k \in 1..Len(p.rbuf) : p.rbuf[k] = p.file[p.pos - Len(p.rbuf) + k]
  BY <1>1 DEF Buffered
<1> HIDE DEF u
<1> DEFINE n == p.pos
           r == Len(p.rbuf)
           f == Len(p.file)
<1>5. /\ n \in Nat /\ r \in Nat /\ r > 0 /\ r <= n /\ f \in Nat /\ n <= f
      /\ ReadSize \in Nat /\ r <= ReadSize
  BY <1>1, <1>2, <1>4, Bounds
<1> HIDE DEF n, r, f
<1>6. r - 1 <= n /\ r - 1 <= ReadSize /\ n - (r - 1) = n - r + 1 /\ n - r < f
  BY <1>5
<1>7. ASSUME NEW k \in 1..(r - 1)
      PROVE  k + 1 \in 1..r /\ n - r + (k + 1) = n - (r - 1) + k
  BY <1>5
<1>8. Buffered(q)
  <2>1. Len(u) = Len(p.rbuf) - 1
    BY <1>2 DEF u
  <2>2. Len(q.rbuf) <= q.pos /\ Len(q.rbuf) <= ReadSize /\ q.pos <= Len(q.file)
    BY <1>3, <1>4, <1>6, <2>1 DEF n, r
  <2>3. ASSUME NEW k \in 1..Len(u) PROVE u[k] = p.file[p.pos - Len(u) + k]
    <3>1. /\ k \in 1..(Len(p.rbuf) - 1) /\ k + 1 \in 1..Len(p.rbuf)
          /\ p.pos - Len(p.rbuf) + (k + 1) = p.pos - Len(u) + k
      BY <1>7, <2>1 DEF n, r
    <3> QED
      BY <1>2, <1>4, <3>1 DEF u
  <2> QED
    BY <1>3, <2>2, <2>3 DEF Buffered
<1>9. PortInv(q)
  BY <1>1, <1>3, <1>8 DEF PortInv, Directed, Bounded
<1>10. /\ Seen(p) = p.file /\ Place(p) = p.pos - Len(p.rbuf)
       /\ Seen(q) = q.file /\ Place(q) = q.pos - Len(q.rbuf) /\ Place(p) \in Nat
  BY <1>1, <1>3, <1>9, SeenReading
<1>11. Head(p.rbuf) = p.file[p.pos - Len(p.rbuf) + 1]
  <2>1. 1 \in 1..Len(p.rbuf)
    BY <1>1, <1>2
  <2> QED
    BY <1>2, <1>4, <2>1
<1>12. Place(p) < Len(p.file) /\ Place(q) = Place(p) + 1
  <2>1. Place(q) = p.pos - (Len(p.rbuf) - 1)
    BY <1>2, <1>3, <1>10 DEF u
  <2> QED
    BY <1>10, <1>6, <2>1 DEF n, r, f
<1> QED
  BY <1>3, <1>9, <1>10, <1>11, <1>12

\* p with the next k bytes of its file in the read buffer
Filled(p, k) == [p EXCEPT !.pos = @ + k, !.rbuf = SubSeq(p.file, p.pos + 1, p.pos + k)]

\* vport_fill_input reads what the file has at the position.
LEMMA FillSafe ==
    ASSUME NEW p, PortInv(p), p.active = "read", p.back = <<>>, p.rbuf = <<>>,
           NEW k \in 1..Smaller(ReadSize, Len(p.file) - p.pos),
           NEW q, q = Filled(p, k)
    PROVE  /\ PortInv(q) /\ q.rbuf # <<>> /\ Same(q, p)
<1>1. /\ p \in PortType /\ Bounded(p) /\ p.wbuf = <<>> /\ p.file \in Seq(Bytes)
      /\ p.pos \in Nat /\ Len(p.file) \in Nat /\ Len(p.file) <= MaxLen
      /\ Len(p.rbuf) = 0 /\ Len(p.back) = 0 /\ Len(p.wbuf) = 0
      /\ ReadSize \in Nat /\ ReadSize > 0 /\ MaxLen \in Nat
  BY Fields, Bounds, EmptySeq DEF PortInv, Directed, Bounded
<1>2. q = [p EXCEPT !.pos = @ + k, !.rbuf = SubSeq(p.file, p.pos + 1, p.pos + k)]
  BY DEF Filled
<1> DEFINE u == SubSeq(p.file, p.pos + 1, p.pos + k)
<1>3. k \in Nat /\ k > 0 /\ p.pos + k <= Len(p.file) /\ k <= ReadSize
  BY <1>1 DEF Smaller
<1>4. /\ u \in Seq(Bytes) /\ Len(u) = k /\ \A j \in 1..k : u[j] = p.file[p.pos + j]
  <2>1. \A j \in (p.pos + 1)..(p.pos + k) : p.file[j] \in Bytes
    BY <1>1, <1>3, ElementOfSeq
  <2> DEFINE m == p.pos + 1
             n == p.pos + k
  <2>2. m \in Int /\ n \in Int /\ m <= n /\ n - m + 1 = k
    BY <1>1, <1>3
  <2>3. \A j \in m..n : p.file[j] \in Bytes
    BY <2>1
  <2>4. u = SubSeq(p.file, m, n)
    OBVIOUS
  <2> HIDE DEF m, n, u
  <2>5. /\ u \in Seq(Bytes)
        /\ Len(u) = IF m <= n THEN n - m + 1 ELSE 0
        /\ \A j \in 1..(n - m + 1) : u[j] = p.file[m + j - 1]
    BY <2>2, <2>3, <2>4, SubSeqProperties
  <2>6. ASSUME NEW j \in 1..k PROVE u[j] = p.file[p.pos + j]
    <3>1. j \in 1..(n - m + 1)
      BY <2>2
    <3>2. m + j - 1 = p.pos + j
      <4>1. p.pos \in Nat /\ j \in Nat /\ m = p.pos + 1
        BY <1>1, <1>3 DEF m
      <4> QED
        BY <4>1
    <3> QED
      BY <2>5, <3>1, <3>2
  <2> QED
    BY <2>2, <2>5, <2>6
<1> HIDE DEF u
<1>5. /\ q \in PortType /\ q.file = p.file /\ q.pos = p.pos + k /\ q.rbuf = u /\ q.back = <<>>
      /\ q.wbuf = <<>> /\ q.active = "read"
  <2>1. p.pos + k \in Nat
    BY <1>1, <1>3
  <2> QED
    BY <1>1, <1>2, <1>4, <2>1 DEF PortType, u
<1>6. Buffered(q)
  <2>1. Len(q.rbuf) <= q.pos /\ Len(q.rbuf) <= ReadSize /\ q.pos <= Len(q.file)
    BY <1>1, <1>3, <1>4, <1>5
  <2>2. ASSUME NEW j \in 1..Len(q.rbuf)
        PROVE  q.rbuf[j] = q.file[q.pos - Len(q.rbuf) + j]
    <3>1. j \in 1..k /\ q.pos - Len(q.rbuf) = (p.pos + k) - k
      <4>1. Len(q.rbuf) = k /\ q.pos = p.pos + k
        BY <1>4, <1>5
      <4>2. j \in 1..k
        BY <4>1
      <4> QED
        BY <4>1, <4>2, Zenon
    <3>2. (p.pos + k) - k + j = p.pos + j
      BY <1>1, <1>3
    <3> QED
      BY <1>4, <1>5, <3>1, <3>2
  <2> QED
    BY <2>1, <2>2 DEF Buffered
<1>7. Bounded(q)
  <2>1. Len(q.wbuf) = 0 /\ q.pos + Len(q.wbuf) <= MaxLen
    BY <1>1, <1>3, <1>5
  <2> QED
    BY <1>1, <1>5, <2>1, Bounds DEF Bounded
<1>8. PortInv(q)
  BY <1>5, <1>6, <1>7 DEF PortInv, Directed
<1>9. /\ Seen(p) = p.file /\ Place(p) = p.pos - Len(p.rbuf)
      /\ Seen(q) = q.file /\ Place(q) = q.pos - Len(q.rbuf)
  BY <1>1, <1>5, <1>8, SeenReading
<1>10. Place(q) = Place(p)
  BY <1>1, <1>3, <1>4, <1>5, <1>9
<1>11. u # <<>>
  BY <1>3, <1>4, EmptySeq
<1> QED
  BY <1>5, <1>8, <1>9, <1>10, <1>11 DEF Same

-----------------------------------------------------------------------------
(* The steps.  Each is one of FilePort, of what the program sees. *)

\* What the program sees of the state
LEMMA View ==
    /\ open /\ PortInv(port) =>
         Usable /\ Contents = Seen(port) /\ FilePosition = Place(port) /\ GivenBack = port.back
    /\ open' /\ PortInv(port') =>
         /\ Usable' /\ Contents' = Seen(port') /\ FilePosition' = Place(port')
         /\ GivenBack' = port'.back
    /\ ~Usable => Contents = port.file /\ FilePosition = 0 /\ GivenBack = <<>>
    /\ ~Usable' => Contents' = port'.file /\ FilePosition' = 0 /\ GivenBack' = <<>>
<1>1. Seen(port)' = Seen(port') /\ Place(port)' = Place(port')
  BY DEF Seen, Place, Overlay, Larger
<1>2. /\ PortInv(port) => port.handle = TRUE
      /\ PortInv(port') => port'.handle = TRUE
  BY DEF PortInv, PortType
<1>3. open /\ port.handle = TRUE =>
        Usable /\ Contents = Seen(port) /\ FilePosition = Place(port) /\ GivenBack = port.back
  BY DEF Usable, Contents, FilePosition, GivenBack, Seen, Place
<1>4. open' /\ port'.handle = TRUE =>
        /\ Usable' /\ Contents' = Seen(port)' /\ FilePosition' = Place(port)'
        /\ GivenBack' = port'.back
  BY DEF Usable, Contents, FilePosition, GivenBack, Seen, Place
<1>5. /\ ~Usable => Contents = port.file /\ FilePosition = 0 /\ GivenBack = <<>>
      /\ ~Usable' => Contents' = port'.file /\ FilePosition' = 0 /\ GivenBack' = <<>>
  BY DEF Contents, FilePosition, GivenBack
<1> QED
  BY <1>1, <1>2, <1>3, <1>4, <1>5

\* FilePort's operators are those of VfsPort.
LEMMA SameOperators ==
    /\ \A f, n, s : FP!Overlay(f, n, s) = Overlay(f, n, s)
    /\ \A f, n : FP!Resize(f, n) = Resize(f, n)
    /\ \A kind, value : FP!Answer(kind, value) <=> Answer(kind, value)
    /\ FP!Position = FilePosition - Len(GivenBack)
BY DEF FP!Overlay, Overlay, FP!Larger, Larger, FP!Resize, Resize, FP!Answer, Answer, FP!Position

\* A call that leaves the port usable
LEMMA CallStep ==
    ASSUME IInv, open, PortInv(port), open' = open, PortInv(port'), FP!Call
    PROVE  IInv' /\ FP!Next
<1>1. Usable /\ Usable'
  BY View
<1>2. Usable' = Usable
  BY <1>1 DEF Usable
<1>3. FP!Next
  BY <1>1, <1>2 DEF FP!Next
<1> QED
  BY <1>3 DEF IInv

\* A call that failed
LEMMA FailStep ==
    ASSUME IInv, open, PortInv(port), open' = open, PortInv(port'),
           Same(port', port) \/ Skipped(port', port), Answer("error", 0)
    PROVE  IInv' /\ FP!Next
<1>1. CASE Same(port', port)
  <2>1. Contents' = Contents /\ FilePosition' = FilePosition /\ GivenBack' = GivenBack
    BY <1>1, View DEF Same
  <2>2. FP!Fail
    BY <2>1, SameOperators DEF FP!Fail
  <2> QED
    BY <2>2, CallStep DEF FP!Call
<1>2. CASE Skipped(port', port)
  <2>1. PICK k \in 0..ReadSize : Place(port') = Place(port) + k
    BY <1>2 DEF Skipped
  <2>2. Contents' = Contents /\ FilePosition' = FilePosition + k /\ GivenBack' = <<>>
    BY <1>2, <2>1, View DEF Skipped
  <2>3. FP!Fail
    BY <2>2, SameOperators DEF FP!Fail, FP!Settle
  <2> QED
    BY <2>3, CallStep DEF FP!Call
<1> QED
  BY <1>1, <1>2

\* A byte is taken, or there is none.
LEMMA TakeStep ==
    ASSUME IInv, open, PortInv(port), open' = open,
           NEW q, PortInv(q), q.active = "read", Same(q, port), Take(q)
    PROVE  IInv' /\ FP!Next
<1>1. /\ q \in PortType /\ q.back \in Seq(Bytes) /\ q.rbuf \in Seq(Bytes) /\ q.wbuf = <<>>
      /\ q.back = port.back /\ Seen(q) = Seen(port) /\ Place(q) = Place(port)
      /\ Seen(q) = q.file /\ Place(q) = q.pos - Len(q.rbuf) /\ Place(q) \in Nat
      /\ q.file \in Seq(Bytes) /\ Len(q.file) \in Nat /\ q.pos \in Nat
  <2>1. q \in PortType /\ q.wbuf = <<>>
    BY DEF PortInv, Directed
  <2> QED
    BY <2>1, Fields, SeenReading DEF Same
<1>2. CASE /\ q.back # <<>>
           /\ port' = [q EXCEPT !.back = Tail(@)]
           /\ Answer("byte", Head(q.back))
  <2> DEFINE t == Tail(q.back)
  <2>1. t \in Seq(Bytes) /\ Len(t) = Len(q.back) - 1 /\ Len(q.back) \in Nat /\ Len(q.back) > 0
    BY <1>1, <1>2, HeadTailProperties, LenProperties, EmptySeq
  <2>2. port' = [q EXCEPT !.back = t]
    BY <1>1, <1>2 DEF PortType
  <2> HIDE DEF t
  <2>3. /\ port' \in PortType /\ port'.file = q.file /\ port'.pos = q.pos /\ port'.rbuf = q.rbuf
        /\ port'.wbuf = <<>> /\ port'.back = t /\ port'.active = "read"
    BY <1>1, <2>1, <2>2 DEF PortType
  <2>4. Buffered(port')
    BY <2>3 DEF PortInv, Buffered
  <2>5. PortInv(port')
    BY <1>1, <2>3, <2>4 DEF PortInv, Directed, Bounded
  <2>6. Seen(port') = Seen(q) /\ Place(port') = Place(q)
    BY <1>1, <2>3 DEF Seen, Place
  <2>7. /\ Contents' = Contents /\ FilePosition' = FilePosition
        /\ GivenBack = q.back /\ GivenBack' = t
    BY <1>1, <2>3, <2>5, <2>6, View
  <2>8. FP!ReadBack
    BY <1>1, <1>2, <2>7, SameOperators DEF FP!ReadBack, t
  <2> QED
    BY <2>5, <2>8, CallStep DEF FP!Call
<1>3. ASSUME NEW u, PortInv(u), Same(u, q), u.back = <<>>, u.rbuf # <<>>,
             port' = [u EXCEPT !.rbuf = Tail(@)], Answer("byte", Head(u.rbuf))
      PROVE  IInv' /\ FP!Next
  <2>1. port' = [u EXCEPT !.rbuf = Tail(u.rbuf)]
    BY <1>3 DEF PortInv, PortType
  <2>2. /\ PortInv(port') /\ Seen(port') = Seen(u) /\ port'.back = u.back
        /\ Place(u) < Len(Seen(u)) /\ Place(port') = Place(u) + 1
        /\ Head(u.rbuf) = Seen(u)[Place(u) + 1]
    BY <1>3, <2>1, TakeByte
  <2>3. /\ Contents = Seen(u) /\ Contents' = Contents /\ GivenBack = <<>> /\ GivenBack' = GivenBack
        /\ FilePosition = Place(u) /\ FilePosition' = FilePosition + 1
    BY <1>1, <1>3, <2>2, View DEF Same
  <2>4. FP!ReadFile
    BY <1>3, <2>2, <2>3, SameOperators DEF FP!ReadFile
  <2> QED
    BY <2>2, <2>4, CallStep DEF FP!Call
<1>4. CASE /\ q.back = <<>> /\ q.rbuf # <<>>
           /\ port' = [q EXCEPT !.rbuf = Tail(@)]
           /\ Answer("byte", Head(q.rbuf))
  BY <1>3, <1>4 DEF Same
<1>5. CASE /\ q.back = <<>> /\ q.rbuf = <<>>
           /\ \E r \in Fill(q) :
                LET u == r.port
                IN IF r.ok /\ u.rbuf # <<>>
                   THEN port' = [u EXCEPT !.rbuf = Tail(@)] /\ Answer("byte", Head(u.rbuf))
                   ELSE port' = q /\ Answer(IF r.ok THEN "eof" ELSE "error", 0)
  <2>1. PICK r \in Fill(q) :
               IF r.ok /\ r.port.rbuf # <<>>
               THEN port' = [r.port EXCEPT !.rbuf = Tail(@)] /\ Answer("byte", Head(r.port.rbuf))
               ELSE port' = q /\ Answer(IF r.ok THEN "eof" ELSE "error", 0)
    BY <1>5
  <2>2. q.handle = TRUE
    BY <1>1 DEF PortType
  <2>3. CASE r = Bad(q)
    <3>1. port' = q /\ Answer("error", 0)
      BY <2>1, <2>3 DEF Bad
    <3> QED
      BY <3>1, FailStep
  <2>4. CASE q.pos >= Len(q.file) /\ r = Good(q)
    <3>1. port' = q /\ Answer("eof", 0)
      BY <1>5, <2>1, <2>4 DEF Good
    <3>2. Len(q.rbuf) = 0 /\ Place(q) = q.pos
      BY <1>1, <1>5, EmptySeq
    <3>3. Contents = q.file /\ FilePosition = q.pos /\ ~(FilePosition < Len(Contents))
      BY <1>1, <2>4, <3>2, View
    <3>4. Contents' = Contents /\ FilePosition' = FilePosition /\ GivenBack' = GivenBack /\ GivenBack = <<>>
      BY <1>1, <1>5, <3>1, View
    <3>5. FP!ReadFile
      BY <3>1, <3>3, <3>4, SameOperators DEF FP!ReadFile
    <3> QED
      BY <3>1, <3>5, CallStep DEF FP!Call
  <2>5. CASE \E k \in 1..Smaller(ReadSize, Len(q.file) - q.pos) : r = Good(Filled(q, k))
    <3>1. PICK k \in 1..Smaller(ReadSize, Len(q.file) - q.pos) : r = Good(Filled(q, k))
      BY <2>5
    <3> DEFINE u == Filled(q, k)
    <3>2. r.ok = TRUE /\ r.port = u
      BY <3>1 DEF Good
    <3>3. u = Filled(q, k)
      OBVIOUS
    <3> HIDE DEF u
    <3>4. PortInv(u) /\ u.rbuf # <<>> /\ Same(u, q) /\ u.back = <<>>
      BY <1>5, <3>3, FillSafe DEF Same
    <3>5. port' = [u EXCEPT !.rbuf = Tail(@)] /\ Answer("byte", Head(u.rbuf))
      BY <2>1, <3>2, <3>4
    <3> QED
      BY <1>3, <3>4, <3>5
  <2> QED
    BY <2>1, <2>2, <2>3, <2>4, <2>5 DEF Fill, OfHandle, Filled
<1> QED
  BY <1>2, <1>4, <1>5 DEF Take

\* (read-char port)
LEMMA ReadStep ==
    ASSUME CarefulProgram, IInv, open, PortInv(port), Read
    PROVE  IInv' /\ FP!Next
<1>1. PortInv(port) /\ open' = open /\ Random
  BY DEF Read, CarefulProgram
<1>2. PICK r \in FlushIfWriting(port) :
          IF r.ok THEN Take(Becomes(r.port, "read")) ELSE port' = r.port /\ Answer("error", 0)
  BY DEF Read
<1>3. CASE port.active = "write"
  <2>1. r \in VportFlush(port)
    BY <1>2, <1>3 DEF FlushIfWriting
  <2>2. Settled(r, port)
    BY <1>1, <1>3, <2>1, FlushSettles
  <2>3. CASE ~r.ok
    <3>1. /\ port' = r.port /\ Answer("error", 0) /\ PortInv(r.port)
          /\ (Same(r.port, port) \/ Skipped(r.port, port))
      BY <1>2, <2>2, <2>3 DEF Settled
    <3> QED
      BY <1>1, <3>1, FailStep
  <2>4. CASE r.ok
    <3> DEFINE p == r.port
               q == [p EXCEPT !.active = "read"]
    <3>1. /\ WriteReady(p) /\ p.wbuf = <<>> /\ Seen(p) = Seen(port)
          /\ Place(p) = Place(port) - Len(port.back)
      BY <2>2, <2>4 DEF Settled
    <3>2. port.back = <<>> /\ Len(port.back) = 0 /\ p.back = <<>> /\ Place(port) \in Nat
      BY <1>1, <1>3, <3>1, EmptySeq, PlaceType DEF PortInv, Directed, WriteReady
    <3>3. PortInv(p) /\ Same(p, port)
      BY <3>1, <3>2, Ready DEF Same
    <3>4. Take(q)
      BY <1>1, <1>2, <2>4 DEF Becomes
    <3> HIDE DEF p
    <3>5. q = [p EXCEPT !.active = "read"]
      OBVIOUS
    <3> HIDE DEF q
    <3>6. PortInv(q) /\ q.active = "read" /\ Same(q, p)
      BY <3>1, <3>3, <3>5, ToReading DEF p
    <3> QED
      BY <1>1, <3>3, <3>4, <3>6, TakeStep DEF Same, p
  <2> QED
    BY <2>3, <2>4
<1>4. CASE port.active # "write"
  <2> DEFINE q == [port EXCEPT !.active = "read"]
  <2>1. r = Good(port)
    BY <1>2, <1>4 DEF FlushIfWriting
  <2>2. Take(q)
    BY <1>1, <1>2, <2>1 DEF Good, Becomes
  <2>3. port.wbuf = <<>>
    BY <1>1, <1>4 DEF PortInv, Directed
  <2>4. q = [port EXCEPT !.active = "read"]
    OBVIOUS
  <2> HIDE DEF q
  <2>5. PortInv(q) /\ q.active = "read" /\ Same(q, port)
    BY <1>1, <2>3, <2>4, ToReading
  <2> QED
    BY <1>1, <2>2, <2>5, TakeStep
<1> QED
  BY <1>3, <1>4

\* (unread-char c port)
LEMMA UnreadStep ==
    ASSUME CarefulProgram, IInv, open, PortInv(port), NEW b \in Bytes, Unread(b)
    PROVE  IInv' /\ FP!Next
<1>1. PortInv(port) /\ open' = open /\ Random /\ port.wbuf = <<>> /\ Answer("ok", 0)
  BY DEF Unread, CarefulProgram
<1> DEFINE c == <<b>> \o port.back
           p == [port EXCEPT !.active = "read", !.back = c]
<1>2. port \in PortType /\ port.back \in Seq(Bytes) /\ Bounded(port) /\ Buffered(port)
  BY <1>1, Fields DEF PortInv
<1>3. c \in Seq(Bytes) /\ Len(c) = Len(port.back) + 1
  <2>1. <<b>> \in Seq(Bytes) /\ Len(<<b>>) = 1 /\ Len(port.back) \in Nat
    BY <1>2, LenProperties
  <2>2. c \in Seq(Bytes) /\ Len(c) = Len(<<b>>) + Len(port.back)
    BY <1>2, <2>1, Concat
  <2> HIDE DEF c
  <2> QED
    BY <2>1, <2>2
<1>4. port' = p
  BY <1>1, <1>2 DEF Unread, Becomes, PortType
<1> HIDE DEF c
<1>5. /\ port' \in PortType /\ port'.file = port.file /\ port'.pos = port.pos
      /\ port'.rbuf = port.rbuf /\ port'.wbuf = <<>> /\ port'.back = c /\ port'.active = "read"
  BY <1>1, <1>2, <1>3, <1>4 DEF PortType
<1>6. Buffered(port')
  BY <1>2, <1>5 DEF Buffered
<1>7. PortInv(port')
  BY <1>1, <1>2, <1>5, <1>6 DEF PortInv, Directed, Bounded
<1>8. Seen(port') = Seen(port) /\ Place(port') = Place(port)
  BY <1>1, <1>5 DEF Seen, Place
<1>9. /\ Contents' = Contents /\ FilePosition' = FilePosition
      /\ GivenBack = port.back /\ GivenBack' = c
  BY <1>1, <1>5, <1>7, <1>8, View
<1>10. FP!Unread(b)
  BY <1>1, <1>9, SameOperators DEF FP!Unread, c
<1> QED
  BY <1>1, <1>7, <1>10, CallStep DEF FP!Call

\* What the program writes
LEMMA StringType ==
    ASSUME NEW s \in Strings
    PROVE  s \in Seq(Bytes) /\ Len(s) \in Nat /\ Len(s) \in 1..MaxWrite /\ s \in [1..Len(s) -> Bytes]
<1>1. PICK n \in 1..MaxWrite : s \in [1..n -> Bytes]
  BY DEF Strings
<1>2. n \in Nat /\ s \in Seq(Bytes)
  BY <1>1, Bounds, SeqDef
<1>3. Len(s) = n
  <2>1. Len(s) \in Nat /\ 1..Len(s) = 1..n
    BY <1>1, <1>2, LenProperties
  <2> HIDE DEF Strings
  <2>2. n <= Len(s)
    <3>1. n \in 1..Len(s)
      BY <1>1, <1>2, <2>1
    <3> QED
      BY <1>2, <2>1, <3>1
  <2>3. Len(s) <= n
    <3>1. Len(s) >= 1
      BY <1>1, <2>2, <2>1, <1>2
    <3>2. Len(s) \in 1..n
      BY <2>1, <3>1
    <3> QED
      BY <1>2, <2>1, <3>2
  <2> QED
    BY <1>2, <2>1, <2>2, <2>3
<1> QED
  BY <1>1, <1>2, <1>3

\* Some bytes of s are written: p is the port with the program's position,
\* r an outcome of vport_write.
LEMMA WrittenStep ==
    ASSUME IInv, open, PortInv(port), open' = open, Random, NEW s \in Strings,
           NEW p, PortInv(p), p.active # "read", Seen(p) = Seen(port),
           Place(p) = Place(port) - Len(port.back),
           p.pos + Len(p.wbuf) + Len(s) <= MaxLen,
           NEW r \in VportWrite(p, s),
           port' = IF r.ok THEN Becomes(r.port, "write") ELSE r.port,
           Answer(IF r.ok THEN "ok" ELSE "error", 0)
    PROVE  IInv' /\ FP!Next
<1>1. PortInv(port) /\ s \in Seq(Bytes) /\ Len(s) \in Nat /\ Len(s) \in 1..MaxWrite
  BY StringType DEF IInv
<1>2. /\ r.ok \in BOOLEAN /\ WriteReady(r.port)
      /\ ~r.ok => r.port.wbuf = <<>> \/ r.port.active = "write"
      /\ \E k \in 0..Len(s) : Wrote(r.port, p, s, k) /\ (r.ok => k = Len(s))
  BY <1>1, VportWriteSafe
<1>3. PICK k \in 0..Len(s) : Wrote(r.port, p, s, k) /\ (r.ok => k = Len(s))
  BY <1>2
<1>4. /\ WriteReady(port') /\ (port'.wbuf = <<>> \/ port'.active = "write")
      /\ Seen(port') = Seen(r.port) /\ Place(port') = Place(r.port)
  <2>1. CASE r.ok
    <3> DEFINE q == r.port
    <3>1. port' = [q EXCEPT !.active = "write"] /\ q \in PortType
      BY <1>2, <2>1 DEF Becomes, WriteReady
    <3> HIDE DEF q
    <3>2. /\ port' \in PortType /\ port'.file = q.file /\ port'.pos = q.pos /\ port'.rbuf = q.rbuf
          /\ port'.back = q.back /\ port'.wbuf = q.wbuf /\ port'.active = "write"
      BY <3>1 DEF PortType
    <3>3. WriteReady(q)
      BY <1>2 DEF q
    <3> QED
      BY <3>2, <3>3 DEF WriteReady, Bounded, Seen, Place, q
  <2>2. CASE ~r.ok
    BY <1>2, <2>2
  <2> QED
    BY <1>2, <2>1, <2>2
<1>5. PortInv(port') /\ port'.back = <<>>
  BY <1>4, Ready DEF WriteReady
<1>6. /\ Contents' = Overlay(Contents, FP!Position, First(s, k))
      /\ FilePosition' = FP!Position + k /\ FP!Position \in Nat
  <2>1. Seen(port') = Overlay(Seen(p), Place(p), First(s, k)) /\ Place(port') = Place(p) + k
    BY <1>3, <1>4 DEF Wrote
  <2>2. FP!Position = Place(p) /\ Contents = Seen(p) /\ Place(p) \in Nat
    BY <1>1, View, SameOperators, PlaceType
  <2> QED
    BY <1>5, <2>1, <2>2, View
<1>7. FP!Write(s)
  <2>1. FP!Position >= 0 /\ FP!Settle
    BY <1>5, <1>6, View DEF FP!Settle
  <2>2. Contents' = FP!Overlay(Contents, FP!Position, SubSeq(s, 1, k))
    BY <1>6, SameOperators DEF First
  <2>3. FP!Answer("error", 0) \/ (k = Len(s) /\ FP!Answer("ok", 0))
    BY <1>2, <1>3, SameOperators
  <2> QED
    BY <1>6, <2>1, <2>2, <2>3 DEF FP!Write
<1>8. s \in FP!Strings
  <2>1. Len(s) <= MaxLen
    <3> DEFINE l == Len(s)
               w == Len(p.wbuf)
    <3>1. l \in Nat /\ w \in Nat /\ p.pos \in Nat /\ p.pos + w + l <= MaxLen /\ MaxLen \in Nat
      BY <1>1, Fields, Bounds DEF PortInv
    <3> HIDE DEF l, w
    <3>2. l <= MaxLen
      BY <3>1
    <3> QED
      BY <3>2 DEF l
  <2>2. Len(s) \in 1..MaxLen /\ s \in [1..Len(s) -> Bytes]
    BY <1>1, <2>1, StringType, Bounds
  <2> QED
    BY <2>2 DEF FP!Strings
<1> QED
  BY <1>5, <1>7, <1>8, CallStep DEF FP!Call

\* (display s port)
LEMMA WriteStep ==
    ASSUME CarefulProgram, IInv, open, PortInv(port), NEW s \in Strings, Write(s)
    PROVE  IInv' /\ FP!Next
<1> DEFINE Put1(p) == {IF u.ok THEN Good(Becomes(u.port, "write")) ELSE u : u \in VportWrite(p, s)}
<1>1. /\ PortInv(port) /\ Random /\ open' = open
      /\ port.pos + Len(port.wbuf) + Len(s) <= MaxLen
  BY DEF CarefulProgram, Write, Finish
<1>2. PICK t \in EndIfReading(port) :
          \E r \in IF t.ok THEN Put1(t.port) ELSE {t} :
              port' = r.port /\ Answer(IF r.ok THEN "ok" ELSE "error", 0)
  BY DEF Write, Finish, Then
<1>3. PICK r \in IF t.ok THEN Put1(t.port) ELSE {t} :
          port' = r.port /\ Answer(IF r.ok THEN "ok" ELSE "error", 0)
  BY <1>2
<1> HIDE DEF Put1
<1>4. ASSUME t.ok
      PROVE  /\ PortInv(t.port) /\ t.port.active # "read" /\ Seen(t.port) = Seen(port)
             /\ Place(t.port) = Place(port) - Len(port.back)
             /\ t.port.pos + Len(t.port.wbuf) + Len(s) <= MaxLen
  <2>1. CASE port.active # "read"
    <3>1. t = Good(port)
      BY <1>3, <2>1 DEF EndIfReading
    <3>2. t.ok = TRUE /\ t.port = port
      BY <3>1 DEF Good
    <3>3. Len(port.back) = 0 /\ Place(port) \in Nat
      BY <1>1, <2>1, EmptySeq, PlaceType DEF PortInv, Directed
    <3>4. Place(port) = Place(port) - Len(port.back)
      <4> DEFINE b == Len(port.back)
                 l == Place(port)
      <4>1. b = 0 /\ l \in Nat
        BY <3>3
      <4> HIDE DEF b, l
      <4>2. l = l - b
        BY <4>1
      <4> QED
        BY <4>2 DEF b, l
    <3> QED
      BY <1>1, <2>1, <3>2, <3>4
  <2>2. CASE port.active = "read"
    <3>1. t \in EndInput(port)
      BY <1>3, <2>2 DEF EndIfReading
    <3>2. Settled(t, port)
      BY <1>1, <2>2, <3>1, EndInputSafe
    <3>3. /\ WriteReady(t.port) /\ t.port.wbuf = <<>> /\ t.port.active = "neither"
          /\ Seen(t.port) = Seen(port) /\ Place(t.port) = Place(port) - Len(port.back)
      BY <1>4, <3>2 DEF Settled
    <3>4. PortInv(t.port)
      BY <3>3, Ready
    <3>5. t.port.pos + Len(t.port.wbuf) + Len(s) <= MaxLen
      <4> DEFINE n == t.port.pos
                 w == Len(t.port.wbuf)
                 b == Len(port.back)
                 l == Len(port.rbuf)
                 m == Len(s)
                 v == Len(port.wbuf)
                 x == port.pos
                 y == Place(port)
      <4>1. n = y - b /\ w = 0 /\ v = 0 /\ n \in Nat
        BY <1>1, <2>2, <3>3, EmptySeq, SeenType, Fields DEF PortInv, Directed, WriteReady
      <4>2. y = x - l /\ y \in Nat
        BY <1>1, <2>2, SeenReading DEF PortInv, Directed
      <4>3. b \in Nat /\ l \in Nat /\ x \in Nat /\ MaxLen \in Nat
        BY <1>1, Fields, Bounds DEF PortInv
      <4>4. m \in Nat
        BY StringType
      <4>5. x + v + m <= MaxLen
        BY <1>1
      <4> HIDE DEF n, w, b, l, m, v, x, y
      <4>6. n + w + m <= MaxLen
        BY <4>1, <4>2, <4>3, <4>4, <4>5
      <4> QED
        BY <4>6 DEF n, w, m
    <3> QED
      BY <3>3, <3>4, <3>5
  <2> QED
    BY <2>1, <2>2
<1>5. CASE ~t.ok
  <2>1. port.active = "read" /\ t \in EndInput(port)
    BY <1>3, <1>5 DEF EndIfReading, Good
  <2>2. Settled(t, port)
    BY <1>1, <2>1, EndInputSafe
  <2>3. r = t
    BY <1>3, <1>5
  <2>4. /\ PortInv(port') /\ (Same(port', port) \/ Skipped(port', port))
        /\ Answer("error", 0)
    BY <1>3, <1>5, <2>2, <2>3 DEF Settled
  <2> QED
    BY <1>1, <2>4, FailStep
<1>6. CASE t.ok
  <2>1. PICK u \in VportWrite(t.port, s) : r = IF u.ok THEN Good(Becomes(u.port, "write")) ELSE u
    BY <1>3, <1>6 DEF Put1
  <2>2. u.ok \in BOOLEAN
    <3>1. s \in Seq(Bytes)
      BY StringType
    <3> QED
      BY <1>4, <1>6, <2>1, <3>1, VportWriteSafe
  <2>3. /\ port' = IF u.ok THEN Becomes(u.port, "write") ELSE u.port
        /\ Answer(IF u.ok THEN "ok" ELSE "error", 0)
    <3>1. CASE u.ok
      <4>1. r.port = Becomes(u.port, "write") /\ r.ok = TRUE
        BY <2>1, <3>1 DEF Good
      <4> QED
        BY <1>3, <3>1, <4>1
    <3>2. CASE ~u.ok
      BY <1>3, <2>1, <3>2
    <3> QED
      BY <2>2, <3>1, <3>2
  <2> DEFINE p == t.port
  <2>4. u \in VportWrite(p, s)
    BY <2>1
  <2>5. /\ PortInv(p) /\ p.active # "read" /\ Seen(p) = Seen(port)
        /\ Place(p) = Place(port) - Len(port.back) /\ p.pos + Len(p.wbuf) + Len(s) <= MaxLen
    BY <1>4, <1>6
  <2> HIDE DEF p
  <2> QED
    BY <1>1, <2>3, <2>4, <2>5, WrittenStep
<1> QED
  BY <1>5, <1>6

\* p with another file and another position
Moved(p, f, n) == [p EXCEPT !.file = f, !.pos = n]

\* A port on which nothing is pending gets them.
LEMMA MovedReady ==
    ASSUME NEW p, WriteReady(p), p.wbuf = <<>>, NEW f \in Seq(Bytes), Len(f) <= MaxLen,
           NEW n \in Nat, n <= MaxLen, NEW q, q = Moved(p, f, n)
    PROVE  PortInv(q) /\ q.back = <<>> /\ q.wbuf = <<>> /\ Seen(q) = f /\ Place(q) = n
<1>1. /\ q \in PortType /\ q.file = f /\ q.pos = n /\ q.rbuf = <<>> /\ q.back = <<>>
      /\ q.wbuf = <<>> /\ Len(q.wbuf) = 0
  BY EmptySeq DEF WriteReady, PortType, Moved
<1>2. Len(q.wbuf) <= WriteSize /\ q.pos + Len(q.wbuf) <= MaxLen
  BY <1>1, Bounds
<1>3. WriteReady(q)
  BY <1>1, <1>2 DEF WriteReady, Bounded
<1> QED
  BY <1>1, <1>3, Ready, SeenType

\* A call that failed after nothing was pending any more
LEMMA SettledFails ==
    ASSUME IInv, open, PortInv(port), open' = open, NEW p, port' = p, WriteReady(p), p.wbuf = <<>>,
           Seen(p) = Seen(port), Place(p) = Place(port) - Len(port.back), Answer("error", 0)
    PROVE  IInv' /\ FP!Next
<1>1. PortInv(p) /\ p.back = <<>> /\ Place(p) \in Nat
  BY Ready, SeenType DEF WriteReady
<1>2. /\ Contents' = Contents /\ FilePosition' = FP!Position /\ FP!Position \in Nat
      /\ GivenBack' = <<>>
  BY <1>1, View, SameOperators
<1>3. FP!Fail
  BY <1>2, SameOperators DEF FP!Fail, FP!Settle
<1> QED
  BY <1>1, <1>3, CallStep DEF FP!Call

\* (seek port offset whence): every way to move
LEMMA SeekStep ==
    ASSUME CarefulProgram, IInv, open, PortInv(port), NEW whence, NEW offset \in Int, Seek(whence, offset),
           whence \in {"set", "cur", "end"}
    PROVE  IInv' /\ FP!Next
<1> DEFINE Move(q) == HandleSeek(q, whence, offset)
<1>1. PortInv(port) /\ open' = open
  BY DEF Seek
<1>2. PICK t \in BeforeSeek(port) :
          \E r \in IF t.ok THEN Move(t.port) ELSE {t} :
              /\ r.port.pos <= MaxLen
              /\ port' = r.port
              /\ IF r.ok THEN Answer("position", r.port.pos) ELSE Answer("error", 0)
  BY DEF Seek, VportSeek, Then
<1>3. PICK r \in IF t.ok THEN Move(t.port) ELSE {t} :
          /\ r.port.pos <= MaxLen
          /\ port' = r.port
          /\ IF r.ok THEN Answer("position", r.port.pos) ELSE Answer("error", 0)
  BY <1>2
<1> HIDE DEF Move
<1>4. Settled(t, port)
  BY <1>1, <1>2, BeforeSeekSettles
<1>5. CASE ~t.ok
  <2>1. /\ port' = t.port /\ Answer("error", 0) /\ PortInv(t.port)
        /\ Same(t.port, port) \/ Skipped(t.port, port)
    BY <1>3, <1>4, <1>5 DEF Settled
  <2> QED
    BY <1>1, <2>1, FailStep
<1>6. CASE t.ok
  <2> DEFINE p == t.port
             n == Target(p, whence, offset)
             q == [p EXCEPT !.pos = n]
  <2>1. /\ WriteReady(p) /\ p.wbuf = <<>> /\ Seen(p) = Seen(port)
        /\ Place(p) = Place(port) - Len(port.back)
    BY <1>4, <1>6 DEF Settled
  <2>2. r \in HandleSeek(p, whence, offset)
    BY <1>3, <1>6 DEF Move
  <2>3. /\ p \in PortType /\ p.file \in Seq(Bytes) /\ Len(p.file) \in Nat /\ p.pos \in Nat
        /\ Len(p.file) <= MaxLen /\ Seen(p) = p.file /\ Place(p) = p.pos
    BY <2>1, SeenType, Fields DEF WriteReady, Bounded
  <2>4. r = Bad(p) \/ (n \in Nat /\ (r = Good(q) \/ r = Bad(q)))
    <3>1. p.handle = TRUE
      BY <2>3 DEF PortType
    <3> QED
      BY <2>2, <3>1 DEF HandleSeek, OfHandle
  <2> HIDE DEF p, n, q
  <2>5. CASE n \in Nat /\ (r = Good(q) \/ r = Bad(q))
    <3>1. /\ port' = q /\ q.pos <= MaxLen
          /\ IF r.ok THEN Answer("position", q.pos) ELSE Answer("error", 0)
      BY <1>3, <2>5 DEF Good, Bad
    <3>2. q = Moved(p, p.file, n) /\ q.pos = n
      BY <2>3 DEF PortType, Moved, q
    <3>3. n \in Nat /\ n <= MaxLen /\ (Answer("position", n) \/ Answer("error", 0))
      BY <2>5, <3>1, <3>2
    <3>4. PortInv(port') /\ port'.back = <<>> /\ Seen(port') = p.file /\ Place(port') = n
      BY <2>1, <2>3, <3>1, <3>2, <3>3, MovedReady
    <3>5. Contents' = Contents /\ FilePosition' = n /\ GivenBack' = <<>>
      BY <1>1, <2>1, <2>3, <3>4, View
    <3>6. FP!SeekTo(n)
      BY <3>3, <3>5, SameOperators DEF FP!SeekTo, FP!Settle
    <3>7. n \in 0..MaxLen
      BY <3>3, Bounds
    <3> QED
      BY <1>1, <3>4, <3>6, <3>7, CallStep DEF FP!Call
  <2>6. CASE r = Bad(p)
    <3>1. port' = p /\ Answer("error", 0)
      BY <1>3, <2>6 DEF Bad
    <3> QED
      BY <1>1, <2>1, <3>1, SettledFails DEF p
  <2> QED
    BY <2>4, <2>5, <2>6
<1> QED
  BY <1>5, <1>6

\* What (seek port 0 SEEK_CUR) says
LEMMA TellIs ==
    ASSUME NEW p, PortInv(p)
    PROVE  VportTell(p) = Place(p) - Len(p.back)
<1> DEFINE n == p.pos
           w == Len(p.wbuf)
           l == Len(p.rbuf)
           b == Len(p.back)
           v == VportTell(p)
           x == Place(p)
<1>1. /\ n \in Nat /\ w \in Nat /\ l \in Nat /\ b \in Nat
      /\ p.active \in {"neither", "read", "write"}
  BY Fields, EmptySeq DEF PortInv, Directed, PortType
<1>2. p.active = "write" => l = 0 /\ b = 0
  BY EmptySeq DEF PortInv, Directed
<1>3. p.active = "read" => w = 0
  BY EmptySeq DEF PortInv, Directed
<1>4. p.active = "neither" => w = 0 /\ l = 0 /\ b = 0
  BY EmptySeq DEF PortInv, Directed
<1>5. x = n + w - l
  BY DEF Place
<1>6. v = CASE p.active = "write" -> n + w
            [] p.active = "read" -> n - l - b
            [] p.active = "neither" -> n
  BY DEF VportTell
<1> HIDE DEF n, w, l, b, v, x
<1>7. v = x - b
  <2>1. CASE p.active = "write"
    <3>1. v = n + w
      BY <1>6, <2>1
    <3> QED
      BY <1>1, <1>2, <1>5, <2>1, <3>1
  <2>2. CASE p.active = "read"
    <3>1. v = n - l - b
      BY <1>6, <2>2
    <3> QED
      BY <1>1, <1>3, <1>5, <2>2, <3>1
  <2>3. CASE p.active = "neither"
    <3>1. v = n
      BY <1>6, <2>3
    <3> QED
      BY <1>1, <1>4, <1>5, <2>3, <3>1
  <2> QED
    BY <1>1, <2>1, <2>2, <2>3
<1> QED
  BY <1>7 DEF v, x, b

\* (seek port 0 SEEK_CUR)
LEMMA TellStep ==
    ASSUME CarefulProgram, IInv, open, PortInv(port), Tell
    PROVE  IInv' /\ FP!Next
<1>1. open' = open /\ port' = port
  BY DEF Tell
<1>2. CASE Answer("position", VportTell(port))
  <2>1. /\ VportTell(port) = FP!Position /\ Contents' = Contents /\ FilePosition' = FilePosition
        /\ GivenBack' = GivenBack
    BY <1>1, TellIs, View, SameOperators
  <2>2. FP!Tell
    BY <1>2, <2>1, SameOperators DEF FP!Tell
  <2> QED
    BY <1>1, <2>2, CallStep DEF FP!Call
<1>3. CASE Answer("error", 0)
  BY <1>1, <1>3, FailStep DEF Same
<1> QED
  BY <1>2, <1>3 DEF Tell

\* A file cut or filled to a length
LEMMA ResizeType ==
    ASSUME NEW f \in Seq(Bytes), NEW n \in Nat
    PROVE  Resize(f, n) \in Seq(Bytes) /\ Len(Resize(f, n)) = n
<1> DEFINE g == [k \in 1..n |-> IF k <= Len(f) THEN f[k] ELSE Hole]
<1>1. Len(f) \in Nat /\ \A k \in 1..Len(f) : f[k] \in Bytes
  BY LenProperties, ElementOfSeq
<1>2. ASSUME NEW k \in 1..n PROVE (IF k <= Len(f) THEN f[k] ELSE Hole) \in Bytes
  BY <1>1, HoleAssumption
<1>3. g \in [1..n -> Bytes]
  BY <1>2
<1>4. g \in Seq(Bytes) /\ Len(g) = n
  BY <1>3, SeqDef
<1> QED
  BY <1>4 DEF Resize

\* (truncate-file port n)
LEMMA TruncateStep ==
    ASSUME CarefulProgram, IInv, open, PortInv(port), NEW n \in 0..MaxLen, Truncate(n)
    PROVE  IInv' /\ FP!Next
<1> DEFINE Resized(p) == OfHandle(p, {Good([p EXCEPT !.file = Resize(p.file, n)]), Bad(p)})
           Settling == Then(FlushIfWriting(port), EndIfReading)
<1>1. Finish(UNION {IF t.ok THEN Resized(t.port) ELSE {t} : t \in Settling})
  <2>1. Finish(Then(Settling, Resized))
    BY Zenon DEF Truncate
  <2> QED
    BY <2>1, Zenon DEF Then
<1> HIDE DEF Settling, Resized
<1>2. PICK t \in Settling :
          \E r \in IF t.ok THEN Resized(t.port) ELSE {t} :
              port' = r.port /\ Answer(IF r.ok THEN "ok" ELSE "error", 0)
  BY <1>1 DEF Finish
<1>3. PICK r \in IF t.ok THEN Resized(t.port) ELSE {t} :
          port' = r.port /\ Answer(IF r.ok THEN "ok" ELSE "error", 0)
  BY <1>2
<1> HIDE DEF Resized
<1>4. PortInv(port) /\ open' = open /\ n \in Nat /\ n <= MaxLen /\ Settled(t, port)
  <2>1. PortInv(port) /\ open' = open
    BY <1>1 DEF Finish
  <2> QED
    BY <1>2, <2>1, Bounds, DirectionSettles DEF Settling
<1>5. CASE ~t.ok
  <2>1. /\ port' = t.port /\ Answer("error", 0) /\ PortInv(t.port)
        /\ Same(t.port, port) \/ Skipped(t.port, port)
    BY <1>3, <1>4, <1>5 DEF Settled
  <2> QED
    BY <1>4, <2>1, FailStep
<1>6. CASE t.ok
  <2> DEFINE p == t.port
             f == Resize(p.file, n)
  <2>1. /\ WriteReady(p) /\ p.wbuf = <<>> /\ Seen(p) = Seen(port)
        /\ Place(p) = Place(port) - Len(port.back)
    BY <1>4, <1>6 DEF Settled
  <2>2. r = Good([p EXCEPT !.file = f]) \/ r = Bad(p)
    <3>1. p.handle = TRUE
      BY <2>1 DEF WriteReady, PortType
    <3> QED
      BY <1>3, <1>6, <3>1 DEF Resized, OfHandle
  <2> HIDE DEF p
  <2>3. /\ p \in PortType /\ p.file \in Seq(Bytes) /\ p.pos \in Nat
        /\ Seen(p) = p.file /\ Place(p) = p.pos /\ Place(p) <= MaxLen
    BY <2>1, SeenType, Fields DEF WriteReady
  <2>4. f \in Seq(Bytes) /\ Len(f) <= MaxLen
    BY <1>4, <2>3, ResizeType
  <2> HIDE DEF f
  <2>5. CASE r = Bad(p)
    <3>1. port' = p /\ Answer("error", 0)
      BY <1>3, <2>5 DEF Bad
    <3> QED
      BY <1>4, <2>1, <3>1, SettledFails
  <2>6. CASE r = Good([p EXCEPT !.file = f])
    <3>1. r.ok = TRUE /\ port' = [p EXCEPT !.file = f]
      BY <1>3, <2>6 DEF Good
    <3>2. Answer("ok", 0)
      BY <1>3, <3>1
    <3>3. port' = Moved(p, f, p.pos)
      BY <2>3, <3>1 DEF Moved, PortType
    <3>4. p.pos \in Nat /\ p.pos <= MaxLen
      BY <2>3
    <3>5. PortInv(port') /\ port'.back = <<>> /\ Seen(port') = f /\ Place(port') = p.pos
      BY <2>1, <2>4, <3>3, <3>4, MovedReady
    <3>6. /\ Contents' = FP!Resize(Contents, n) /\ GivenBack' = <<>>
          /\ FilePosition' = FP!Position /\ FP!Position \in Nat
      BY <1>4, <2>1, <2>3, <3>5, View, SameOperators DEF f
    <3>7. FP!Truncate(n)
      BY <3>2, <3>6, SameOperators DEF FP!Truncate, FP!Settle
    <3> QED
      BY <1>4, <3>5, <3>7, CallStep DEF FP!Call
  <2> QED
    BY <2>2, <2>5, <2>6
<1> QED
  BY <1>5, <1>6

\* (force-output port), by a program that does not read
LEMMA ForceStep ==
    ASSUME CarefulProgram, IInv, open, PortInv(port), ForceOutput
    PROVE  IInv' /\ FP!Next
<1>1. PortInv(port) /\ open' = open /\ port.active # "read"
  BY DEF ForceOutput, Finish, CarefulProgram
<1>2. PICK r \in VportFlush(port) : port' = r.port /\ Answer(IF r.ok THEN "ok" ELSE "error", 0)
  BY DEF ForceOutput, Finish
<1>3. Settled(r, port)
  BY <1>1, <1>2, FlushSettles
<1>4. CASE ~r.ok
  <2>1. /\ port' = r.port /\ Answer("error", 0) /\ PortInv(r.port)
        /\ Same(r.port, port) \/ Skipped(r.port, port)
    BY <1>2, <1>3, <1>4 DEF Settled
  <2> QED
    BY <1>1, <2>1, FailStep
<1>5. CASE r.ok
  <2>1. /\ WriteReady(port') /\ port'.wbuf = <<>> /\ Seen(port') = Seen(port)
        /\ Place(port') = Place(port) - Len(port.back) /\ Answer("ok", 0)
    BY <1>2, <1>3, <1>5 DEF Settled
  <2>2. PortInv(port') /\ port'.back = <<>>
    BY <2>1, Ready DEF WriteReady
  <2>3. port.back = <<>> /\ Place(port') = Place(port)
    <3> DEFINE b == Len(port.back)
               x == Place(port)
    <3>1. port.back = <<>> /\ b = 0 /\ x \in Nat /\ Place(port') = x - b
      BY <1>1, <2>1, EmptySeq, PlaceType DEF PortInv, Directed
    <3> HIDE DEF b, x
    <3>2. Place(port') = x
      BY <3>1
    <3> QED
      BY <3>1, <3>2 DEF x
  <2>4. /\ Contents' = Contents /\ FilePosition' = FilePosition
        /\ GivenBack' = GivenBack
    BY <1>1, <2>1, <2>2, <2>3, View
  <2>5. FP!Force
    BY <2>1, <2>2, <2>3, <2>4, SameOperators DEF FP!Force
  <2> QED
    BY <1>1, <2>2, <2>5, CallStep DEF FP!Call
<1> QED
  BY <1>4, <1>5

\* The outcomes of a flush when there is nothing to write
LEMMA FlushNothing ==
    ASSUME NEW p, p \in PortType, p.wbuf = <<>>, NEW r \in VportFlush(p)
    PROVE  r = Good(r.port) /\ r.port \in PortType /\ r.port.file = p.file
<1> DEFINE u == [p EXCEPT !.active = "neither"]
<1>1. r = Good(u)
  BY DEF VportFlush
<1>2. u.file = p.file /\ u \in PortType
  BY DEF PortType
<1> HIDE DEF u
<1> QED
  BY <1>1, <1>2 DEF Good

\* (close-port port)
LEMMA CloseStep ==
    ASSUME CarefulProgram, IInv, open, PortInv(port), Close
    PROVE  IInv' /\ FP!Next
<1>1. port \in PortType /\ Usable
  BY View DEF PortInv
<1>2. PICK r \in VportFlush(port) :
        \/ /\ r.ok /\ port.handle
           /\ port' = [r.port EXCEPT !.handle = FALSE, !.rbuf = <<>>, !.back = <<>>]
           /\ open' = FALSE
           /\ Answer("ok", 0)
        \/ /\ port' = IF r.ok THEN [r.port EXCEPT !.handle = FALSE] ELSE r.port
           /\ UNCHANGED open
           /\ Answer("error", 0)
  BY DEF Close
<1>3. /\ r.ok \in BOOLEAN
      /\ r.ok => r.port \in PortType /\ r.port.file = Seen(port)
      /\ ~r.ok => PortInv(r.port) /\ (Same(r.port, port) \/ Skipped(r.port, port))
  <2>1. CASE port.active # "read"
    <3>1. Settled(r, port)
      BY <1>2, <2>1, FlushSettles
    <3>2. ASSUME r.ok PROVE r.port \in PortType /\ r.port.file = Seen(port)
      <4>1. WriteReady(r.port) /\ r.port.wbuf = <<>> /\ Seen(r.port) = Seen(port)
        BY <3>1, <3>2 DEF Settled
      <4> QED
        BY <4>1, SeenType DEF WriteReady
    <3> QED
      BY <3>1, <3>2 DEF Settled
  <2>2. CASE port.active = "read"
    <3>1. port.wbuf = <<>>
      BY <2>2 DEF PortInv, Directed
    <3>2. /\ r = Good(r.port) /\ r.port \in PortType /\ r.port.file = port.file
          /\ Seen(port) = port.file
      BY <1>1, <1>2, <3>1, FlushNothing, SeenReading
    <3>3. r.ok = TRUE
      BY <3>2 DEF Good
    <3> QED
      BY <3>2, <3>3
  <2> QED
    BY <2>1, <2>2
<1>4. CASE ~r.ok
  <2>1. /\ port' = r.port /\ open' = open /\ Answer("error", 0)
        /\ PortInv(r.port) /\ (Same(r.port, port) \/ Skipped(r.port, port))
    BY <1>2, <1>3, <1>4
  <2> QED
    BY <2>1, FailStep
<1>5. CASE r.ok
  <2> DEFINE p == r.port
  <2>1. /\ p \in PortType /\ p.file = Seen(port)
        /\ Answer("ok", 0) \/ Answer("error", 0)
        /\ \/ /\ open' = FALSE
              /\ port' = [p EXCEPT !.handle = FALSE, !.rbuf = <<>>, !.back = <<>>]
           \/ open' = open /\ port' = [p EXCEPT !.handle = FALSE]
    BY <1>2, <1>3, <1>5
  <2> HIDE DEF p
  <2>2. port'.file = Seen(port) /\ port'.handle = FALSE /\ (open' => Dead(port'))
    BY <2>1 DEF PortType, Dead
  <2>3. ~Usable'
    BY <2>2 DEF Usable
  <2>4. Contents' = Contents /\ FilePosition' = 0 /\ GivenBack' = <<>>
    BY <2>2, <2>3, View
  <2>5. FP!Close
    BY <2>1, <2>3, <2>4, SameOperators DEF FP!Close, FP!End, FP!Settle
  <2>6. open' \in BOOLEAN
    BY <2>1 DEF IInv
  <2> QED
    BY <1>1, <2>2, <2>5, <2>6 DEF IInv, FP!Next
<1> QED
  BY <1>3, <1>4, <1>5

\* A part of s is written: what was not is missing, and nothing else.
LEMMA OverlayPart ==
    ASSUME NEW f \in Seq(Bytes), NEW n \in Nat, NEW s \in Seq(Bytes), NEW k \in 0..Len(s)
    PROVE  /\ Overlay(f, n, First(s, k)) \in Seq(Bytes)
           /\ Len(Overlay(f, n, First(s, k))) <= Len(Overlay(f, n, s))
           /\ \A i \in 1..Len(Overlay(f, n, s)) :
                \/ s # <<>> /\ i \in (n + 1)..(n + Len(s))
                \/ Resize(Overlay(f, n, First(s, k)), Len(Overlay(f, n, s)))[i] = Overlay(f, n, s)[i]
<1> DEFINE a == First(s, k)
           g == Overlay(f, n, a)
           h == Overlay(f, n, s)
<1>1. /\ a \in Seq(Bytes) /\ Len(a) = k /\ Len(s) \in Nat /\ Len(f) \in Nat
      /\ \A j \in 1..k : a[j] = s[j]
  BY Cut, LenProperties
<1> HIDE DEF a
<1>2. /\ g \in Seq(Bytes) /\ h \in Seq(Bytes) /\ Len(g) \in Nat /\ Len(h) \in Nat
  BY <1>1, OverlayType, LenProperties
<1>3. CASE s = <<>>
  <2>1. Len(a) = 0
    BY <1>1, <1>3, EmptySeq
  <2>2. a = <<>>
    BY <1>1, <2>1, EmptySeq
  <2>3. g = f /\ h = f
    BY <1>3, <2>2 DEF Overlay
  <2> HIDE DEF g, h
  <2>4. ASSUME NEW i \in 1..Len(h) PROVE Resize(g, Len(h))[i] = h[i]
    BY <1>2, <2>3, <2>4 DEF Resize
  <2> QED
    BY <1>2, <2>3, <2>4 DEF a, g, h
<1>4. CASE s # <<>>
  <2>1. IsOverlay(h, f, n, s, Larger(Len(f), n + Len(s)))
    BY <1>4, OverlayIs
  <2> HIDE DEF h
  <2>2. /\ Len(h) = Larger(Len(f), n + Len(s))
        /\ \A i \in 1..Len(h) : i \notin (n + 1)..(n + Len(s)) =>
             h[i] = IF i <= Len(f) THEN f[i] ELSE Hole
    BY <2>1 DEF IsOverlay
  <2>3. /\ Len(g) <= Len(h) /\ Len(f) <= Len(g)
        /\ \A i \in 1..Len(g) : i \notin (n + 1)..(n + Len(s)) =>
             g[i] = IF i <= Len(f) THEN f[i] ELSE Hole
    <3>1. CASE a = <<>>
      <4>1. g = f
        BY <3>1 DEF Overlay
      <4> HIDE DEF g
      <4> QED
        BY <1>1, <2>2, <4>1 DEF Larger
    <3>2. CASE a # <<>>
      <4>1. IsOverlay(g, f, n, a, Larger(Len(f), n + Len(a)))
        BY <1>1, <3>2, OverlayIs
      <4> HIDE DEF g
      <4>2. /\ Len(g) = Larger(Len(f), n + k)
            /\ \A i \in 1..Len(g) : i \notin (n + 1)..(n + k) =>
                 g[i] = IF i <= Len(f) THEN f[i] ELSE Hole
        BY <1>1, <4>1 DEF IsOverlay
      <4>3. \A i : i \notin (n + 1)..(n + Len(s)) => i \notin (n + 1)..(n + k)
        BY <1>1
      <4>4. Larger(Len(f), n + k) <= Larger(Len(f), n + Len(s)) /\ Len(f) <= Larger(Len(f), n + k)
        BY <1>1 DEF Larger
      <4> QED
        BY <2>2, <4>2, <4>3, <4>4
    <3> QED
      BY <3>1, <3>2
  <2> HIDE DEF g
  <2>4. ASSUME NEW i \in 1..Len(h), i \notin (n + 1)..(n + Len(s))
        PROVE  Resize(g, Len(h))[i] = h[i]
    <3>1. Resize(g, Len(h))[i] = IF i <= Len(g) THEN g[i] ELSE Hole
      BY DEF Resize
    <3>2. CASE i <= Len(g)
      <4>1. i \in 1..Len(g)
        BY <1>2, <3>2
      <4> QED
        BY <2>2, <2>3, <2>4, <3>1, <3>2, <4>1
    <3>3. CASE ~(i <= Len(g))
      <4>1. ~(i <= Len(f))
        BY <1>1, <1>2, <2>3, <3>3
      <4> QED
        BY <2>2, <2>4, <3>1, <3>3, <4>1
    <3> QED
      BY <3>2, <3>3
  <2> QED
    BY <1>2, <1>4, <2>3, <2>4 DEF a, g, h
<1> QED
  BY <1>3, <1>4

\* vport_free, in the collector
LEMMA FreeStep ==
    ASSUME IInv, open, PortInv(port), Free
    PROVE  IInv' /\ FP!Next
<1>1. /\ port \in PortType /\ Usable /\ Bounded(port) /\ port.file \in Seq(Bytes)
      /\ port.wbuf \in Seq(Bytes) /\ port.pos \in Nat /\ Len(port.wbuf) \in Nat
      /\ Len(port.wbuf) <= WriteSize /\ open' = FALSE /\ UNCHANGED result
  BY View, Fields DEF PortInv, Bounded, Free
<1>2. PICK k \in 0..Len(port.wbuf) :
          port' = [PutBytes(port, First(port.wbuf, k))
                    EXCEPT !.handle = FALSE, !.rbuf = <<>>, !.back = <<>>, !.wbuf = <<>>]
  BY DEF Free
<1> DEFINE g == Overlay(port.file, port.pos, First(port.wbuf, k))
           h == Overlay(port.file, port.pos, port.wbuf)
<1>3. port'.file = g
  BY <1>1, <1>2 DEF PutBytes, PortType
<1>4. /\ g \in Seq(Bytes) /\ Len(g) <= Len(h)
      /\ \A i \in 1..Len(h) :
           \/ port.wbuf # <<>> /\ i \in (port.pos + 1)..(port.pos + Len(port.wbuf))
           \/ Resize(g, Len(h))[i] = h[i]
  BY <1>1, OverlayPart
<1>5. h \in Seq(Bytes) /\ Len(h) \in Nat /\ Len(g) \in Nat /\ g \in [1..Len(g) -> Bytes]
  BY <1>1, <1>4, OverlayType, LenProperties
<1>6. /\ ~Usable' /\ Contents = h /\ Contents' = g /\ FilePosition' = 0 /\ GivenBack' = <<>>
      /\ GivenBack = port.back /\ FilePosition = Place(port)
  BY <1>1, <1>3, View DEF Usable, Seen
<1> HIDE DEF g, h
<1>7. ASSUME NEW i \in 1..Len(h)
      PROVE  \/ i \in (FP!Position - WriteSize + 1)..FP!Position
             \/ Resize(g, Len(h))[i] = h[i]
  <2>1. CASE port.wbuf # <<>> /\ i \in (port.pos + 1)..(port.pos + Len(port.wbuf))
    <3>1. port.back = <<>> /\ port.rbuf = <<>>
      BY <2>1 DEF PortInv, Directed
    <3>2. Len(port.back) = 0 /\ Len(port.rbuf) = 0
      BY <3>1, EmptySeq
    <3>3. FP!Position = FilePosition - Len(GivenBack) /\ Len(GivenBack) = 0
      BY <1>6, <3>2, SameOperators
    <3>4. FilePosition = port.pos + Len(port.wbuf) - Len(port.rbuf) /\ Len(port.rbuf) = 0
      BY <1>6, <3>2 DEF Place
    <3> DEFINE n == port.pos
               w == Len(port.wbuf)
               x == FP!Position
               a == FilePosition
               l == Len(GivenBack)
               r == Len(port.rbuf)
    <3>5. n \in Nat /\ w \in Nat /\ w <= WriteSize /\ WriteSize \in Nat /\ i \in (n + 1)..(n + w)
      BY <1>1, <2>1, Bounds
    <3>6. x = a - l /\ l = 0 /\ a = n + w - r /\ r = 0
      BY <3>3, <3>4
    <3>7. x = n + w
      <4> HIDE DEF n, w, x, a, l, r
      <4> QED
        BY <3>5, <3>6
    <3> HIDE DEF n, w, x
    <3>8. i \in (x - WriteSize + 1)..x
      BY <3>5, <3>7
    <3> QED
      BY <3>8 DEF x
  <2> QED
    BY <1>4, <2>1
<1>8. FP!Free
  <2>1. FP!End
    BY <1>6 DEF FP!End, FP!Settle
  <2>2. Len(g) \in 0..Len(h)
    BY <1>4, <1>5
  <2> QED
    BY <1>1, <1>5, <1>6, <1>7, <2>1, <2>2, SameOperators DEF FP!Free
<1> QED
  BY <1>1, <1>8 DEF IInv, FP!Next

-----------------------------------------------------------------------------
(* A port whose closing failed: no call on it reaches the file. *)

\* q is such a port, with the file of p.
Kept(q, p) == Dead(q) /\ q.file = p.file

\* The other fields of a port may change.
LEMMA DeadFields ==
    ASSUME NEW p, Dead(p)
    PROVE  /\ p.handle = FALSE /\ Kept(p, p)
           /\ \A x \in {"neither", "read", "write"} : Kept([p EXCEPT !.active = x], p)
           /\ \A x : Kept([p EXCEPT !.wbuf = x], p)
           /\ \A x : Kept([p EXCEPT !.back = x], p)
           /\ \A x : Kept([p EXCEPT !.rbuf = x], p)
           /\ Kept([p EXCEPT !.handle = FALSE], p)
<1> DEFINE f == p.file
           n == p.pos
           r == p.rbuf
           b == p.back
           w == p.wbuf
<1>1. p \in [handle : {FALSE}, file : {f}, pos : {n}, rbuf : {r}, back : {b}, wbuf : {w},
             active : {"neither", "read", "write"}]
  BY DEF Dead
<1>2. f = p.file
  OBVIOUS
<1> HIDE DEF f, n, r, b, w
<1>3. p.handle = FALSE /\ Kept(p, p)
  BY <1>1 DEF Dead, Kept
<1>4. ASSUME NEW x \in {"neither", "read", "write"} PROVE Kept([p EXCEPT !.active = x], p)
  <2> DEFINE q == [p EXCEPT !.active = x]
  <2>1. q \in [handle : {FALSE}, file : {f}, pos : {n}, rbuf : {r}, back : {b}, wbuf : {w},
               active : {"neither", "read", "write"}]
    BY <1>1
  <2> HIDE DEF q
  <2> QED
    BY <1>2, <2>1 DEF Dead, Kept
<1>5. ASSUME NEW x PROVE Kept([p EXCEPT !.wbuf = x], p)
  <2> DEFINE q == [p EXCEPT !.wbuf = x]
  <2>1. q \in [handle : {FALSE}, file : {f}, pos : {n}, rbuf : {r}, back : {b}, wbuf : {x},
               active : {"neither", "read", "write"}]
    BY <1>1
  <2> HIDE DEF q
  <2> QED
    BY <1>2, <2>1 DEF Dead, Kept
<1>6. ASSUME NEW x PROVE Kept([p EXCEPT !.back = x], p)
  <2> DEFINE q == [p EXCEPT !.back = x]
  <2>1. q \in [handle : {FALSE}, file : {f}, pos : {n}, rbuf : {r}, back : {x}, wbuf : {w},
               active : {"neither", "read", "write"}]
    BY <1>1
  <2> HIDE DEF q
  <2> QED
    BY <1>2, <2>1 DEF Dead, Kept
<1>7. ASSUME NEW x PROVE Kept([p EXCEPT !.rbuf = x], p)
  <2> DEFINE q == [p EXCEPT !.rbuf = x]
  <2>1. q \in [handle : {FALSE}, file : {f}, pos : {n}, rbuf : {x}, back : {b}, wbuf : {w},
               active : {"neither", "read", "write"}]
    BY <1>1
  <2> HIDE DEF q
  <2> QED
    BY <1>2, <2>1 DEF Dead, Kept
<1>8. Kept([p EXCEPT !.handle = FALSE], p)
  <2> DEFINE q == [p EXCEPT !.handle = FALSE]
  <2>1. q \in [handle : {FALSE}, file : {f}, pos : {n}, rbuf : {r}, back : {b}, wbuf : {w},
               active : {"neither", "read", "write"}]
    BY <1>1
  <2> HIDE DEF q
  <2> QED
    BY <1>2, <2>1 DEF Dead, Kept
<1> QED
  BY <1>3, <1>4, <1>5, <1>6, <1>7, <1>8

\* The calls that use the handle fail.
LEMMA DeadHandle ==
    ASSUME NEW p, Dead(p)
    PROVE  /\ \A s : WriteAll(p, s) = {Bad(p)}
           /\ \A whence, offset : HandleSeek(p, whence, offset) = {Bad(p)}
           /\ Fill(p) = {Bad(p)}
           /\ \A rs : OfHandle(p, rs) = {Bad(p)}
<1>1. p.handle = FALSE
  BY DeadFields
<1>2. \A rs : OfHandle(p, rs) = {Bad(p)}
  BY <1>1 DEF OfHandle
<1> QED
  BY <1>2 DEF WriteAll, HandleSeek, Fill

\* vport_flush, scm_end_input and vport_write
LEMMA DeadFlush ==
    ASSUME NEW p, Dead(p), NEW r \in VportFlush(p)
    PROVE  Kept(r.port, p) /\ (r.ok \/ r = Bad(p))
<1>1. r = Good([p EXCEPT !.active = "neither"]) \/ r = Bad(p)
  BY DeadHandle DEF VportFlush
<1>2. Kept(p, p) /\ Kept([p EXCEPT !.active = "neither"], p)
  BY DeadFields
<1> QED
  BY <1>1, <1>2 DEF Good, Bad

LEMMA DeadEnd ==
    ASSUME NEW p, Dead(p), NEW r \in EndInput(p)
    PROVE  Kept(r.port, p)
<1> DEFINE q == [p EXCEPT !.back = <<>>, !.rbuf = <<>>]
           u == [q EXCEPT !.pos = p.pos, !.active = "neither"]
<1> DEFINE f == p.file
           n == p.pos
           l == p.rbuf
           b == p.back
           w == p.wbuf
<1>1. p \in [handle : {FALSE}, file : {f}, pos : {n}, rbuf : {l}, back : {b}, wbuf : {w},
             active : {"neither", "read", "write"}]
  BY DEF Dead
<1> HIDE DEF f, l, b, w
<1>2. /\ q \in [handle : {FALSE}, file : {f}, pos : {n}, rbuf : {<<>>}, back : {<<>>}, wbuf : {w},
                active : {"neither", "read", "write"}]
      /\ u \in [handle : {FALSE}, file : {f}, pos : {n}, rbuf : {<<>>}, back : {<<>>}, wbuf : {w},
                active : {"neither"}]
  BY <1>1
<1>3. Kept(q, p) /\ Kept(u, p)
  <2> HIDE DEF q, u
  <2> QED
    BY <1>1, <1>2 DEF Kept, Dead
<1>4. r = Good(u) \/ r = Bad(q)
  <2>1. \A rs : OfHandle(q, rs) = {Bad(q)}
    BY <1>3, DeadHandle DEF Kept
  <2> QED
    BY <2>1 DEF EndInput
<1> QED
  BY <1>3, <1>4 DEF Good, Bad

LEMMA DeadWrite ==
    ASSUME NEW p, Dead(p), NEW s, NEW r \in VportWrite(p, s)
    PROVE  Kept(r.port, p)
<1> DEFINE fits == Smaller(Len(s), Space(p))
           q == [p EXCEPT !.wbuf = p.wbuf \o First(s, fits)]
           rest == Rest(s, fits)
           Remainder(u) == IF Len(s) >= WriteSize /\ rest # <<>> THEN WriteAll(u, rest)
                           ELSE {Good([u EXCEPT !.wbuf = rest])}
<1>1. CASE r \in WriteAll(p, s)
  <2>1. r = Bad(p)
    BY <1>1, DeadHandle
  <2> QED
    BY <2>1, DeadFields DEF Bad
<1>2. CASE r \in IF Len(q.wbuf) = WriteSize
                 THEN UNION {IF t.ok THEN Remainder(t.port) ELSE {t} : t \in VportFlush(q)}
                 ELSE {Good(q)}
  <2>1. Kept(q, p) /\ Dead(q)
    BY DeadFields DEF Kept
  <2> HIDE DEF q, rest
  <2>2. CASE r = Good(q)
    BY <2>1, <2>2 DEF Good
  <2>3. CASE \E t \in VportFlush(q) : r \in IF t.ok THEN Remainder(t.port) ELSE {t}
    <3>1. PICK t \in VportFlush(q) : r \in IF t.ok THEN Remainder(t.port) ELSE {t}
      BY <2>3
    <3>2. Kept(t.port, q) /\ Dead(t.port)
      BY <2>1, DeadFlush DEF Kept
    <3>3. r = t \/ r = Bad(t.port) \/ r = Good([t.port EXCEPT !.wbuf = rest])
      BY <3>1, <3>2, DeadHandle
    <3>4. Kept(t.port, t.port) /\ Kept([t.port EXCEPT !.wbuf = rest], t.port)
      BY <3>2, DeadFields
    <3>5. Kept(r.port, t.port)
      <4>1. r = t \/ r.port = t.port \/ r.port = [t.port EXCEPT !.wbuf = rest]
        BY <3>3 DEF Good, Bad
      <4> QED
        BY <3>4, <4>1
    <3> QED
      BY <2>1, <3>2, <3>5 DEF Kept
  <2> QED
    BY <1>2, <2>2, <2>3
<1> QED
  BY <1>1, <1>2 DEF VportWrite, Then

\* Guile's calls
LEMMA DeadCall ==
    ASSUME CarefulProgram, Dead(port), Call
    PROVE  Kept(port', port) /\ (open' = open \/ open' = FALSE)
<1> DEFINE Ends(rs) == \E r \in rs : Kept(r.port, port) /\ port' = r.port
<1>1. /\ Random /\ Kept(port, port) /\ port.handle = FALSE
      /\ \A q : \A x \in {"neither", "read", "write"} :
           Kept(q, port) => Kept([q EXCEPT !.active = x], port)
  <2>1. ASSUME NEW q, NEW x \in {"neither", "read", "write"}, Kept(q, port) PROVE Kept([q EXCEPT !.active = x], port)
    BY <2>1, DeadFields DEF Kept
  <2> QED
    BY <2>1, DeadFields DEF CarefulProgram
<1>2. /\ \A r \in FlushIfWriting(port) : Kept(r.port, port)
      /\ \A q : Kept(q, port) => \A r \in EndIfReading(q) : Kept(r.port, port)
  <2>1. \A r \in FlushIfWriting(port) : Kept(r.port, port)
    BY <1>1, DeadFlush DEF FlushIfWriting, Good
  <2>2. ASSUME NEW q, Kept(q, port), NEW r \in EndIfReading(q) PROVE Kept(r.port, port)
    <3>1. r \in EndInput(q) \/ r = Good(q)
      BY DEF EndIfReading
    <3>2. Kept(r.port, q) \/ r.port = q
      BY <2>2, <3>1, DeadEnd DEF Kept, Good
    <3> QED
      BY <2>2, <3>2 DEF Kept
  <2> QED
    BY <2>1, <2>2
<1>3. ASSUME Read PROVE Kept(port', port) /\ open' = open
  <2>1. PICK r \in FlushIfWriting(port) :
            IF r.ok THEN Take(Becomes(r.port, "read")) ELSE port' = r.port
    BY <1>3 DEF Read
  <2>2. CASE ~r.ok
    BY <1>2, <1>3, <2>1, <2>2 DEF Read
  <2>3. CASE r.ok
    <3> DEFINE q == Becomes(r.port, "read")
    <3>1. Kept(q, port) /\ Dead(q)
      BY <1>1, <1>2 DEF Becomes, Kept
    <3>2. Take(q)
      BY <2>1, <2>3
    <3> HIDE DEF q
    <3>3. Fill(q) = {Bad(q)}
      BY <3>1, DeadHandle
    <3>4. \/ port' = [q EXCEPT !.back = Tail(q.back)] \/ port' = [q EXCEPT !.rbuf = Tail(q.rbuf)]
          \/ port' = q
      BY <3>1, <3>2, <3>3 DEF Take, Bad, Dead
    <3>5. Kept(port', q)
      BY <3>1, <3>4, DeadFields
    <3> QED
      BY <1>3, <3>1, <3>5 DEF Read, Kept
  <2> QED
    BY <2>2, <2>3
<1>4. ASSUME NEW b, Unread(b) PROVE Kept(port', port) /\ open' = open
  <2> DEFINE q == [port EXCEPT !.back = <<b>> \o @]
  <2>1. Kept(q, port)
    BY DeadFields
  <2>2. port' = Becomes(q, "read") /\ open' = open
    BY <1>4 DEF Unread
  <2> HIDE DEF q
  <2> QED
    BY <1>1, <2>1, <2>2 DEF Becomes
<1>5. ASSUME NEW s, Write(s) PROVE Kept(port', port) /\ open' = open
  <2> DEFINE Put1(p) == {IF u.ok THEN Good(Becomes(u.port, "write")) ELSE u : u \in VportWrite(p, s)}
  <2>1. PICK t \in EndIfReading(port) :
            \E r \in IF t.ok THEN Put1(t.port) ELSE {t} : port' = r.port
    BY <1>5 DEF Write, Finish, Then
  <2>2. Kept(t.port, port)
    BY <1>1, <1>2
  <2>3. ASSUME NEW r \in Put1(t.port) PROVE Kept(r.port, port)
    <3>1. PICK u \in VportWrite(t.port, s) : r = IF u.ok THEN Good(Becomes(u.port, "write")) ELSE u
      BY <2>3
    <3>2. Kept(u.port, port)
      BY <2>2, DeadWrite DEF Kept
    <3> QED
      BY <1>1, <3>1, <3>2 DEF Good, Becomes
  <2> HIDE DEF Put1
  <2> QED
    BY <1>5, <2>1, <2>2, <2>3 DEF Write, Finish
<1>6. ASSUME NEW whence, NEW offset, Seek(whence, offset) PROVE Kept(port', port) /\ open' = open
  <2> DEFINE Move(q) == HandleSeek(q, whence, offset)
  <2>1. PICK t \in BeforeSeek(port) : \E r \in IF t.ok THEN Move(t.port) ELSE {t} : port' = r.port
    BY <1>6 DEF Seek, VportSeek, Then
  <2>2. Kept(t.port, port)
    <3>1. t = Good(port) \/ t \in VportFlush(port) \/ t \in EndInput(port)
      BY <2>1 DEF BeforeSeek, Dead
    <3> QED
      BY <1>1, <3>1, DeadFlush, DeadEnd DEF Good
  <2>3. Move(t.port) = {Bad(t.port)}
    BY <2>2, DeadHandle DEF Kept
  <2> HIDE DEF Move
  <2> QED
    BY <1>6, <2>1, <2>2, <2>3 DEF Seek, Bad
<1>7. ASSUME Tell PROVE Kept(port', port) /\ open' = open
  BY <1>1, <1>7 DEF Tell
<1>8. ASSUME NEW n, Truncate(n) PROVE Kept(port', port) /\ open' = open
  <2> DEFINE Resized(p) == OfHandle(p, {Good([p EXCEPT !.file = Resize(p.file, n)]), Bad(p)})
             Settling == Then(FlushIfWriting(port), EndIfReading)
  <2>1. Finish(UNION {IF t.ok THEN Resized(t.port) ELSE {t} : t \in Settling})
    <3>1. Finish(Then(Settling, Resized))
      BY <1>8, Zenon DEF Truncate
    <3> QED
      BY <3>1, Zenon DEF Then
  <2> HIDE DEF Settling, Resized
  <2>2. PICK t \in Settling : \E r \in IF t.ok THEN Resized(t.port) ELSE {t} : port' = r.port
    BY <2>1 DEF Finish
  <2>3. Kept(t.port, port)
    <3>1. PICK u \in FlushIfWriting(port) : t \in IF u.ok THEN EndIfReading(u.port) ELSE {u}
      BY DEF Settling, Then
    <3> QED
      BY <1>2, <3>1
  <2>4. Resized(t.port) = {Bad(t.port)}
    BY <2>3, DeadHandle DEF Kept, Resized
  <2> QED
    BY <2>1, <2>2, <2>3, <2>4 DEF Finish, Bad
<1>9. ASSUME ForceOutput PROVE Kept(port', port) /\ open' = open
  BY <1>9, DeadFlush DEF ForceOutput, Finish
<1>10. ASSUME Close PROVE Kept(port', port) /\ open' = open
  <2>1. PICK r \in VportFlush(port) :
            port' = (IF r.ok THEN [r.port EXCEPT !.handle = FALSE] ELSE r.port) /\ UNCHANGED open
    BY <1>1, <1>10 DEF Close
  <2>2. Kept(r.port, port)
    BY DeadFlush
  <2> QED
    BY <2>1, <2>2, DeadFields DEF Kept
<1>11. ASSUME Free PROVE Kept(port', port) /\ open' = FALSE
  <2>1. port' = [PutBytes(port, First(port.wbuf, 0))
                  EXCEPT !.handle = FALSE, !.rbuf = <<>>, !.back = <<>>, !.wbuf = <<>>]
    BY <1>1, <1>11 DEF Free
  <2>2. First(port.wbuf, 0) = <<>>
    BY DEF First
  <2>3. PutBytes(port, <<>>).file = port.file
    BY DEF PutBytes, Overlay, Dead
  <2> QED
    BY <1>11, <2>1, <2>2, <2>3 DEF Free, PutBytes, Dead, Kept
<1> QED
  BY <1>3, <1>4, <1>5, <1>6, <1>7, <1>8, <1>9, <1>10, <1>11 DEF Call

\* FilePort lets a port that is not usable answer anything, and keeps the file.
LEMMA DeadStep ==
    ASSUME CarefulProgram, IInv, open, Dead(port), Call
    PROVE  IInv' /\ FP!Next
<1>1. Kept(port', port) /\ open' \in BOOLEAN
  BY DeadCall DEF IInv
<1>2. Dead(port') /\ port'.handle = FALSE /\ port.handle = FALSE /\ port'.file = port.file
  BY <1>1, DeadFields DEF Kept
<1>3. ~Usable /\ ~Usable'
  BY <1>2 DEF Usable
<1>4. UNCHANGED <<Contents, FilePosition, GivenBack>>
  BY <1>2, <1>3, View
<1>5. FP!Next
  <2>1. Usable = FALSE /\ Usable' = FALSE
    BY <1>2 DEF Usable
  <2>2. FP!Unusable
    BY <1>3, <1>4, <2>1 DEF FP!Unusable
  <2> QED
    BY <1>3, <2>2 DEF FP!Next
<1> QED
  BY <1>1, <1>2, <1>5 DEF IInv

\* The states in which a port is opened
LEMMA InitSafe == Init => IInv /\ FP!Init
<1> SUFFICES ASSUME Init PROVE IInv /\ FP!Init
  OBVIOUS
<1>1. /\ port.file \in Files(MaxLen) /\ port.pos = 0 /\ port.rbuf = <<>> /\ port.back = <<>>
      /\ port.wbuf = <<>> /\ port.active = "neither" /\ open = TRUE
      /\ result = [kind |-> "ok", value |-> 0]
      /\ port = [file |-> port.file, pos |-> 0, rbuf |-> <<>>, back |-> <<>>, wbuf |-> <<>>,
                 active |-> "neither", handle |-> TRUE]
  BY DEF Init
<1>2. PICK n \in 0..MaxLen : port.file \in [1..n -> Bytes]
  BY <1>1 DEF Files
<1>3. port.file \in Seq(Bytes) /\ Len(port.file) <= MaxLen
  <2> DEFINE f == port.file
  <2>1. n \in Nat /\ n <= MaxLen /\ f \in [1..n -> Bytes]
    BY <1>2, Bounds
  <2> HIDE DEF f
  <2>2. f \in Seq(Bytes) /\ Len(f) = n
    BY <2>1, SeqDef
  <2> QED
    BY <2>1, <2>2 DEF f
<1>4. port \in PortType /\ Len(port.wbuf) = 0
  <2>1. PICK e \in Seq(Bytes) : e = <<>> /\ Len(e) = 0
    BY EmptySeq
  <2>2. PICK f \in Seq(Bytes) : f = port.file
    BY <1>3
  <2>3. /\ port = [file |-> f, pos |-> 0, rbuf |-> e, back |-> e, wbuf |-> e,
                   active |-> "neither", handle |-> TRUE]
        /\ port.wbuf = e
    BY <1>1, <2>1, <2>2
  <2>4. port \in PortType
    BY <2>3 DEF PortType
  <2> QED
    BY <2>1, <2>3, <2>4
<1>5. WriteReady(port)
  BY <1>1, <1>3, <1>4, Bounds DEF WriteReady, Bounded
<1>6. PortInv(port) /\ Seen(port) = port.file /\ Place(port) = 0
  BY <1>1, <1>5, Ready, SeenType
<1>7. FP!Init
  BY <1>1, <1>2, <1>6, View DEF FP!Init
<1> QED
  BY <1>1, <1>6, <1>7 DEF IInv

\* Every call is one of FilePort's.
LEMMA StepSafe == CarefulProgram /\ IInv /\ [Next]_vars => IInv' /\ [FP!Next]_FP!vars
<1> SUFFICES ASSUME CarefulProgram, IInv, [Next]_vars PROVE IInv' /\ [FP!Next]_FP!vars
  OBVIOUS
<1>1. CASE UNCHANGED vars
  <2>1. port' = port /\ open' = open /\ result' = result
    BY <1>1 DEF vars
  <2>2. UNCHANGED <<Contents, FilePosition, GivenBack, Usable>>
    BY <2>1, Zenon DEF Contents, FilePosition, GivenBack, Usable, Overlay, Larger
  <2> QED
    BY <2>1, <2>2 DEF IInv, FP!vars, PortInv
<1>2. CASE Next
  <2>1. open /\ Call /\ (PortInv(port) \/ Dead(port))
    BY <1>2 DEF Next, IInv
  <2>2. ASSUME PortInv(port), NEW whence \in {"set", "cur", "end"}, NEW offset \in -2..MaxLen,
               Seek(whence, offset)
        PROVE  IInv' /\ FP!Next
    <3>1. offset \in Int
      BY Bounds
    <3> QED
      BY <2>1, <2>2, <3>1, SeekStep
  <2>3. CASE PortInv(port)
    BY <2>1, <2>2, <2>3, ReadStep, TellStep, ForceStep, CloseStep, FreeStep, UnreadStep, WriteStep,
       TruncateStep DEF Call
  <2>4. CASE Dead(port)
    BY <2>1, <2>4, DeadStep
  <2> QED
    BY <2>1, <2>3, <2>4
<1> QED
  BY <1>1, <1>2 DEF Next

\* IInv holds in every state.
LEMMA Invariant == ASSUME CarefulProgram PROVE Spec => []IInv
<1>1. Init => IInv
  BY InitSafe
<1>2. IInv /\ [Next]_vars => IInv'
  BY StepSafe
<1> QED
  BY <1>1, <1>2, PTL DEF Spec

\* A port that was opened with the random mode is, for a careful program, an
\* unbuffered file: whatever the sizes of its buffers and of the file, and
\* whichever calls on the handle are cut short or fail, no byte is lost,
\* repeated or misplaced but those that a failing call had read ahead
\* (vport_fill_input, vport_write, vport_flush, vport_end_input, vport_seek,
\* vport_truncate, vport_close, vport_free).
THEOREM PortIsFile == ASSUME CarefulProgram PROVE Spec => RefinesFilePort
<1>1. Init => FP!Init
  BY InitSafe
<1>2. IInv /\ [Next]_vars => [FP!Next]_FP!vars
  BY StepSafe
<1> QED
  BY <1>1, <1>2, Invariant, PTL DEF Spec, FP!Spec, RefinesFilePort

\* While the port has its handle, one buffer at most is in use and rw_active
\* names it (vport_flush, vport_end_input and Guile's port layer set it), after
\* a seek of vport_end_input that fails too.
THEOREM OneBufferInUse == ASSUME CarefulProgram PROVE Spec => [](Usable => ActiveNamesBuffer)
<1>1. IInv => (Usable => ActiveNamesBuffer)
  <2> SUFFICES ASSUME IInv, Usable PROVE ActiveNamesBuffer
    OBVIOUS
  <2>1. PortInv(port)
    BY DeadFields DEF IInv, Usable
  <2> QED
    BY <2>1 DEF PortInv, Directed, ActiveNamesBuffer
<1> QED
  BY <1>1, Invariant, PTL

\* The position that (seek port 0 SEEK_CUR) gives is that of the program,
\* whatever is buffered and whatever failed before: the next byte is read or
\* written there.
THEOREM PositionIsPrograms == ASSUME CarefulProgram PROVE Spec => TellAccountsForBuffers
<1>1. ASSUME IInv, [Next]_vars, ~UNCHANGED vars, Usable', UNCHANGED port, result'.kind = "position"
      PROVE  result'.value = FilePosition - Len(GivenBack)
  <2>1. FP!Next /\ Usable /\ PortInv(port)
    <3>1. open /\ ~UNCHANGED vars
      BY <1>1 DEF Next, vars
    <3>2. Usable
      BY <1>1, <3>1 DEF Usable
    <3>3. PortInv(port)
      BY <1>1, <3>2, DeadFields DEF IInv, Usable
    <3>4. ~UNCHANGED FP!vars
      <4> SUFFICES ASSUME UNCHANGED FP!vars PROVE FALSE
        OBVIOUS
      <4>1. result' = result /\ open' = open
        BY <1>1, <3>2 DEF FP!vars, Usable, IInv
      <4> QED
        BY <1>1, <4>1 DEF vars
    <3> QED
      BY <1>1, <3>2, <3>3, <3>4, StepSafe
  <2>2. FP!Tell \/ \E n \in 0..MaxLen : FP!SeekTo(n)
    <3>1. ASSUME NEW kind, NEW value, FP!Answer(kind, value) PROVE kind = "position"
      BY <1>1, <3>1 DEF FP!Answer
    <3>2. ~FP!ReadBack /\ ~FP!Force /\ ~FP!Fail
      BY <3>1 DEF FP!ReadBack, FP!Force, FP!Fail
    <3>3. ~FP!ReadFile
      BY <3>1 DEF FP!ReadFile
    <3>4. ASSUME NEW b PROVE ~FP!Unread(b)
      BY <3>1 DEF FP!Unread
    <3>5. ASSUME NEW s PROVE ~FP!Write(s)
      BY <3>1 DEF FP!Write
    <3>6. ASSUME NEW n PROVE ~FP!Truncate(n)
      BY <3>1 DEF FP!Truncate
    <3>7. ~FP!Close /\ ~FP!Free
      BY <1>1 DEF FP!Close, FP!Free, FP!End
    <3>8. FP!Call
      BY <2>1, <3>7 DEF FP!Next
    <3> QED
      BY <3>2, <3>3, <3>4, <3>5, <3>6, <3>8 DEF FP!Call
  <2>3. CASE FP!Tell
    BY <2>3 DEF FP!Tell, FP!Answer, FP!Position
  <2>4. ASSUME NEW n \in 0..MaxLen, FP!SeekTo(n)
        PROVE  result'.value = FilePosition - Len(GivenBack)
    <3>1. FP!Answer("position", n)
      <4>1. ~FP!Answer("error", 0)
        BY <1>1 DEF FP!Answer
      <4> QED
        BY <2>4, <4>1 DEF FP!SeekTo
    <3>2. /\ FilePosition' = n /\ GivenBack' = <<>> /\ result'.value = n /\ n \in Nat
      BY <2>4, <3>1, Bounds DEF FP!SeekTo, FP!Settle, FP!Answer
    <3>3. UNCHANGED <<FilePosition, GivenBack>>
      <4>1. Usable' = Usable
        BY <1>1, <2>1 DEF Usable
      <4> QED
        BY <1>1, <4>1 DEF FilePosition, GivenBack
    <3>4. FilePosition = n /\ GivenBack = <<>> /\ Len(GivenBack) = 0
      BY <3>2, <3>3, EmptySeq
    <3> QED
      BY <3>2, <3>4
  <2> QED
    BY <2>2, <2>3, <2>4
<1> QED
  BY <1>1, Invariant, PTL DEF Spec, TellAccountsForBuffers
=============================================================================
