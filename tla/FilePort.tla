------------------------------ MODULE FilePort ------------------------------
(***************************************************************************)
(* What a port on a file promises to the Scheme program, buffers left out: *)
(* it reads and writes at one position of one sequence of bytes, and bytes *)
(* given back are read again before the file goes on.  A call that fails   *)
(* writes no more than a part of what it was given, and moves the program  *)
(* no further than what had been read ahead.                               *)
(***************************************************************************)
EXTENDS Integers, Sequences

CONSTANTS
    Bytes, Hole, MaxLen,
    ReadSize,     \* how much is read ahead at most
    WriteSize     \* how much is written later at most

VARIABLES
    data,     \* the bytes of the file, as the program sees them
    at,       \* the position in them, bytes given back not counted
    back,     \* the bytes given back, the first to be read first
    usable,   \* the port has not been closed
    result    \* what the last call returned

vars == <<data, at, back, usable, result>>

Larger(m, n) == IF m > n THEN m ELSE n

\* The sequence f with s written over it after its first n bytes.
Overlay(f, n, s) ==
    IF s = <<>> THEN f
    ELSE [k \in 1..Larger(Len(f), n + Len(s)) |->
            IF k \in (n + 1)..(n + Len(s)) THEN s[k - n]
            ELSE IF k <= Len(f) THEN f[k] ELSE Hole]

Resize(f, n) == [k \in 1..n |-> IF k <= Len(f) THEN f[k] ELSE Hole]

Answer(kind, value) == result' = [kind |-> kind, value |-> value]

\* The position the program sees.
Position == at - Len(back)

Init ==
    /\ data \in UNION {[1..n -> Bytes] : n \in 0..MaxLen}
    /\ at = 0
    /\ back = <<>>
    /\ usable = TRUE
    /\ result = [kind |-> "ok", value |-> 0]

ReadBack ==
    /\ back # <<>>
    /\ Answer("byte", Head(back))
    /\ back' = Tail(back)
    /\ UNCHANGED <<data, at>>

ReadFile ==
    /\ back = <<>>
    /\ IF at < Len(data)
       THEN Answer("byte", data[at + 1]) /\ at' = at + 1
       ELSE Answer("eof", 0) /\ UNCHANGED at
    /\ UNCHANGED <<data, back>>

Unread(b) ==
    /\ back' = <<b>> \o back
    /\ Answer("ok", 0)
    /\ UNCHANGED <<data, at>>

\* All calls but reads and unreads first drop the bytes given back.
Settle == back' = <<>>

\* An error may be reported for bytes that did reach the file.
Write(s) ==
    \E k \in 0..Len(s) :
        /\ Position >= 0
        /\ data' = Overlay(data, Position, SubSeq(s, 1, k))
        /\ at' = Position + k
        /\ Settle
        /\ \/ Answer("error", 0)
           \/ k = Len(s) /\ Answer("ok", 0)

SeekTo(n) ==
    /\ at' = n
    /\ Settle
    /\ Answer("position", n) \/ Answer("error", 0)
    /\ UNCHANGED data

Tell ==
    /\ Answer("position", Position)
    /\ UNCHANGED <<data, at, back>>

Truncate(n) ==
    /\ Position >= 0
    /\ data' = Resize(data, n)
    /\ at' = Position
    /\ Settle
    /\ Answer("ok", 0)

Force ==
    /\ Answer("ok", 0)
    /\ UNCHANGED <<data, at, back>>

\* A call that fails changes nothing, or drops the bytes given back and goes
\* to where the program was, or past what had been read ahead.
Fail ==
    /\ Answer("error", 0)
    /\ \/ UNCHANGED <<at, back>>
       \/ Position >= 0 /\ at' = Position /\ Settle
       \/ \E k \in 0..ReadSize : at' = at + k /\ Settle
    /\ UNCHANGED data

End == usable' = FALSE /\ at' = 0 /\ Settle

\* An error may be reported when all the bytes are in the file.
Close ==
    /\ End
    /\ Answer("ok", 0) \/ Answer("error", 0)
    /\ UNCHANGED data

\* The collector frees the port: only the bytes that the program wrote last
\* may be missing.
Free ==
    /\ End
    /\ \E n \in 0..Len(data) : data' \in [1..n -> Bytes]
    /\ \A k \in 1..Len(data) :
          \/ k \in (Position - WriteSize + 1)..Position
          \/ Resize(data', Len(data))[k] = data[k]
    /\ UNCHANGED result

\* Calls on a port that is not usable leave the file alone.
Unusable == UNCHANGED <<data, at, back, usable>>

Strings == UNION {[1..n -> Bytes] : n \in 1..MaxLen}

Call ==
    \/ ReadBack \/ ReadFile \/ Tell \/ Force \/ Fail
    \/ \E b \in Bytes : Unread(b)
    \/ \E s \in Strings : Write(s)
    \/ \E n \in 0..MaxLen : SeekTo(n) \/ Truncate(n)

Next ==
    \/ usable /\ ((Call /\ UNCHANGED usable) \/ Close \/ Free)
    \/ ~usable /\ Unusable

Spec == Init /\ [][Next]_vars
=============================================================================
