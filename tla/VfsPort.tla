------------------------------- MODULE VfsPort -------------------------------
(***************************************************************************)
(* gnome-vfs/gnome/gw/gnome-vfs-port.c: a GnomeVFSHandle as a Scheme port  *)
(* that is read and written, with a read buffer, a write buffer and the    *)
(* put-back buffer of Guile's port layer.                                  *)
(*                                                                         *)
(* The operators take a port to the set of its outcomes, one per way the   *)
(* handle can behave, and compose as the C functions call each other.  The *)
(* actions are Guile's calls (ports.c, external): they flush or end input  *)
(* when the direction changes, as rw_active says, and then call the port   *)
(* type.                                                                   *)
(***************************************************************************)
EXTENDS Integers, Sequences

CONSTANTS
    Bytes,      \* what a file is made of
    Hole,       \* the byte that fills a gap
    ReadSize,   \* pt->read_buf_size
    WriteSize,  \* pt->write_buf_size
    Random,     \* mode & GNOME_VFS_OPEN_RANDOM
    Env,        \* which of EnvChoices the program and the handle do
    MaxLen,     \* bound: length of a file
    MaxBack,    \* bound: bytes given back at a time
    MaxWrite    \* bound: bytes written by one call

\* "forceReading": the program forces the output of a port it reads from.
EnvChoices == {"forceReading"}

ASSUME HoleAssumption == Hole \in Bytes
ASSUME SizesAssumption ==
    /\ ReadSize \in Nat \ {0} /\ WriteSize \in Nat \ {0}
    /\ MaxLen \in Nat /\ MaxBack \in Nat /\ MaxWrite \in Nat
ASSUME ModeAssumption == Random \in BOOLEAN /\ Env \subseteq EnvChoices

VARIABLES
    port,     \* the port and its handle
    open,     \* Guile has not closed the port
    result    \* what the last call returned

vars == <<port, open, result>>

Files(n) == UNION {[1..k -> Bytes] : k \in 0..n}

Ports == [handle : BOOLEAN,                \* SCM_STREAM (port) is not NULL
          file : Files(MaxLen),            \* what is in the file system
          pos : 0..MaxLen,                 \* position of the handle
          rbuf : Files(ReadSize),          \* read_pos .. read_end
          back : Files(MaxBack),           \* the put-back buffer
          wbuf : Files(WriteSize),         \* write_buf .. write_pos
          active : {"neither", "read", "write"}]

Kinds == {"ok", "error", "eof", "byte", "position"}

TypeOK ==
    /\ port \in Ports
    /\ open \in BOOLEAN
    /\ result \in [kind : Kinds, value : Int]

Init ==
    /\ port \in [handle : {TRUE}, file : Files(MaxLen), pos : {0}, rbuf : {<<>>},
                 back : {<<>>}, wbuf : {<<>>}, active : {"neither"}]
    /\ open = TRUE
    /\ result = [kind |-> "ok", value |-> 0]

-----------------------------------------------------------------------------
\* The handle: bytes are read and written at its position.

Larger(m, n) == IF m > n THEN m ELSE n
Smaller(m, n) == IF m < n THEN m ELSE n

Overlay(f, n, s) ==
    IF s = <<>> THEN f
    ELSE [k \in 1..Larger(Len(f), n + Len(s)) |->
            IF k \in (n + 1)..(n + Len(s)) THEN s[k - n]
            ELSE IF k <= Len(f) THEN f[k] ELSE Hole]

Resize(f, n) == [k \in 1..n |-> IF k <= Len(f) THEN f[k] ELSE Hole]

First(s, k) == SubSeq(s, 1, k)
Rest(s, k) == SubSeq(s, k + 1, Len(s))

PutBytes(p, s) ==
    [p EXCEPT !.file = Overlay(p.file, p.pos, s), !.pos = @ + Len(s)]

Good(p) == [port |-> p, ok |-> TRUE]
Bad(p) == [port |-> p, ok |-> FALSE]

\* What GnomeVFS answers of the handle of p; of NULL it answers an error.
OfHandle(p, rs) == IF p.handle THEN rs ELSE {Bad(p)}

\* The outcomes of f after those of the set rs that succeeded.
Then(rs, f(_)) == UNION {IF r.ok THEN f(r.port) ELSE {r} : r \in rs}

-----------------------------------------------------------------------------
\* The port type.  An error leaves the port as the C code had it when
\* RESULT_ERROR or CHECK_RESULT threw.  Any call on the handle may fail.

\* Mutant: Successful writes before a failing one stay in the buffer.
FlushKeepsAll(p) ==
    IF p.wbuf = <<>> THEN {Good([p EXCEPT !.active = "neither"])}
    ELSE OfHandle(p,
           {Good([PutBytes(p, p.wbuf) EXCEPT !.wbuf = <<>>, !.active = "neither"])}
           \cup {Bad(PutBytes(p, First(p.wbuf, k))) : k \in 0..(Len(p.wbuf) - 1)})

\* Each gnome_vfs_write of the loop may be partial, and the last may fail:
\* k bytes are then in the file, and the buffer keeps the others.
VportFlush(p) ==
    IF p.wbuf = <<>> THEN {Good([p EXCEPT !.active = "neither"])}
    ELSE OfHandle(p,
           {Good([PutBytes(p, p.wbuf) EXCEPT !.wbuf = <<>>, !.active = "neither"])}
           \cup {Bad([PutBytes(p, First(p.wbuf, k)) EXCEPT !.wbuf = Rest(p.wbuf, k)]) :
                   k \in 0..(Len(p.wbuf) - 1)})

WriteAll(p, s) ==
    OfHandle(p, {Good(PutBytes(p, s))}
                \cup {Bad(PutBytes(p, First(s, k))) : k \in 0..(Len(s) - 1)})

Space(p) == WriteSize - Len(p.wbuf)

VportWrite(p, s) ==
    IF p.wbuf = <<>> /\ Len(s) >= WriteSize
    THEN WriteAll(p, s)
    ELSE LET fits == Smaller(Len(s), Space(p))
             q == [p EXCEPT !.wbuf = @ \o First(s, fits)]
             rest == Rest(s, fits)
             Remainder(r) == IF Len(s) >= WriteSize /\ rest # <<>>
                             THEN WriteAll(r, rest)
                             ELSE {Good([r EXCEPT !.wbuf = rest])}
         IN IF Len(q.wbuf) = WriteSize
            THEN Then(VportFlush(q), Remainder)
            ELSE {Good(q)}

\* scm_end_input drops the put-back buffer, vport_end_input the read
\* buffer; the handle then goes back over the bytes that were not read.  A
\* seek that fails leaves it after them: they are skipped.
EndInput(p) ==
    LET unread == Len(p.back) + Len(p.rbuf)
        q == [p EXCEPT !.back = <<>>, !.rbuf = <<>>]
        Idle(n) == Good([q EXCEPT !.pos = n, !.active = "neither"])
    IN IF unread = 0 THEN {Idle(p.pos)}
       ELSE OfHandle(q, {Bad(q)} \cup {Idle(n) : n \in {p.pos - unread} \cap Nat})

Target(p, whence, offset) ==
    offset + CASE whence = "set" -> 0
               [] whence = "cur" -> p.pos
               [] whence = "end" -> Len(p.file)

\* gnome_vfs_seek fails, or gnome_vfs_tell after it, or both succeed.
HandleSeek(p, whence, offset) ==
    LET moved == {[p EXCEPT !.pos = n] : n \in {Target(p, whence, offset)} \cap Nat}
    IN OfHandle(p, {Bad(p)} \cup {Good(q) : q \in moved} \cup {Bad(q) : q \in moved})

\* What vport_seek does before it moves the handle.
BeforeSeek(p) ==
    CASE p.active = "write" -> VportFlush(p)
      [] p.active = "read" -> EndInput(p)
      [] p.active = "neither" -> {Good(p)}

VportSeek(p, whence, offset) ==
    LET Move(q) == HandleSeek(q, whence, offset)
    IN Then(BeforeSeek(p), Move)

\* (seek port 0 SEEK_CUR): the handle stays, the buffers are accounted for.
VportTell(p) ==
    CASE p.active = "write" -> p.pos + Len(p.wbuf)
      [] p.active = "read" -> p.pos - Len(p.rbuf) - Len(p.back)
      [] p.active = "neither" -> p.pos

\* vport_fill_input: gnome_vfs_read fails, or is at the end of the file, or
\* gives one byte or more, as many as the buffer holds.
Fill(p) ==
    OfHandle(p,
      {Bad(p)} \cup (IF p.pos >= Len(p.file) THEN {Good(p)} ELSE {})
      \cup {Good([p EXCEPT !.pos = @ + k, !.rbuf = SubSeq(p.file, p.pos + 1, p.pos + k)]) :
              k \in 1..Smaller(ReadSize, Len(p.file) - p.pos)})

-----------------------------------------------------------------------------
\* Guile's port layer.

Answer(kind, value) == result' = [kind |-> kind, value |-> value]

\* The call ends in one of the outcomes rs.
Finish(rs) ==
    \E r \in rs :
        /\ port' = r.port
        /\ Answer(IF r.ok THEN "ok" ELSE "error", 0)
        /\ UNCHANGED open

Becomes(p, dir) == IF Random THEN [p EXCEPT !.active = dir] ELSE p

FlushIfWriting(p) == IF p.active = "write" THEN VportFlush(p) ELSE {Good(p)}
EndIfReading(p) == IF p.active = "read" THEN EndInput(p) ELSE {Good(p)}

Take(p) ==
    \/ /\ p.back # <<>>
       /\ port' = [p EXCEPT !.back = Tail(@)]
       /\ Answer("byte", Head(p.back))
    \/ /\ p.back = <<>> /\ p.rbuf # <<>>
       /\ port' = [p EXCEPT !.rbuf = Tail(@)]
       /\ Answer("byte", Head(p.rbuf))
    \/ /\ p.back = <<>> /\ p.rbuf = <<>>
       /\ \E r \in Fill(p) :
            LET q == r.port
            IN IF r.ok /\ q.rbuf # <<>>
               THEN port' = [q EXCEPT !.rbuf = Tail(@)] /\ Answer("byte", Head(q.rbuf))
               ELSE port' = p /\ Answer(IF r.ok THEN "eof" ELSE "error", 0)

\* (read-char port), one byte per character.
Read ==
    /\ \E r \in FlushIfWriting(port) :
        IF r.ok THEN Take(Becomes(r.port, "read"))
        ELSE port' = r.port /\ Answer("error", 0)
    /\ UNCHANGED open

\* (unread-char c port), by a program that reads.
Unread(b) ==
    /\ port.wbuf = <<>>
    /\ Len(port.back) < MaxBack
    /\ port' = Becomes([port EXCEPT !.back = <<b>> \o @], "read")
    /\ Answer("ok", 0)
    /\ UNCHANGED open

\* (display s port)
Write(s) ==
    LET Put(p) == {IF r.ok THEN Good(Becomes(r.port, "write")) ELSE r : r \in VportWrite(p, s)}
    IN /\ port.pos + Len(port.wbuf) + Len(s) <= MaxLen
       /\ Finish(Then(EndIfReading(port), Put))

Seek(whence, offset) ==
    /\ ~(whence = "cur" /\ offset = 0)
    /\ \E r \in VportSeek(port, whence, offset) :
        /\ r.port.pos <= MaxLen
        /\ port' = r.port
        /\ IF r.ok THEN Answer("position", r.port.pos) ELSE Answer("error", 0)
    /\ UNCHANGED open

Tell ==
    /\ \/ port.handle /\ Answer("position", VportTell(port))
       \/ Answer("error", 0)
    /\ UNCHANGED <<port, open>>

\* (truncate-file port n)
Truncate(n) ==
    LET Direction(p) == Then(FlushIfWriting(p), EndIfReading)
        Cut(p) == OfHandle(p, {Good([p EXCEPT !.file = Resize(p.file, n)]), Bad(p)})
    IN Finish(Then(Direction(port), Cut))

\* (force-output port) goes straight to the port type.
ForceOutput ==
    /\ port.active # "read" \/ "forceReading" \in Env
    /\ Finish(VportFlush(port))

\* (close-port port).  When gnome_vfs_close fails the handle is gone, and the
\* throw leaves the port open.
Close ==
    \E r \in VportFlush(port) :
        \/ /\ r.ok /\ port.handle
           /\ port' = [r.port EXCEPT !.handle = FALSE, !.rbuf = <<>>, !.back = <<>>]
           /\ open' = FALSE
           /\ Answer("ok", 0)
        \/ /\ port' = IF r.ok THEN [r.port EXCEPT !.handle = FALSE] ELSE r.port
           /\ UNCHANGED open
           /\ Answer("error", 0)

\* vport_free, in the collector: errors are ignored, and the bytes after them
\* are lost.
Free ==
    \E k \in {n \in 0..Len(port.wbuf) : port.handle \/ n = 0} :
        /\ port' = [PutBytes(port, First(port.wbuf, k))
                      EXCEPT !.handle = FALSE, !.rbuf = <<>>, !.back = <<>>, !.wbuf = <<>>]
        /\ open' = FALSE
        /\ UNCHANGED result

Strings == UNION {[1..n -> Bytes] : n \in 1..MaxWrite}

Call ==
    \/ Read \/ Tell \/ ForceOutput \/ Close \/ Free
    \/ \E b \in Bytes : Unread(b)
    \/ \E s \in Strings : Write(s)
    \/ \E whence \in {"set", "cur", "end"}, offset \in -2..MaxLen : Seek(whence, offset)
    \/ \E n \in 0..MaxLen : Truncate(n)

Next == open /\ Call

Spec == Init /\ [][Next]_vars

-----------------------------------------------------------------------------
\* What the program sees, while there is a handle: the bytes and the position
\* with what is pending.
Usable == open /\ port.handle
Contents == IF Usable THEN Overlay(port.file, port.pos, port.wbuf) ELSE port.file
FilePosition == IF Usable THEN port.pos + Len(port.wbuf) - Len(port.rbuf) ELSE 0
GivenBack == IF Usable THEN port.back ELSE <<>>

FP == INSTANCE FilePort
        WITH data <- Contents, at <- FilePosition, back <- GivenBack, usable <- Usable

\* The port is a transparent view of a file (doc/overview.texi): no order of
\* reads, writes, seeks and truncations, each of which may fail, loses,
\* repeats or misplaces a byte but those that a failing call had read ahead,
\* and closing writes what is pending.
RefinesFilePort == FP!Spec

\* rw_active, by which Guile decides what to flush before it changes the
\* direction, names the buffer in use, and only one is in use.
ActiveNamesBuffer ==
    /\ port.wbuf # <<>> => port.active = "write" /\ port.rbuf = <<>> /\ port.back = <<>>
    /\ port.rbuf # <<>> \/ port.back # <<>> => port.active = "read"

\* What vport_seek says of its SEEK_CUR branches: the position is that of
\* the program, not that of the handle.
TellAccountsForBuffers ==
    [][Usable' /\ result'.kind = "position" /\ UNCHANGED port
        => result'.value = FilePosition - Len(GivenBack)]_vars

\* What vport_end_input says it does: the position is adjusted for the bytes
\* that are cleared from the read buffer, so an error skips none of them.  A
\* seek that fails there breaks it.
ClearingSkipsNothing ==
    [][port.active = "read" /\ port'.active = "read" /\ result'.kind = "error"
        => FilePosition' <= FilePosition]_vars
=============================================================================
