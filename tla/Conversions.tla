---------------------------- MODULE Conversions ----------------------------
(***************************************************************************)
(* A program that moves values between C and Scheme, in any order: values  *)
(* (Values), parameter specifications (Params), GConf values (GConfValues) *)
(* and CORBA values (CorbaValues).  The C side holds one thing at a time; what Scheme got   *)
(* from it, the program may set again.                                     *)
(***************************************************************************)
EXTENDS Params, GConfValues, CorbaValues

CONSTANTS VTypes,    \* the GTypes of the values
          CValues,   \* [VTypes -> what C code may store in a GValue of it]
          Inputs,    \* the Scheme values that a program gives
          CParams,   \* the parameter specifications that C code makes
          NewParams, \* the slots a program makes a <gparam> with
          CGConfs,   \* the GConf values in the database
          CorbaTypes,  \* TypeCodes of structs and sequences
          CorbaInputs, \* the Scheme values that a program gives their members
          CCorbas,     \* the <<TypeCode, value>> that reach a program
          MaxLength    \* bound: the length of a sequence

VARIABLES
    registered, \* the enumerations and flags types known to GLib
    value,      \* the GValue, [type, c]
    param,      \* the GParamSpec
    gconf,      \* the GConfValue
    corba,      \* the Scheme structure of a CORBA struct or sequence
    scm,        \* what the program was given, or gave
    how,        \* the operation that came last
    outcome     \* "ok", or the error it raised

vars == <<registered, value, param, gconf, corba, scm, how, outcome>>

Nothing == [type |-> "none"]

Init ==
    /\ registered = {}
    /\ value = Nothing /\ param = Nothing /\ gconf = Nothing /\ corba = Nothing
    /\ scm = Nothing /\ how = "start" /\ outcome = "ok"

TableTypes == EnumTypes \cup FlagsTypes

\* A type that GLib knows
Known(t) == t \in TableTypes => t \in registered

Key(r) == IF r.ok THEN "ok" ELSE r.key

\* A crash ends the program.
Running == outcome # "crash"

\* Nothing is held: a next thing can be made.
Free == Running /\ how \in {"start", "register"}

Held(v, p, g) == value' = v /\ param' = p /\ gconf' = g /\ corba' = Nothing

-----------------------------------------------------------------------------
(* Types *)

\* genum-register-static and gflags-register-static, as the metaclasses call
\* them.
Register(t) ==
    /\ Free
    /\ Held(Nothing, Nothing, Nothing) /\ scm' = Nothing /\ how' = "register"
    /\ LET valid == IF t \in EnumTypes THEN ValidEnum(EnumTable[t])
                    ELSE ValidFlags(FlagsTable[t])
       IN CASE t \in registered -> outcome' = "gruntime-error" /\ UNCHANGED registered
            [] t \notin registered /\ ~valid -> outcome' = "wrong-type-arg" /\ UNCHANGED registered
            [] OTHER -> outcome' = "ok" /\ registered' = registered \cup {t}

-----------------------------------------------------------------------------
(* Values *)

CStores(t, c) ==
    /\ Free /\ Known(t) /\ how' = "c" /\ outcome' = "ok"
    /\ Held([type |-> t, c |-> c], Nothing, Nothing) /\ scm' = Nothing
    /\ UNCHANGED registered

\* (make class #:value s); the class of a <gobject> is no <gvalue> class.
Make(t, s) ==
    /\ Free /\ Known(t) /\ t # "GObject"
    /\ LET r == MakeGValue(t, s)
       IN /\ Held(IF r.ok THEN [type |-> t, c |-> r.c] ELSE Nothing, Nothing, Nothing)
          /\ outcome' = Key(r)
    /\ scm' = s /\ how' = "make"
    /\ UNCHANGED registered

\* scm->gvalue
ScmToGValue(t, s) ==
    /\ Free /\ Known(t)
    /\ LET r == SetGValue(t, s)
       IN /\ Held(IF r.ok THEN [type |-> t, c |-> r.c] ELSE Nothing, Nothing, Nothing)
          /\ outcome' = Key(r)
    /\ scm' = s /\ how' = "scm->gvalue"
    /\ UNCHANGED registered

Get(op, r) ==
    /\ scm' = (IF r.ok THEN r.c ELSE Nothing) /\ how' = op /\ outcome' = Key(r)
    /\ UNCHANGED <<registered, value, param, gconf, corba>>

\* gvalue->scm, genum->symbol and its like, gflags->symbol-list and its like
ValueToScm == Running /\ value # Nothing /\ 
    Get("gvalue->scm", Done(RefGValue(value.type, value.c)))

EnumTo ==
    /\ Running /\ value # Nothing /\ value.type \in EnumTypes
    /\ \/ Get("genum->value", Done(EnumToValue(value.c)))
       \/ Get("genum->symbol", EnumToEntry(value.type, value.c, LAMBDA e : Sym(e.nick)))
       \/ Get("genum->name", EnumToEntry(value.type, value.c, LAMBDA e : Str(e.name)))

FlagsTo ==
    /\ Running /\ value # Nothing /\ value.type \in FlagsTypes
    /\ LET entries  == FlagsToElements(value.type, value.c)
           all(f(_)) == Done(List([i \in DOMAIN entries |-> f(entries[i])]))
       IN \/ Get("gflags->value", Done(FlagsToValue(value.c)))
          \/ Get("gflags->value-list", all(LAMBDA e : Exact(e.value)))
          \/ Get("gflags->symbol-list", all(LAMBDA e : Sym(e.nick)))
          \/ Get("gflags->name-list", all(LAMBDA e : Str(e.name)))

\* The operations that give the program a value to set again
Accessors == {"gvalue->scm", "genum->value", "genum->symbol", "genum->name",
              "gflags->value", "gflags->value-list", "gflags->symbol-list",
              "gflags->name-list"}

\* (make class #:value ...) or scm->gvalue (which setting a property comes
\* down to), with what an accessor returned
Again(op, r) ==
    /\ Held(IF r.ok THEN [type |-> value.type, c |-> r.c] ELSE Nothing, Nothing, Nothing)
    /\ outcome' = Key(r) /\ how' = op
    /\ UNCHANGED <<registered, scm>>

SetAgain ==
    /\ Running /\ how \in Accessors /\ outcome = "ok"
    /\ \/ /\ value.type # "GObject"
          /\ Again("make again", MakeGValue(value.type, scm))
       \/ Again("set again", SetGValue(value.type, scm))

-----------------------------------------------------------------------------
(* Parameter specifications *)

CMakesParam(p) ==
    /\ Free /\ Known(p.type) /\ how' = "c" /\ outcome' = "ok"
    /\ Held(Nothing, p, Nothing) /\ scm' = Nothing
    /\ UNCHANGED registered

\* (make <gparam-...> ...)
MakeParam(slots) ==
    /\ Free /\ Known(slots.type)
    /\ LET r == ConstructParam(slots)
       IN Held(Nothing, IF r.ok THEN r.c ELSE Nothing, Nothing) /\ outcome' = Key(r)
    /\ scm' = slots /\ how' = "make"
    /\ UNCHANGED registered

ParamToScm == Running /\ param # Nothing /\ Get("describe", Done(InitializeScm(param)))

\* A <gparam> made with the slots of another
MakeParamAgain ==
    /\ Running /\ how = "describe"
    /\ LET r == ConstructParam(scm)
       IN Held(Nothing, IF r.ok THEN r.c ELSE Nothing, Nothing) /\ outcome' = Key(r)
    /\ how' = "set again"
    /\ UNCHANGED <<registered, scm>>

-----------------------------------------------------------------------------
(* GConf *)

GConfArrives(v) ==
    /\ Free /\ how' = "c" /\ outcome' = "ok"
    /\ Held(Nothing, Nothing, v) /\ scm' = Nothing
    /\ UNCHANGED registered

\* gconf-client-set
GConfSet(s) ==
    /\ Free
    /\ LET r == ScmToGConf(s)
       IN Held(Nothing, Nothing, IF r.ok THEN r.c ELSE Nothing) /\ outcome' = Key(r)
    /\ scm' = s /\ how' = "gconf-set"
    /\ UNCHANGED registered

\* gconf-client-get, or the value that a notification brings
GConfGet ==
    /\ Running /\ gconf # Nothing
    /\ Get("gconf-get", GConfToScm(gconf))

GConfSetAgain ==
    /\ Running /\ how = "gconf-get" /\ outcome = "ok"
    /\ LET r == ScmToGConf(scm)
       IN Held(Nothing, Nothing, IF r.ok THEN r.c ELSE Nothing) /\ outcome' = Key(r)
    /\ how' = "set again"
    /\ UNCHANGED <<registered, scm>>

-----------------------------------------------------------------------------
(* CORBA *)

\* An operation on CORBA data leaves the structure x, or raises an error.
Corba(op, s, r) ==
    /\ how' = op /\ scm' = s /\ outcome' = Key(r)
    /\ corba' = IF r.ok THEN r.c ELSE corba
    /\ UNCHANGED <<registered, value, param, gconf>>

HasCorba(kind) == Running /\ corba # Nothing /\ corba.corba = kind

\* make-corba-struct
MakeCorbaStruct(t) ==
    /\ Free
    /\ Corba("make-corba", Nothing, IF Strip(t).kind = "struct" THEN MakeStruct(t)
                                   ELSE Raise("wrong-type-arg"))

\* make-corba-sequence with the elements as its last arguments
MakeCorbaSequence(t, s) ==
    /\ Free /\ s.tag = "list"
    /\ \E r \in IF Strip(t).kind = "sequence" THEN MakeSequence(t, s.items)
                ELSE {Raise("wrong-type-arg")} : Corba("make-corba", s, r)

\* A result of an operation, or an argument of a servant's method
CorbaArrives(t, c) ==
    /\ Free
    /\ LET s == Demarshal(t, c) IN
       IF IsStructure(s) THEN Corba("demarshal", Nothing, Done(s))
       ELSE Corba("demarshal", s, Done(Nothing))

\* The test of an index, which counts from 0: the typecode is the one the
\* structure was made with.
ValidIndex(k) == k \in 0 .. (IF corba.corba = "struct" THEN Len(corba.tc.subtypes)
                             ELSE corba.length) - 1

\* corba-struct-set!, corba-sequence-set!
CorbaSet(k, s) ==
    /\ Running /\ corba # Nothing
    /\ IF ValidIndex(k)
       THEN LET r == Marshal(MemberType(corba, k + 1), corba.members[k + 1], s)
            IN Corba("corba-set", s, IF r.ok THEN Done(SetMember(corba, k + 1, r.c)) ELSE r)
       ELSE Corba("corba-set", s, Raise("wrong-type-arg"))

\* corba-struct-ref, corba-sequence-ref: a member that is a struct or a
\* sequence comes as a structure of its own.
CorbaRef(k) ==
    /\ Running /\ corba # Nothing
    /\ IF ValidIndex(k)
       THEN LET s == Demarshal(MemberType(corba, k + 1), corba.members[k + 1])
            IN IF IsStructure(s) THEN Corba("corba-ref", Nothing, Done(s))
               ELSE Corba("corba-ref", s, Done(corba))
       ELSE Corba("corba-ref", Nothing, Raise("wrong-type-arg"))

\* corba-struct->record
CorbaRecord == HasCorba("struct") /\ Corba("record", Nothing, Done(MakeStructFrom(corba)))

\* corba-sequence-set-length!
CorbaSetLength(n) ==
    /\ HasCorba("sequence")
    /\ Corba("set-length", Nothing, IF n >= 0 THEN Done(SetLength(corba, n))
                                   ELSE Raise("wrong-type-arg"))

CorbaSequenceType ==
    HasCorba("sequence") /\ Corba("sequence-type", SequenceType(corba), Done(corba))

\* The program, and C code, let go of what they hold.
Drop ==
    /\ Running /\ how # "start"
    /\ Held(Nothing, Nothing, Nothing) /\ scm' = Nothing /\ how' = "start" /\ outcome' = "ok"
    /\ UNCHANGED registered

-----------------------------------------------------------------------------
Next ==
    \/ \E t \in TableTypes : Register(t)
    \/ \E t \in VTypes : \E c \in CValues[t] : CStores(t, c)
    \/ \E t \in VTypes, s \in Inputs : Make(t, s) \/ ScmToGValue(t, s)
    \/ ValueToScm \/ EnumTo \/ FlagsTo \/ SetAgain
    \/ \E p \in CParams : CMakesParam(p)
    \/ \E slots \in NewParams : MakeParam(slots)
    \/ ParamToScm \/ MakeParamAgain
    \/ \E v \in CGConfs : GConfArrives(v)
    \/ \E s \in Inputs : GConfSet(s)
    \/ GConfGet \/ GConfSetAgain
    \/ \E t \in CorbaTypes : MakeCorbaStruct(t) \/ \E s \in CorbaInputs : MakeCorbaSequence(t, s)
    \/ \E x \in CCorbas : CorbaArrives(x[1], x[2])
    \/ \E k \in -1..MaxLength : CorbaRef(k) \/ \E s \in CorbaInputs : CorbaSet(k, s)
    \/ \E n \in -1..MaxLength : CorbaSetLength(n)
    \/ CorbaRecord \/ CorbaSequenceType
    \/ Drop

Spec == Init /\ [][Next]_vars

-----------------------------------------------------------------------------
(* Properties *)

\* Flags whose value-list, or'd together, yields the flags: where they are
\* not, gflags->value-list does not do what its docstring says.
Covered(t, bits) ==
    bits = UNION {BitsOf(e.value) : e \in {x \in ToSet(FlagsTable[t]) : BitsOf(x.value) \subseteq bits}}

\* The values that come back unchanged when what an accessor returned is set
\* again.  An array is rebuilt from the elements' Scheme types.
RECURSIVE Survives(_, _, _)
Survives(op, t, c) ==
    CASE t = "gfloat"      -> -MaxFloat < c.int /\ c.int < MaxFloat
      [] t \in FlagsTypes  ->
           CASE op = "gvalue->scm"   -> TRUE
             [] op = "gflags->value" -> c.bits \subseteq Mask(t) /\ IntBits - 1 \notin c.bits
             [] OTHER                -> Covered(t, c.bits)
      [] t \in EnumTypes   -> op = "gvalue->scm" \/ Entry(EnumTable[t], Exact(c.int)) > 0
      [] t = "GBoxedSCM"   -> c # NULL /\ c.scm.tag # "gvalue"
      [] t = "GValueArray" -> c # NULL /\
           \A i \in DOMAIN c.elems :
              LET e == c.elems[i] IN
              /\ e.type \in {"gchararray", "gboolean", "gint", "gdouble", "gchar", "GObject",
                             "GValueArray"}
              /\ e.c # NULL
              /\ Survives(op, e.type, e.c)
      [] OTHER             -> TRUE

ParamSurvives(p) ==
    /\ p.kind \in RangedParams \cup PlainParams \cup TypedParams
    /\ p.flags \subseteq ParamFlagBits
    /\ p.kind = "enum" => p.default.int >= 0
    /\ p.kind = "flags" => IntBits - 1 \notin p.default.bits

GConfSurvives(v) == v.gconf \in {"bool", "int", "float"}

\* What the program read from C and sets again is the same value to C --
\* for the values that Survives describes, and for no others.  An
\* enumeration's <gvalue> can be set again but not given to make.
\* (scm_c_gvalue_ref against scm_c_gvalue_set, initialize_scm against
\* construct, the two conversions of gconf-support.c)
RoundTrip ==
    [][how' \in {"make again", "set again"} =>
         LET same == outcome' = "ok" /\ value' = value /\ param' = param /\ gconf' = gconf
         IN same = (CASE value # Nothing -> /\ Survives(how, value.type, value.c)
                                            /\ (value.type \in EnumTypes /\ how' = "make again")
                                                 => how # "gvalue->scm"
                      [] param # Nothing -> ParamSurvives(param)
                      [] OTHER           -> GConfSurvives(gconf))]_vars

\* A Scheme value and the one that is read back: a number may have become a
\* character or inexact, and is the same number.
Code(s) == CASE s.tag = "char" -> s.n [] s.tag = "int" -> s.n % 2 ^ CharBits

RECURSIVE SameDatum(_, _)
SameDatum(s, back) ==
    CASE s.tag = "list" /\ back.tag = "list" ->
              /\ Len(s.items) = Len(back.items)
              /\ \A i \in DOMAIN s.items : SameDatum(s.items[i], back.items[i])
      [] back.tag = "char" -> Code(s) = back.n
      [] s.tag = "int" /\ back.tag = "real" -> s.n = back.x
      [] OTHER -> s = back

RECURSIVE WideChar(_)
WideChar(s) ==
    CASE s.tag = "char" -> s.n > MaxUInt(CharBits)
      [] s.tag = "list" -> \E i \in DOMAIN s.items : WideChar(s.items[i])
      [] OTHER -> FALSE

\* The numbers that a float and a double can hold
Precision   == [gfloat |-> FloatBits, gdouble |-> DoubleBits]
Holds(t, n) == \E e \in 0..LongBits : /\ n % 2 ^ e = 0
                                     /\ n \div 2 ^ e \in 1 - 2 ^ Precision[t] .. 2 ^ Precision[t] - 1

\* Of them none is nearer to n than x.
Nearest(t, n, x) ==
    LET size(d) == IF d < 0 THEN -d ELSE d
        far     == size(x - n)
    IN Holds(t, x) /\ \A y \in n - far .. n + far : Holds(t, y) => size(y - n) = far

\* A number n of Scheme is read as x: the nearest double to it, or the
\* nearest float to that, which may not be the nearest to n.
ReadAs(t, n, x) ==
    IF t = "gdouble" THEN Nearest(t, n, x)
    ELSE \E d \in -(2 ^ LongBits) .. 2 ^ LongBits : Nearest("gdouble", n, d) /\ Nearest(t, d, x)

\* A conversion that raises no error kept the datum: what the program made a
\* value from is what it reads from it.  Without an error only characters
\* beyond 8 bits are cut, and numbers that a float or a double cannot hold
\* are rounded.  (The test of gobject.test, for every
\* type but enumerations and flags, and GConf's set and get.)
ReadsBack ==
    /\ (how \in {"make", "scm->gvalue"} /\ value # Nothing /\ value.type \notin TableTypes
          /\ scm.tag # "gvalue")
       => LET back == RefGValue(value.type, value.c)
              same == SameDatum(scm, back)
              n    == IF scm.tag = "int" THEN scm.n ELSE scm.x IN
          CASE value.type = "GBoxedSCM"      -> same
            [] value.type \in DOMAIN Precision ->
                 same = Holds(value.type, n) /\ ReadAs(value.type, n, back.x)
            [] OTHER -> same = ~WideChar(scm)
    /\ how = "gconf-set" /\ gconf # Nothing
       => GConfToScm(gconf).ok /\ GConfToScm(gconf).c = scm

\* A structure of CORBA data and the DynAny it was made with stay in step: a
\* struct has a member for each field, and whatever is set or resized, the
\* elements and the length that Scheme reads are those of the DynAny.
\* (scm_c_make_corba_sequence, corba-sequence-set-length!, corba-sequence-set!)
CorbaCoherent ==
    corba # Nothing =>
        /\ Len(corba.members) = Len(corba.dyn)
        /\ corba.corba = "struct" => Len(corba.members) = Len(corba.tc.subtypes)
        /\ corba.corba = "sequence" => corba.length = Len(corba.members) /\ corba.members = corba.dyn

\* What is set without an error can be read: a string or a TypeCode, where
\* the member's type is one and no alias of one.  A number is stored and
\* never comes back, and what goes to a member of another type changes
\* nothing.  (scm_c_corba_marshal_any against scm_c_corba_demarshal_any)
CorbaReadsBack ==
    [][\A k \in 0..MaxLength :
         how' = "corba-set" /\ outcome' = "ok" /\ CorbaSet(k, scm') =>
           LET t == MemberType(corba, k + 1)
               reads(x) == Demarshal(t, x.members[k + 1]) IN
           /\ reads(corba') = scm' <=> t.kind \in {"string", "TypeCode"} \/ reads(corba) = scm'
           /\ corba' # corba => t.kind \notin {"alias", "enum", "longlong", "sequence", "struct"}]_vars

\* The elements of a value-list, put together, yield the flags' value.
\* (the docstring of gflags->value-list, gvalue.scm, which says logand)
FlagsAddUp ==
    how = "gflags->value-list" => UNION {BitsOf(s.n) : s \in ToSet(scm.items)} = value.c.bits

\* The record made of a struct has the members that were set.
\* (corba-struct->record)
RecordKeepsMembers == [][how' = "record" => corba'.members = corba.members]_vars

\* A conversion that is not possible raises an error.
\* (the documentation of scm->gvalue)
NeverCrashes == outcome # "crash"

\* A program can store a string in GConf, which has a type for it.
\* (scm_c_scm_to_gconf_value, the branch for strings)
GConfStores == how = "gconf-set" /\ scm.tag = "string" => outcome = "ok"

=============================================================================
