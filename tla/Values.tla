------------------------------- MODULE Values -------------------------------
(***************************************************************************)
(* The conversion of Scheme values to GValues and back                     *)
(* (glib/gnome/gobject/gvalue.c, gvalue.scm).                              *)
(*                                                                         *)
(* A Scheme value is a record with a tag.  What a GValue holds is a record *)
(* whose one field tells its C type: int, str, bits (flags, as the set of  *)
(* bit numbers), elems (a GValueArray) or scm (a boxed Scheme value).      *)
(* Numbers keep their width, but the widths are parameters.  A             *)
(* floating-point number is an integer, in the unit of the smallest one;   *)
(* how many significant bits a float and a double have is a parameter too. *)
(***************************************************************************)
EXTENDS Integers, Sequences, FiniteSets, SequencesExt, FiniteSetsExt

CONSTANTS CharBits, IntBits, LongBits,  \* widths of C's integers
          FloatBits, DoubleBits,        \* significant bits of a float, a double
          MaxFloat,                     \* G_MAXFLOAT
          EnumTable, FlagsTable         \* type -> its vtable, a sequence of
                                        \* [nick, name, value]

ASSUME WidthAssumption ==
    /\ CharBits \in Nat \ {0} /\ IntBits \in Nat \ {0} /\ LongBits \in Nat
    /\ CharBits < IntBits /\ IntBits =< LongBits
    /\ FloatBits \in Nat \ {0} /\ DoubleBits \in Nat /\ FloatBits =< DoubleBits

\* Scheme values
Exact(n)   == [tag |-> "int", n |-> n]
Char(n)    == [tag |-> "char", n |-> n]
Real(x)    == [tag |-> "real", x |-> x]
Bool(b)    == [tag |-> "bool", b |-> b]
Str(s)     == [tag |-> "string", s |-> s]
Sym(s)     == [tag |-> "symbol", s |-> s]
List(q)    == [tag |-> "list", items |-> q]
Obj(o)     == [tag |-> "object", o |-> o]
GVal(t, c) == [tag |-> "gvalue", class |-> t, c |-> c]
Unspecified == [tag |-> "unspecified"]
False      == Bool(FALSE)

\* What a GValue holds
CInt(n)   == [int |-> n]
CStr(s)   == [str |-> s]
CBits(S)  == [bits |-> S]
CElems(q) == [elems |-> q]
CScm(s)   == [scm |-> s]
NULL      == CStr("NULL")

\* Outcomes of a conversion
Done(c)    == [ok |-> TRUE, c |-> c]
Raise(key) == [ok |-> FALSE, key |-> key]
Crash      == Raise("crash")

-----------------------------------------------------------------------------
(* Numbers *)

MinInt(w)  == -(2 ^ (w - 1))
MaxInt(w)  == 2 ^ (w - 1) - 1
MaxUInt(w) == 2 ^ w - 1

\* A C integer of w bits, signed, that a larger one was assigned to
Wrap(n, w) == LET m == n % 2 ^ w IN IF m > MaxInt(w) THEN m - 2 ^ w ELSE m

\* scm_to_int and its like: exact integers only, and a range
ToInt(s, lo, hi) ==
    CASE s.tag # "int"    -> Raise("wrong-type-arg")
      [] s.n \in lo .. hi -> Done(CInt(s.n))
      [] OTHER            -> Raise("out-of-range")

\* Mutant: a conversion by cast, without a range
UnsignedByCast(s, w) ==
    IF s.tag = "int" THEN Done(CInt(s.n % 2 ^ w)) ELSE Raise("wrong-type-arg")

Signed(s, w)   == ToInt(s, MinInt(w), MaxInt(w))
Unsigned(s, w) == ToInt(s, 0, MaxUInt(w))

\* The floating-point number of w significant bits that is nearest to n; of
\* two as near, the even one
Rounded(n, w) ==
    LET size == IF n < 0 THEN -n ELSE n
        unit == 2 ^ (CHOOSE e \in 0 .. size : /\ size < 2 ^ (w + e)
                                              /\ e > 0 => size >= 2 ^ (w + e - 1))
        down == size \div unit
        rest == 2 * (size % unit)
        up   == rest > unit \/ (rest = unit /\ down % 2 = 1)
        near == unit * (IF up THEN down + 1 ELSE down)
    IN IF n < 0 THEN -near ELSE near

\* scm_to_double: an inexact number is a double, an exact one may be none.
ToDouble(s) ==
    CASE s.tag = "int"  -> Done(CInt(Rounded(s.n, DoubleBits)))
      [] s.tag = "real" -> Done(CInt(s.x))
      [] OTHER          -> Raise("wrong-type-arg")

\* C's conversion of a double to float
Infinity == 2 * MaxFloat
AsFloat(x) ==
    LET near == Rounded(x, FloatBits)
    IN CASE near > MaxFloat  -> Infinity
         [] near < -MaxFloat -> -Infinity
         [] OTHER            -> near

\* The range of a gfloat leaves G_MAXFLOAT itself out.
ToFloat(s) ==
    LET d == ToDouble(s) IN
    IF ~d.ok THEN d
    ELSE IF -MaxFloat < d.c.int /\ d.c.int < MaxFloat THEN Done(CInt(AsFloat(d.c.int)))
    ELSE Raise("out-of-range")

BitsOf(n) == {b \in 0 .. IntBits - 1 : (n \div 2 ^ b) % 2 = 1}
Number(S) == MapThenSumSet(LAMBDA b : 2 ^ b, S)

-----------------------------------------------------------------------------
(* Enumerated values and flags *)

\* The entry that an enumeration's value, nick or name stands for: C searches
\* from the start, vtable-ref of gvalue.scm from the end; 0 if there is none.
Entry(table, s) ==
    CASE s.tag = "int"    -> SelectInSeq(table, LAMBDA e : e.value = s.n)
      [] s.tag = "symbol" -> SelectInSeq(table, LAMBDA e : e.nick = s.s)
      [] s.tag = "string" -> SelectInSeq(table, LAMBDA e : e.name = s.s)
      [] OTHER            -> 0

LastEntry(table, s) ==
    CASE s.tag = "int"    -> SelectLastInSeq(table, LAMBDA e : e.value = s.n)
      [] s.tag = "symbol" -> SelectLastInSeq(table, LAMBDA e : e.nick = s.s)
      [] s.tag = "string" -> SelectLastInSeq(table, LAMBDA e : e.name = s.s)
      [] OTHER            -> 0

ScmToEnum(t, s) ==
    LET i == IF s.tag = "int" /\ s.n \notin MinInt(IntBits) .. MaxInt(IntBits)
             THEN 0 ELSE Entry(EnumTable[t], s)
    IN IF i = 0 THEN Raise("gruntime-error") ELSE Done(CInt(EnumTable[t][i].value))

Mask(t) == UNION {BitsOf(FlagsTable[t][i].value) : i \in DOMAIN FlagsTable[t]}

\* An integer is checked against the mask; in a list each element must be
\* an entry, and a lone symbol or string is a list of one.
ScmToFlags(t, s) ==
    LET bits  == BitsOf(s.n)
        items == IF s.tag = "list" THEN s.items ELSE <<s>>
        found == [i \in DOMAIN items |-> Entry(FlagsTable[t], items[i])]
    IN CASE s.tag = "int" /\ s.n \in 0 .. MaxUInt(IntBits) ->
              IF bits \subseteq Mask(t) THEN Done(CBits(bits)) ELSE Raise("gruntime-error")
         [] s.tag \in {"list", "symbol", "string"} /\ \A i \in DOMAIN found : found[i] > 0 ->
              Done(CBits(UNION {BitsOf(FlagsTable[t][found[i]].value) : i \in DOMAIN found}))
         [] OTHER -> Raise("gruntime-error")

\* genum->value, genum->symbol and genum->name
EnumToValue(c) == Exact(c.int)
EnumToEntry(t, c, field(_)) ==
    LET i == LastEntry(EnumTable[t], EnumToValue(c))
    IN IF i = 0 THEN Raise("gruntime-error") ELSE Done(field(EnumTable[t][i]))

\* gflags->value goes through a signed int.
FlagsToValue(c) == Exact(Wrap(Number(c.bits), IntBits))

\* Mutant: an entry is listed if it shares a bit with the flags.
FlagsToOverlaps(t, c) ==
    SelectSeq(FlagsTable[t], LAMBDA e : BitsOf(e.value) \cap c.bits # {})

\* gflags->element-list takes logand of that; its sign extends beyond any
\* entry.
FlagsToElements(t, c) ==
    LET value == FlagsToValue(c).n % 2 ^ IntBits
    IN SelectSeq(FlagsTable[t], LAMBDA e : BitsOf(e.value) \subseteq BitsOf(value))

-----------------------------------------------------------------------------
(* GValues *)

EnumTypes  == DOMAIN EnumTable
FlagsTypes == DOMAIN FlagsTable
IntWidth   == [gint |-> IntBits, glong |-> LongBits, gint64 |-> LongBits]
UIntWidth  == [guint |-> IntBits, gulong |-> LongBits, guint64 |-> LongBits]

\* The type unwrap_gvalue_array chooses for an element.  What it chose for a
\* gvalue is overwritten by the chain of tests that follows, and the last
\* test of that chain, SCM_BOOL (scm_list_p (v)), is true of everything.
ElementType(v) ==
    CASE v.tag = "string" -> "gchararray"
      [] v.tag = "bool"   -> "gboolean"
      [] v.tag = "int" /\ v.n \in MinInt(IntBits) .. MaxInt(IntBits) -> "gint"
      [] v.tag = "real"   -> "gdouble"
      [] v.tag = "char"   -> "gchar"
      [] v.tag = "object" -> "GObject"
      [] OTHER            -> "GValueArray"

RECURSIVE SetGValue(_, _)

\* The assertion that it is given a list is as true; scm_ilength of
\* something else is -1, and the loop runs on.
UnwrapArray(s) ==
    IF s.tag # "list" THEN Crash
    ELSE LET set(v) == SetGValue(ElementType(v), v)
             bad    == {i \in DOMAIN s.items : ~set(s.items[i]).ok}
         IN IF bad # {} THEN set(s.items[Min(bad)])
            ELSE Done(CElems([i \in DOMAIN s.items |->
                        [type |-> ElementType(s.items[i]), c |-> set(s.items[i]).c]]))

\* scm_c_gvalue_set on a GValue of type t
SetGValue(t, s) ==
    CASE s.tag = "gvalue"  -> IF s.class = t THEN Done(s.c) ELSE Raise("gruntime-error")
      [] t = "gchar"       -> IF s.tag = "char" THEN Done(CInt(Wrap(s.n, CharBits)))
                              ELSE Signed(s, CharBits)
      [] t = "guchar"      -> IF s.tag = "char" THEN Done(CInt(s.n % 2 ^ CharBits))
                              ELSE Unsigned(s, CharBits)
      [] t = "gboolean"    -> IF s.tag = "bool" THEN Done(CInt(IF s.b THEN 1 ELSE 0))
                              ELSE Raise("wrong-type-arg")
      [] t \in DOMAIN IntWidth  -> Signed(s, IntWidth[t])
      [] t \in DOMAIN UIntWidth -> Unsigned(s, UIntWidth[t])
      [] t = "gfloat"      -> ToFloat(s)
      [] t = "gdouble"     -> ToDouble(s)
      [] t = "gchararray"  -> IF s = False THEN Done(NULL)
                              ELSE IF s.tag = "string" THEN Done(CStr(s.s))
                              ELSE Raise("wrong-type-arg")
      [] t \in EnumTypes   -> ScmToEnum(t, s)
      [] t \in FlagsTypes  -> ScmToFlags(t, s)
      [] t = "GObject"     -> IF s = False THEN Done(NULL)
                              ELSE IF s.tag = "object" THEN Done(CStr(s.o))
                              ELSE Raise("wrong-type-arg")
      [] t = "GBoxedSCM"   -> Done(CScm(s))
      [] t = "GValueArray" -> UnwrapArray(s)
      [] OTHER             -> Raise("gruntime-error")

\* scm_c_gvalue_ref: SCM_MAKE_CHAR takes a negative char for the code that
\* has the same bits; what has no Scheme form is given as a <gvalue>.
RECURSIVE RefGValue(_, _)
RefGValue(t, c) ==
    CASE t \in {"gchar", "guchar"} -> Char(c.int % 2 ^ CharBits)
      [] t = "gboolean"            -> Bool(c.int # 0)
      [] t \in DOMAIN IntWidth \cup DOMAIN UIntWidth -> Exact(c.int)
      [] t \in {"gfloat", "gdouble"} -> Real(c.int)
      [] t = "gchararray"          -> IF c = NULL THEN False ELSE Str(c.str)
      [] t = "GObject"             -> IF c = NULL THEN False ELSE Obj(c.str)
      [] t = "GBoxedSCM"           -> IF c = NULL THEN Unspecified ELSE c.scm
      [] t = "GValueArray"         -> IF c = NULL THEN List(<<>>) ELSE
                                      List([i \in DOMAIN c.elems |->
                                            RefGValue(c.elems[i].type, c.elems[i].c)])
      [] OTHER                     -> GVal(t, c)

\* (make class #:value s): an enumeration looks its value up first.
MakeGValue(t, s) ==
    IF t \notin EnumTypes THEN SetGValue(t, s)
    ELSE LET i == LastEntry(EnumTable[t], s)
         IN IF i = 0 THEN Raise("gruntime-error")
            ELSE SetGValue(t, Exact(EnumTable[t][i].value))

\* What genum-register-static and gflags-register-static ask of a vtable
ValidEnum(vtable)  == \A i \in DOMAIN vtable :
                         vtable[i].value \in MinInt(IntBits) .. MaxInt(IntBits)
ValidFlags(vtable) == \A i \in DOMAIN vtable : vtable[i].value \in 0 .. MaxUInt(IntBits)

=============================================================================
