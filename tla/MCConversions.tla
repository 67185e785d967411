--------------------------- MODULE MCConversions ---------------------------
(***************************************************************************)
(* Values at the limits of small widths for Conversions: 2-bit characters, *)
(* 6-bit ints (so that the five flags of a <gparam> and one more fit),     *)
(* 7-bit longs, doubles of 6 significant bits and floats of 2, up to 96.   *)
(* One enumeration has an alias and a negative value, one type of flags a  *)
(* composite entry and the top bit, another a bit that only a composite    *)
(* entry has.                                                              *)
(***************************************************************************)
EXTENDS Conversions

E(nick, name, v) == [nick |-> nick, name |-> name, value |-> v]

MCEnumTable == [Enum |-> <<E("a", "A", -1), E("b", "B", 1), E("c", "C", 1)>>,
                BadEnum |-> <<E("a", "A", 40)>>]
MCFlagsTable == [Flags |-> <<E("x", "X", 1), E("y", "Y", 2), E("z", "Z", 3), E("t", "T", 32)>>,
                 Cover |-> <<E("p", "P", 6), E("q", "Q", 1)>>,
                 BadFlags |-> <<E("n", "N", -1)>>]

Ints(S) == {CInt(n) : n \in S}
Elem(t, c) == [type |-> t, c |-> c]

MCCValues ==
    [gchar |-> Ints({-2, -1, 1}), guchar |-> Ints({0, 3}), gboolean |-> Ints({0, 1}),
     gint |-> Ints({-32, 31}), guint |-> Ints({0, 63}), glong |-> Ints({-64, 63}),
     gulong |-> Ints({127}), gint64 |-> Ints({-64}), guint64 |-> Ints({127}),
     gfloat |-> Ints({-192, -96, 0, 6, 64, 96, 192}), gdouble |-> Ints({0, 9}),
     gchararray |-> {NULL, CStr("s")}, GObject |-> {NULL, CStr("o")},
     Enum |-> Ints({-1, 1, 5}),
     Flags |-> {CBits(S) : S \in SUBSET {0, 1, 3, 5}}, Cover |-> {CBits(S) : S \in SUBSET {0, 1, 2}},
     GBoxedSCM |-> {NULL, CScm(Sym("a")), CScm(GVal("gint", CInt(1)))},
     GConfSchema |-> {CStr("schema")},
     GValueArray |-> {NULL, CElems(<<>>), CElems(<<Elem("GValueArray", NULL)>>),
                      CElems(<<Elem("gint", CInt(1)), Elem("gchararray", CStr("s"))>>),
                      CElems(<<Elem("glong", CInt(40))>>), CElems(<<Elem("glong", CInt(4))>>),
                      CElems(<<Elem("gboolean", CInt(1)), Elem("GObject", NULL)>>),
                      CElems(<<Elem("GValueArray", CElems(<<Elem("gchar", CInt(-1))>>))>>),
                      CElems(<<Elem("Enum", CInt(1))>>)}]

MCVTypes == DOMAIN MCCValues

MCInputs ==
    {Exact(n) : n \in {-65, -64, -33, -32, -7, -2, -1, 0, 1, 2, 3, 4, 5, 11, 31, 32, 40, 63, 64, 81, 127, 128}}
    \cup {Char(n) : n \in {1, 3, 4}} \cup {Real(n) : n \in {-96, -94, 1, 5, 7, 80, 96, 112}}
    \cup {Bool(TRUE), False, Str("s"), Str("A"), Sym("a"), Sym("x"), Obj("o"), Unspecified}
    \cup {List(q) : q \in {<<>>, <<Sym("x"), Exact(2)>>, <<Exact(1), Str("X")>>,
                           <<Exact(31), Bool(TRUE), Real(1), Obj("o")>>, <<Char(3), Char(4)>>,
                           <<List(<<Str("s")>>)>>, <<Exact(40)>>, <<False>>}}
    \cup {GVal("gint", CInt(1)), GVal("Enum", CInt(1)), GVal("Flags", CBits({1})),
          GVal("GValueArray", CElems(<<>>))}

Spec0 == [kind |-> "pointer", type |-> "none", default |-> NULL, minimum |-> NULL,
          maximum |-> NULL, flags |-> {0, 1}]
Ranged(k, lo, d, hi) == [Spec0 EXCEPT !.kind = k, !.default = CInt(d), !.minimum = CInt(lo),
                                      !.maximum = CInt(hi)]
Typed(k, t, c, f) == [Spec0 EXCEPT !.kind = k, !.type = t, !.default = c, !.flags = f]

MCCParams ==
    {Ranged("int", -32, 0, 31), Ranged("uint", 0, 63, 63), Ranged("char", -2, -1, 1),
     Ranged("uchar", 0, 3, 3), Ranged("float", -8, 8, 8), Ranged("double", -9, 0, 9),
     Ranged("long", -64, -64, 63), Ranged("uint64", 1, 2, 127)}
    \cup {Typed("enum", "Enum", CInt(v), {0}) : v \in {-1, 1}}
    \cup {Typed("flags", "Flags", CBits(S), {0, 1, 2, 3, 4}) : S \in {{}, {0, 1}, {5}}}
    \cup {Typed("string", "none", c, {4}) : c \in {NULL, CStr("s")}}
    \cup {Typed("boolean", "none", CInt(1), {0, 5}), Typed("unichar", "none", CInt(63), {1}), Spec0,
          Typed("object", "GObject", NULL, {0}), Typed("gtype", "none", NULL, {0}),
          Typed("override", "none", NULL, {0})}

Slots(k, t, d, lo, hi, f) ==
    [kind |-> k, type |-> t, default |-> d, minimum |-> lo, maximum |-> hi, flags |-> f]
ByDefault(k, t, f) ==
    LET s == DefaultSlots(k) IN Slots(k, t, s.default, s.minimum, s.maximum, f)

MCNewParams ==
    {ByDefault(k, "none", 3) : k \in RangedParams \cup {"boolean", "string", "unichar", "pointer"}}
    \cup {Slots("int", "none", Exact(2), Exact(2), Exact(32), 3),
          Slots("int", "none", Exact(2), Exact(2), Exact(9), 32),
          Slots("float", "none", Exact(0), Real(-9), Real(112), 31),
          Slots("uchar", "none", Exact(1), Exact(0), Exact(3), 1),
          Slots("uint", "none", Real(1), Exact(0), Exact(3), 1),
          Slots("string", "none", Exact(0), False, False, 1),
          Slots("enum", "Enum", Exact(-1), False, False, 1),
          Slots("flags", "Flags", Exact(3), False, False, 1)}

\* Those for which GLib returns no GParamSpec: zero outside the bounds, and
\* an enumeration without it.
MCBadParams ==
    {Slots("int", "none", Exact(0), Exact(2), Exact(9), 3), ByDefault("enum", "Enum", 3)}

MCCGConfs ==
    {GConf("bool", CInt(0)), GConf("int", CInt(-32)), GConf("float", CInt(9)),
     GConf("string", CStr("s")), GConf("schema", CStr("schema")), GConf("unset", NULL),
     GConf("invalid", NULL),
     GConfPair(GConf("int", CInt(1)), GConf("string", CStr("s"))),
     GConfPair(GConf("invalid", NULL), GConf("int", CInt(1))),
     GConfList("int", <<GConf("int", CInt(1))>>), GConfList("bool", <<GConf("bool", CInt(0))>>),
     GConfList("string", <<GConf("string", CStr("s"))>>), GConfList("int", <<>>)}

Name == Alias(TC("string"))
Person == Struct(<<TC("ushort"), TC("string"), Name>>)
Small == Struct(<<TC("short"), TC("longlong")>>)
Large == Struct(<<TC("long"), TC("float")>>)
Other == Struct(<<TC("TypeCode"), EnumTC("Enum"), SequenceTC(TC("string"))>>)
MCCorbaTypes == {Person, Alias(Person), Small, Large, Other,
                 SequenceTC(TC("string")), SequenceTC(EnumTC("Enum")),
                 Alias(SequenceTC(TC("ulong"))), SequenceTC(Name)}
MCCorbaInputs == {Exact(1), Exact(2), Exact(-64), Exact(-1), Real(9), Str("s"), False,
                  TypeCode(Name), List(<<Str("s"), Str("t")>>), List(<<Exact(1)>>),
                  List(<<Str("s"), Exact(1)>>)}
MCCCorbas ==
    {<<Alias(Person), CFields(<<CInt(3), CStr("s"), CStr("t")>>)>>,
     <<SequenceTC(Person), CElems(<<CFields(<<CInt(3), CStr("s"), CStr("t")>>)>>)>>,
     <<Other, CFields(<<CTypeCode(Name), CInt(1), CElems(<<CStr("t")>>)>>)>>,
     <<TC("long"), CInt(3)>>, <<Name, CStr("s")>>, <<EnumTC("Enum"), CInt(1)>>}

MCAllParams == MCNewParams \cup MCBadParams
=============================================================================
