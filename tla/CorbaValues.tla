---------------------------- MODULE CorbaValues ----------------------------
(***************************************************************************)
(* The conversion of Scheme values to CORBA ones and back, and the Scheme  *)
(* structures that stand for CORBA structs and sequences                   *)
(* (corba/gnome/corba/guile-gnome-corba-types.c).                          *)
(*                                                                         *)
(* A TypeCode is a record of its kind and its subtypes.  A structure has   *)
(* two copies of the data: the DynAny it was made with, and the members    *)
(* (or elements) that the DynAny handed out, which are what Scheme reads.  *)
(***************************************************************************)
EXTENDS Values

CONSTANTS ShortBits  \* width of CORBA's short integers

ASSUME ShortAssumption == ShortBits \in Nat \ {0} /\ ShortBits < IntBits

\* TypeCodes
TC(kind)   == [kind |-> kind, subtypes |-> <<>>]
Alias(t)   == [kind |-> "alias", subtypes |-> <<t>>]
SequenceTC(t) == [kind |-> "sequence", subtypes |-> <<t>>]
Struct(q)  == [kind |-> "struct", subtypes |-> q]
EnumTC(t)  == [kind |-> "enum", subtypes |-> <<>>, gtype |-> t]

\* What an any holds, beside CInt and CStr, and the Scheme value of a TypeCode
CTypeCode(t) == [typecode |-> t]
CFields(q)   == [fields |-> q]
TypeCode(t)  == [tag |-> "typecode", tc |-> t]

RECURSIVE Strip(_)
Strip(t) == IF t.kind = "alias" THEN Strip(t.subtypes[1]) ELSE t

\* What create_dyn_any_from_type_code gives a value of a type
RECURSIVE Default(_)
Default(t) ==
    CASE Strip(t).kind = "string"   -> CStr("")
      [] Strip(t).kind = "TypeCode" -> CTypeCode(TC("null"))
      [] Strip(t).kind = "sequence" -> CElems(<<>>)
      [] Strip(t).kind = "struct"   ->
           CFields([k \in DOMAIN Strip(t).subtypes |-> Default(Strip(t).subtypes[k])])
      [] OTHER                      -> CInt(0)

-----------------------------------------------------------------------------
(* Values *)

\* The result of scm_to_int, scm_to_long or scm_to_double is assigned to a C
\* number of a smaller type.
Narrow(r, F(_)) == IF r.ok THEN Done(CInt(F(r.c.int))) ELSE r

Marshalled == {"short", "long", "ushort", "ulong", "float", "double", "TypeCode", "string"}

\* Mutant: an alias of string is taken for a string.
MarshalStripped(t, old, s) ==
    IF Strip(t).kind = "string" /\ s.tag = "string" THEN Done(CStr(s.s)) ELSE Done(old)

\* scm_c_corba_marshal_any: what the any holds afterwards, old before.  Only
\* the kinds that it lists are stored, and an alias is none of them.
Marshal(t, old, s) ==
    CASE t.kind = "short"    -> Signed(s, ShortBits)
      [] t.kind = "long"     -> Narrow(Signed(s, LongBits), LAMBDA n : Wrap(n, IntBits))
      [] t.kind = "ushort"   -> Narrow(Signed(s, IntBits), LAMBDA n : n % 2 ^ ShortBits)
      [] t.kind = "ulong"    -> Narrow(Signed(s, LongBits), LAMBDA n : n % 2 ^ IntBits)
      [] t.kind = "float"    -> Narrow(ToDouble(s), AsFloat)
      [] t.kind = "double"   -> ToDouble(s)
      [] t.kind = "TypeCode" ->
           IF s.tag = "typecode" THEN Done(CTypeCode(s.tc)) ELSE Raise("wrong-type-arg")
      [] t.kind = "string"   ->
           IF s.tag = "string" THEN Done(CStr(s.s)) ELSE Raise("wrong-type-arg")
      [] OTHER               -> Done(old)

\* scm_c_make_corba_struct: the members are a copy of what the DynAny holds.
StructOver(t, dyn) == [corba |-> "struct", tc |-> t, dyn |-> dyn, members |-> dyn]

\* scm_c_make_corba_sequence
SequenceOver(t, dyn) ==
    [corba |-> "sequence", tc |-> t, dyn |-> dyn, members |-> dyn, length |-> Len(dyn)]

\* scm_c_corba_demarshal_any.  The branches for numbers are commented out.
Demarshal(t, c) ==
    LET real == Strip(t) IN
    CASE real.kind = "TypeCode" -> TypeCode(c.typecode)
      [] real.kind = "string"   -> Str(c.str)
      [] real.kind = "enum"     -> GVal(real.gtype, c)
      [] real.kind = "sequence" -> SequenceOver(real, c.elems)
      [] real.kind = "struct"   -> StructOver(real, c.fields)
      [] OTHER                  -> False

IsStructure(s) == "corba" \in DOMAIN s

-----------------------------------------------------------------------------
(* Structures *)

\* make-corba-struct, with the DynAny of another struct if one is given.  The
\* names and the number of the fields are those of the typecode given: an
\* alias has one part, without a name.
MakeStruct(t) == IF t.kind = "alias" THEN Crash ELSE Done(StructOver(t, Default(t).fields))
MakeStructFrom(x) == StructOver(x.tc, x.dyn)

\* The subtype of a member: each field has its own, all elements the same.
MemberType(x, k) == LET real == Strip(x.tc) IN real.subtypes[IF x.corba = "struct" THEN k ELSE 1]

\* Mutant: for a sequence, too, only the members change.
SetMembersOnly(x, k, c) == [x EXCEPT !.members[k] = c]

\* corba-struct-set! changes the members; corba-sequence-set! gives them to
\* the DynAny as well.
SetMember(x, k, c) ==
    LET y == [x EXCEPT !.members[k] = c] IN
    IF x.corba = "struct" THEN y ELSE [y EXCEPT !.dyn = y.members]

\* What memory that was never set is taken for, if it is not followed to
\* where it does not point
Unset(t) ==
    CASE Strip(t).kind = "string" -> {CStr("garbage")}
      [] Strip(t).kind = "enum"   -> {CInt(0), CInt(1)}
      [] OTHER                    -> {Default(t)}
Pointers == {"string", "TypeCode", "sequence", "struct"}

\* make-corba-sequence marshals a list into newly allocated elements, one by
\* one, and has the DynAny copy them: those that are not stored, too.
MakeSequence(t, q) ==
    LET elem == Strip(t).subtypes[1]
        r(old) == [k \in DOMAIN q |-> Marshal(elem, old[k], q[k])]
        seqs == {r(old) : old \in [DOMAIN q -> Unset(elem)]}
        done(s) == IF \E k \in DOMAIN s : ~s[k].ok
                   THEN s[SelectInSeq(s, LAMBDA x : ~x.ok)]
                   ELSE Done(SequenceOver(t, [k \in DOMAIN s |-> s[k].c]))
    IN {done(s) : s \in seqs}
         \cup (IF q # <<>> /\ elem.kind \notin Marshalled /\ Strip(elem).kind \in Pointers
               THEN {Crash} ELSE {})

\* DynSequence_set_length cuts or fills up; the elements are fetched again.
SetLength(x, n) ==
    LET dyn == [k \in 1..n |-> IF k <= Len(x.dyn) THEN x.dyn[k] ELSE Default(MemberType(x, k))]
    IN [x EXCEPT !.dyn = dyn, !.length = n, !.members = dyn]

\* corba-sequence-type
SequenceType(x) == TypeCode(x.tc.subtypes[1])

=============================================================================
