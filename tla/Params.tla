------------------------------- MODULE Params -------------------------------
(***************************************************************************)
(* Parameter specifications (glib/gnome/gobject/gparameter.c,              *)
(* gparameter.scm): scm_c_gparam_construct makes a GParamSpec from the     *)
(* slots of a <gparam>, scm_c_gparam_initialize_scm fills the slots of a   *)
(* <gparam> from a GParamSpec that C code has made.                        *)
(*                                                                         *)
(* A GParamSpec is a record of its kind, its default, its bounds, the      *)
(* enumeration or flags type it is of, and its flags as a set of bits.  A  *)
(* <gparam> is a record of Scheme values.                                  *)
(***************************************************************************)
EXTENDS Values

\* Kinds with a minimum and a maximum, kinds with a default only, and kinds
\* with neither; a kind that is not one of these, such as that of an
\* overriding property, cannot be made.
IntParams    == [int |-> IntBits, long |-> LongBits, int64 |-> LongBits, char |-> CharBits]
UIntParams   == [uint |-> IntBits, ulong |-> LongBits, uint64 |-> LongBits, uchar |-> CharBits]
RealParams   == {"float", "double"}
RangedParams == DOMAIN IntParams \cup DOMAIN UIntParams \cup RealParams
PlainParams  == {"boolean", "string", "enum", "flags", "unichar"}
TypedParams  == {"pointer", "object", "boxed", "gtype", "value-array"}

\* The flags a <gparam> knows, G_PARAM_READABLE to G_PARAM_LAX_VALIDATION
ParamFlagBits == 0 .. 4

\* The #:trans of the slot flags: make a <gparam-spec-flags> and add up its
\* values.  Its vtable has an entry for each bit alone.
TransFlags(n) ==
    IF n \in 0 .. 2 ^ 5 - 1
    THEN Done(CInt(MapThenSumSet(LAMBDA b : IF (n \div 2 ^ b) % 2 = 1 THEN 2 ^ b ELSE 0,
                                 ParamFlagBits)))
    ELSE Raise("gruntime-error")

-----------------------------------------------------------------------------
(* From C to Scheme *)

\* What initialize_scm puts into a slot: the default of an enumeration, of
\* flags and of a unichar goes through scm_from_uint.
SlotOf(kind, c) ==
    CASE kind \in DOMAIN IntParams \cup DOMAIN UIntParams -> Exact(c.int)
      [] kind \in RealParams -> Real(c.int)
      [] kind = "boolean"    -> Bool(c.int # 0)
      [] kind = "string"     -> IF c = NULL THEN False ELSE Str(c.str)
      [] kind = "flags"      -> Exact(Number(c.bits))
      [] OTHER               -> Exact(c.int % 2 ^ IntBits)

FlagsSlot(flags) == Number(flags \cap ParamFlagBits)

\* A slot that initialize_scm does not set stays as it is: NULL here.
InitializeScm(p) ==
    [kind    |-> p.kind,
     type    |-> p.type,
     default |-> IF p.kind \in RangedParams \cup PlainParams THEN SlotOf(p.kind, p.default) ELSE False,
     minimum |-> IF p.kind \in RangedParams THEN SlotOf(p.kind, p.minimum) ELSE False,
     maximum |-> IF p.kind \in RangedParams THEN SlotOf(p.kind, p.maximum) ELSE False,
     flags   |-> FlagsSlot(p.flags)]

-----------------------------------------------------------------------------
(* From Scheme to C *)

\* The #:pred of the slots minimum, maximum and default-value; integer? is
\* true of an inexact integer.
AcceptsSlot(kind, s) ==
    CASE kind \in {"char", "uchar"} -> s.tag \in {"char", "int", "real"}
      [] kind = "boolean" -> s.tag = "bool"
      [] kind = "string"  -> s = False \/ s.tag = "string"
      [] OTHER            -> s.tag \in {"int", "real"}

\* A double that is assigned to a float
ToCFloat(s) ==
    LET d == ToDouble(s) IN IF d.ok THEN Done(CInt(AsFloat(d.c.int))) ELSE d

\* What construct makes of a slot: a character is no integer for scm_to_char,
\* flags go through scm_to_int.
FromSlot(kind, s) ==
    CASE kind \in DOMAIN IntParams   -> Signed(s, IntParams[kind])
      [] kind \in DOMAIN UIntParams  -> Unsigned(s, UIntParams[kind])
      [] kind = "double"             -> ToDouble(s)
      [] kind = "float"              -> ToCFloat(s)
      [] kind = "boolean"            -> Done(CInt(IF s.b THEN 1 ELSE 0))
      [] kind = "string"             -> Done(IF s = False THEN NULL ELSE CStr(s.s))
      [] kind = "enum"               -> Signed(s, IntBits)
      [] kind = "unichar"            -> Unsigned(s, IntBits)
      [] kind = "flags"              -> LET n == Signed(s, IntBits)
                                        IN IF n.ok THEN Done(CBits(BitsOf(n.c.int % 2 ^ IntBits)))
                                           ELSE n

\* What g_param_spec_int and its like insist on; they return NULL otherwise.
AcceptedByGLib(p) ==
    CASE p.kind \in RangedParams ->
           p.default.int >= p.minimum.int /\ p.default.int =< p.maximum.int
      [] p.kind = "enum"  -> Entry(EnumTable[p.type], Exact(p.default.int)) > 0
      [] p.kind = "flags" -> p.default.bits \subseteq Mask(p.type)
      [] OTHER            -> TRUE

\* The slots are checked when they are set.  Then construct, and
\* %gtype-instance-construct's use of the GParamSpec, which does not look for
\* NULL.  Which argument C evaluates first decides which of several errors is
\* raised: one of them is chosen here.
ConstructParam(slots) ==
    LET flags == TransFlags(slots.flags)
        used  == CASE slots.kind \in RangedParams -> {"minimum", "maximum", "default"}
                   [] slots.kind \in PlainParams  -> {"default"}
                   [] OTHER                       -> {}
        field == [s \in used |-> FromSlot(slots.kind, slots[s])]
        wrong == {s \in used : ~field[s].ok}
        got(s) == IF s \in used THEN field[s].c ELSE NULL
        p     == [kind |-> slots.kind, type |-> slots.type, default |-> got("default"),
                  minimum |-> got("minimum"), maximum |-> got("maximum"),
                  flags |-> BitsOf(flags.c.int)]
    IN CASE ~flags.ok                                       -> flags
         [] \E s \in used : ~AcceptsSlot(slots.kind, slots[s]) -> Raise("gruntime-error")
         [] slots.kind \notin RangedParams \cup PlainParams \cup TypedParams -> Raise("gruntime-error")
         [] wrong # {}         -> field[CHOOSE s \in wrong : TRUE]
         [] ~AcceptedByGLib(p) -> Crash
         [] OTHER              -> Done(p)

\* What the slots of the class hold if the program does not say
DefaultSlots(kind) ==
    [default |-> CASE kind = "char"     -> Char(MaxInt(CharBits))
                   [] kind = "uchar"    -> Char(MaxUInt(CharBits))
                   [] kind = "boolean"  -> False
                   [] kind = "string"   -> Str("")
                   [] kind \in RealParams -> Real(0)
                   [] OTHER             -> Exact(0),
     minimum |-> CASE kind \in {"char", "uchar"} -> Char(0)
                   [] kind \in DOMAIN IntParams  -> Exact(MinInt(IntParams[kind]))
                   [] kind = "float"             -> Real(-MaxFloat)
                   [] kind = "double"            -> Real(-4 * MaxFloat)
                   [] OTHER                      -> Exact(0),
     maximum |-> CASE kind = "char"              -> Char(MaxInt(CharBits))
                   [] kind = "uchar"             -> Char(MaxUInt(CharBits))
                   [] kind \in DOMAIN IntParams  -> Exact(MaxInt(IntParams[kind]))
                   [] kind \in DOMAIN UIntParams -> Exact(MaxUInt(UIntParams[kind]))
                   [] kind = "float"             -> Real(MaxFloat)
                   [] OTHER                      -> Real(4 * MaxFloat)]

=============================================================================
