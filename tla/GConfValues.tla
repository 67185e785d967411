---------------------------- MODULE GConfValues ----------------------------
(***************************************************************************)
(* The conversion of Scheme values to GConf values and back                *)
(* (gconf/gnome/gw/gconf-support.c).  A GConfValue is a record of its type *)
(* and what it holds; a list also has the type of its elements, each of    *)
(* which is a GConfValue.                                                  *)
(***************************************************************************)
EXTENDS Values

GConf(t, c)     == [gconf |-> t, c |-> c]
GConfList(t, q) == [gconf |-> "list", of |-> t, elems |-> q]
GConfPair(a, d) == [gconf |-> "pair", car |-> a, cdr |-> d]

\* scm_c_scm_to_gconf_value.  scm_exact_p raises for what is no number, so
\* that the branches for strings, lists and pairs that follow it (and with
\* them sniff_list_type) are never reached.
ScmToGConf(s) ==
    CASE s.tag = "bool" -> Done(GConf("bool", CInt(IF s.b THEN 1 ELSE 0)))
      [] s.tag = "int"  ->
           IF s.n > MaxInt(IntBits) THEN Raise("misc-error")
           ELSE LET n == Signed(s, IntBits)
                IN IF n.ok THEN Done(GConf("int", n.c)) ELSE n
      [] s.tag = "real" -> Done(GConf("float", CInt(s.x)))
      [] OTHER          -> Raise("wrong-type-arg")

\* The elements of a list are taken for plain data, though each is a
\* GConfValue of its own: a number or a Boolean is its address, a string or a
\* float its first bytes, which are freed while the list owns them.  The
\* result ends in the marker that reverse! is given for a tail.
Improper == [tag |-> "improper"]

ListToScm(v) ==
    IF v.elems # <<>> /\ v.of \notin {"int", "bool"} THEN Crash ELSE Done(Improper)

\* scm_c_gconf_value_to_scm
GConfToScm(v) ==
    LET plain(w) ==
          CASE w.gconf = "string" -> Done(Str(w.c.str))
            [] w.gconf = "int"    -> Done(Exact(w.c.int))
            [] w.gconf = "float"  -> Done(Real(w.c.int))
            [] w.gconf = "bool"   -> Done(Bool(w.c.int # 0))
            [] w.gconf = "schema" -> Done(GVal("GConfSchema", w.c))
            [] w.gconf = "list"   -> ListToScm(w)
            [] OTHER              -> Raise("unknown-value")
        car == plain(v.car)
        cdr == plain(v.cdr)
    IN CASE v.gconf = "unset" -> Raise("value-unset")
         [] v.gconf = "pair"  -> IF ~car.ok THEN car ELSE IF ~cdr.ok THEN cdr
                                 ELSE Done([tag |-> "pair", car |-> car.c, cdr |-> cdr.c])
         [] OTHER             -> plain(v)

=============================================================================
