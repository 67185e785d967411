----------------------------- MODULE MCMainLoop -----------------------------
(* Contexts of the loops for the model checker. *)
EXTENDS MainLoop

CONSTANTS main, nested, default, other

OneContext == [l \in Loops |-> Default]
TwoContexts == [l \in Loops |-> IF l = nested THEN other ELSE Default]
=============================================================================
