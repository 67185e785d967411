------------------------------ MODULE MCCallbacks ------------------------------
(***************************************************************************)
(* One slot of each kind.                                                  *)
(***************************************************************************)
EXTENDS Callbacks, TLC

MCKindOf == [source |-> "watch", connection |-> "notify", column |-> "cell",
             menu |-> "popup", radios |-> "radio", action |-> "action", object |-> "handler"]
MCRadioKindOf == [source |-> "watch", column |-> "cell", group |-> "radio", menu |-> "popup"]
MCSymmetry == Permutations(Procs)
===============================================================================
