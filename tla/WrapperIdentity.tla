--------------------------- MODULE WrapperIdentity ---------------------------
(***************************************************************************)
(* What the bindings promise about object identity, without reference      *)
(* counts, caches or construction: an instance has at most one wrapper at  *)
(* a time, a wrapper stands for one instance only, a wrapper is never      *)
(* exchanged for another one in a single step, and an instance does not    *)
(* go away while it has a wrapper.                                         *)
(***************************************************************************)
CONSTANTS Instances, Wrappers, None

VARIABLES
    alive,   \* the instances that exist
    view     \* view[i]: what Scheme sees when it is handed instance i

vars == <<alive, view>>

Init ==
    /\ alive = {}
    /\ view = [i \in Instances |-> None]

Create(i) ==
    /\ i \notin alive
    /\ alive' = alive \cup {i}
    /\ UNCHANGED view

Attach(i, w) ==
    /\ i \in alive
    /\ view[i] = None
    /\ \A j \in Instances : view[j] # w
    /\ view' = [view EXCEPT ![i] = w]
    /\ UNCHANGED alive

\* The instance may have been kept alive by its wrapper only.
Detach(i) ==
    /\ view[i] # None
    /\ view' = [view EXCEPT ![i] = None]
    /\ alive' \in {alive, alive \ {i}}

Free(i) ==
    /\ view[i] = None
    /\ alive' = alive \ {i}
    /\ UNCHANGED view

Next ==
    \E i \in Instances :
        \/ Create(i) \/ Detach(i) \/ Free(i)
        \/ \E w \in Wrappers : Attach(i, w)

Spec == Init /\ [][Next]_vars
=============================================================================
