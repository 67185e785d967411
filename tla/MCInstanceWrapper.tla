-------------------------- MODULE MCInstanceWrapper --------------------------
(***************************************************************************)
(* Model-checking instances of InstanceWrapper.                            *)
(***************************************************************************)
EXTENDS InstanceWrapper, TLC

\* Instances, wrappers and threads are interchangeable in the safety runs.
Symmetry ==
    Permutations(Instances) \cup Permutations(Wrappers)
        \cup Permutations(Threads)
=============================================================================
