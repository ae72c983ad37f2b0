-------------------------- MODULE MCCallLifecycle --------------------------
EXTENDS CallLifecycle, TLC
(* Call ids are interchangeable; used only in runs of safety properties.   *)
Symmetry == Permutations(Calls)
=============================================================================
