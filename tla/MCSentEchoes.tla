---------------------------- MODULE MCSentEchoes ----------------------------
EXTENDS SentEchoes, TLC
(* Two sends that say the same, and sends that differ.                     *)
MCSameText == [s \in Sends |-> "a"]
MCTextOf == [s \in Sends |-> IF s = "s1" THEN "a" ELSE "b"]
(* Waits are interchangeable; used only in runs of safety properties.      *)
Symmetry == Permutations(Waits)
=============================================================================
