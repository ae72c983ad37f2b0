--------------------------- MODULE MCRelaySession ---------------------------
EXTENDS RelaySession, TLC
(* Sockets are interchangeable; used only in runs of safety properties.    *)
Symmetry == Permutations(Sockets)
=============================================================================
