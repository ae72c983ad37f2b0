----------------------------- MODULE MCConsult -----------------------------
EXTENDS Consult, TLC
(* One text is put to a member, one to a member it shares with a text that *)
(* normalises to nothing, and one to somebody who is not on the call.      *)
MCAddressee == ("t1" :> "m1") @@ ("t2" :> "m1") @@ ("t3" :> "stranger")
=============================================================================
