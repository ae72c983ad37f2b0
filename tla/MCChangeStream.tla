--------------------------- MODULE MCChangeStream ---------------------------
EXTENDS ChangeStream, TLC
(* The last of four rows belongs to a thread that is not open.             *)
MCThreadOf == [r \in 1..MaxRows |-> IF r = 4 THEN "b" ELSE "a"]
=============================================================================
