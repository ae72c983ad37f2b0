---------------------------- MODULE MCEventFeed ----------------------------
EXTENDS EventFeed, TLC
(* Two questions to another member and an event of another call come     *)
(* before what the member waits for.                                     *)
MCAudience == <<"m2", "other", "m2", "all">>
MCAs == [p \in Pollers |-> IF p = "host" THEN "host" ELSE "m1"]
=============================================================================
