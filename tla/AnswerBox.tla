----------------------------- MODULE AnswerBox -----------------------------
(***************************************************************************)
(* What the consult channel of one call promises to both ends, without     *)
(* rows, holds, polls or restarts.  A question is put once; while it is    *)
(* open it takes one answer, or is shut; whatever the asking side is ever  *)
(* told as the answer is that one answer; and from the end of the call on  *)
(* no question is put and no answer taken.                                 *)
(***************************************************************************)
EXTENDS Naturals

CONSTANTS
  Questions,   \* the questions that may be put on the call
  Answers,     \* what may be answered
  NoAnswer     \* "no answer yet"

VARIABLES box,     \* question -> where it stands
          said,    \* question -> the answer taken for it
          heard,   \* pairs <<q, a>> the asking side was told
          closed   \* the call is over

boxVars == <<box, said, heard, closed>>

BoxInit ==
  /\ box = [q \in Questions |-> "empty"]
  /\ said = [q \in Questions |-> NoAnswer]
  /\ heard = {}
  /\ closed = FALSE

(* A question is put; it may be refused in the same breath.                *)
Put(q, stage) ==
  /\ ~closed /\ box[q] = "empty" /\ stage \in {"open", "shut"}
  /\ box' = [box EXCEPT ![q] = stage]
  /\ UNCHANGED <<said, heard, closed>>

(* The one answer is taken, and perhaps told to an asker who waits.        *)
Answer(q, a, told, hears) ==
  /\ ~closed /\ box[q] = "open"
  /\ box' = [box EXCEPT ![q] = IF told THEN "read" ELSE "full"]
  /\ said' = [said EXCEPT ![q] = a]
  /\ heard' = IF told /\ hears THEN heard \cup {<<q, a>>} ELSE heard
  /\ UNCHANGED closed

(* The asking side fetches the answer, as often as it likes; the reply may *)
(* be lost on its way.                                                     *)
Fetch(q, hears) ==
  /\ ~closed /\ box[q] \in {"full", "read"}
  /\ box' = [box EXCEPT ![q] = "read"]
  /\ heard' = IF hears THEN heard \cup {<<q, said[q]>>} ELSE heard
  /\ UNCHANGED <<said, closed>>

(* Open questions are given up, at or after the end of the call.           *)
Shut(S) ==
  /\ S \subseteq {q \in Questions : box[q] = "open"}
  /\ box' = [q \in Questions |-> IF q \in S THEN "shut" ELSE box[q]]
  /\ closed' = TRUE
  /\ UNCHANGED <<said, heard>>

BoxNext ==
  \/ \E q \in Questions :
       \/ \E stage \in {"open", "shut"} : Put(q, stage)
       \/ \E a \in Answers, told, hears \in BOOLEAN : Answer(q, a, told, hears)
       \/ \E hears \in BOOLEAN : Fetch(q, hears)
  \/ \E S \in SUBSET Questions : Shut(S)

BoxSpec == BoxInit /\ [][BoxNext]_boxVars
=============================================================================
