------------------------------ MODULE RowFeed ------------------------------
(***************************************************************************)
(* What the change watcher of the imsg database and the event feed of the  *)
(* gateway promise a subscriber, without drains, pages, polls or           *)
(* reconnects: rows are appended to a table, and a cursor moves over them; *)
(* whatever it passes that is not hidden is told, once, when it is passed. *)
(***************************************************************************)
EXTENDS Naturals

CONSTANTS
  MaxRows,   \* bound: rows that may be appended
  Hidden     \* rows no subscriber is told of

VARIABLES written,   \* rows 1..written exist
          cursor,    \* rows 1..cursor were passed
          told       \* row -> how often it was told

feedVars == <<written, cursor, told>>

FeedInit ==
  /\ written = 0 /\ cursor = 0
  /\ told = [r \in 1..MaxRows |-> 0]

AppendRow ==
  /\ written < MaxRows
  /\ written' = written + 1
  /\ UNCHANGED <<cursor, told>>

(* The cursor moves to a row that exists, over everything before it.       *)
Advance(upto) ==
  /\ upto \in (cursor + 1)..written
  /\ cursor' = upto
  /\ told' = [r \in 1..MaxRows |->
                IF r \in (cursor + 1)..upto /\ r \notin Hidden
                THEN told[r] + 1 ELSE told[r]]
  /\ UNCHANGED written

FeedNext == AppendRow \/ \E upto \in 1..MaxRows : Advance(upto)

FeedSpec == FeedInit /\ [][FeedNext]_feedVars
=============================================================================
