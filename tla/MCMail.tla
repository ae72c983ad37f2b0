-------------------------------- MODULE MCMail --------------------------------
(***************************************************************************)
(* What gmail-mcp keeps over a remote call: a batch of the tool server,    *)
(* the pages of the terminal UI, and the drafts written in it.  They share *)
(* nothing, so a behaviour lets one of them run, chosen at the start from  *)
(* Parts; while another does, the batch is the one of an empty list, the   *)
(* UI shows an empty list and awaits nothing, and no editor is opened.     *)
(***************************************************************************)
EXTENDS MailBatches, TLC

CONSTANTS
  Parts,
  Accounts, Boot, Queries, Inbox, Pages, Reads, MaxChanges,
  MaxEditors, MaxTexts, MaxLives

ASSUME MailAssumption ==
  /\ Parts \subseteq {"batch", "pages", "drafts"}
  /\ Boot \in Accounts /\ Inbox \in Queries
  /\ Pages \in Nat \ {0} /\ MaxChanges \in Nat
  /\ MaxEditors \in Nat /\ MaxTexts \in Nat /\ MaxLives \in Nat \ {0}

VARIABLES
  part,
  account, query, list, token, nearEnd, loading, loadingMore, lazy, due, reads,
  changes, hasty,
  file, session, opened, attached, overlay, texts, life, delivered, given

Threads == INSTANCE ThreadPages

Drafts == INSTANCE DraftCompose

threads == <<account, query, list, token, nearEnd, loading, loadingMore, lazy,
             due, reads, changes, hasty>>

drafts == <<file, session, opened, attached, overlay, texts, life, delivered,
            given>>

NoBatch == op = "modify" /\ batchSize = 1 /\ count = 0

NothingShown ==
  /\ account = Boot /\ query = Inbox
  /\ list = << >> /\ token = Threads!NoPage /\ nearEnd = FALSE
  /\ loading = FALSE /\ loadingMore = FALSE /\ lazy = Threads!NoPage
  /\ due = FALSE /\ changes = 0 /\ hasty = FALSE
  /\ reads = [r \in Reads |-> Threads!NoRead]

MailInit ==
  /\ part \in Parts
  /\ Init /\ Drafts!Init
  /\ part # "batch" => NoBatch
  /\ \/ part = "pages" /\ Threads!Init
     \/ part # "pages" /\ NothingShown

MailNext ==
  /\ \/ part = "batch" /\ Next /\ UNCHANGED <<threads, drafts>>
     \/ part = "pages" /\ Threads!Next /\ UNCHANGED <<vars, drafts>>
     \/ part = "drafts" /\ Drafts!Next /\ UNCHANGED <<vars, threads>>
  /\ UNCHANGED part

MailSpec ==
  MailInit /\ [][MailNext]_<<part, vars, threads, drafts>> /\ Threads!Fairness

-----------------------------------------------------------------------------
(* The variables of the thread list have their types.                      *)
TypesOK == Threads!TypeOK

(* See ThreadPages: the list is a prefix of its query, page after page.    *)
PagesInOrder == Threads!PagesInOrder

(* See ThreadPages: paging never gets stuck.                               *)
NoStuckPaging == Threads!NoStuckPaging

(* See DraftCompose: what was saved is on disk, at Gmail, or given up.      *)
WritingSurvives == Drafts!WritingSurvives

(* See ThreadPages: what is loading comes to an end.                       *)
LoadingEnds == Threads!LoadingEnds
=============================================================================
