------------------------------ MODULE ThreadPages ------------------------------
(***************************************************************************)
(* The thread list of the gmail terminal UI: loads of a label, a search or *)
(* a whole account, the pages that are fetched when the cursor nears the   *)
(* end, threads being opened, and the reducer all their answers go to.     *)
(*                                                                         *)
(* A page of threads is one element [account, query, page] of the list.    *)
(* An empty list and none at all are alike to everything here.  What a     *)
(* dispatch batches is one step; the effects of the render it causes are   *)
(* the step Effects, due when one of their dependencies has changed.  The  *)
(* UI selects single accounts only, and its scope is the session's         *)
(* account.  The thread on screen and the cache of threads are left out: a *)
(* cached thread is one the effect may show at once.                       *)
(***************************************************************************)
EXTENDS Naturals, Sequences, FiniteSets

CONSTANTS
  Accounts, Boot,   \* Boot is active when the UI starts
  Queries, Inbox,   \* Inbox is what an account opens with
  Pages,            \* the pages a query has
  Reads,            \* slots for remote reads under way
  MaxChanges        \* bound: the loads and switches the user asks for

VARIABLES
  account, query,   \* scope and session; lastThreadsQuery
  list, token,      \* threads; nextPageToken
  nearEnd,          \* the cursor is within the last ten threads
  loading, loadingMore,
  lazy,             \* lazyFetchingPageToken
  due,              \* effects are to run
  reads,            \* the reads under way
  changes,
  hasty             \* whether this user acts on the list before it is there,
                    \* or changes it while a page of it is under way

shown == <<account, query, list, token, nearEnd>>
ui == <<shown, loading, loadingMore, lazy, due, reads, changes>>
vars == <<ui, hasty>>

Page == [account : Accounts, query : Queries, page : 1..Pages]
NoPage == [account |-> Boot, query |-> Inbox, page |-> 0]
First(a, q) == [account |-> a, query |-> q, page |-> 1]

(* The nextPageToken of a page's answer                                    *)
MutAfter(p) == [p EXCEPT !.page = @ + 1]

After(p) == IF p.page = Pages THEN NoPage ELSE [p EXCEPT !.page = @ + 1]

NoRead == [kind |-> "none", what |-> NoPage]
Kinds == {"none", "load", "page", "open", "switch"}
Free == {r \in Reads : reads[r].kind = "none"}
UnderWay(kinds) == \E r \in Reads : reads[r].kind \in kinds

(* The UI boots with a load of the inbox.                                  *)
Init ==
  /\ account = Boot /\ query = Inbox
  /\ list = << >> /\ token = NoPage /\ nearEnd = FALSE
  /\ loading = TRUE /\ loadingMore = FALSE /\ lazy = NoPage
  /\ due = FALSE /\ changes = 0 /\ hasty \in BOOLEAN
  /\ \E r \in Reads : reads =
       [s \in Reads |-> IF s = r THEN [kind |-> "load", what |-> First(Boot, Inbox)]
                        ELSE NoRead]

-----------------------------------------------------------------------------
Begin(kind, what) ==
  \E r \in Free : reads' = [reads EXCEPT ![r] = [kind |-> kind, what |-> what]]
End(r) == reads' = [reads EXCEPT ![r] = NoRead]

(* The user changes the list; one slot is left to the effects.             *)
Change ==
  /\ Cardinality(Free) > 1
  /\ changes < MaxChanges /\ changes' = changes + 1
  /\ hasty \/ ~(due \/ UnderWay(Kinds \ {"none"}))

(* SELECT_LABEL and SET_SCOPE                                              *)
Reset ==
  /\ list' = << >> /\ token' = NoPage /\ nearEnd' = FALSE
  /\ loading' = TRUE /\ due' = TRUE

SelectLabel(q) ==
  /\ Change /\ Reset
  /\ Begin("load", First(account, q))
  /\ UNCHANGED <<account, query, loadingMore, lazy>>

(* runSearch leaves the list as it is until the matches are there.         *)
Search(q) ==
  /\ Change
  /\ Begin("load", First(account, q))
  /\ UNCHANGED <<shown, loading, loadingMore, lazy, due>>

(* requestSwitchAccount, also to the account that is active.               *)
SwitchAccount(a) ==
  /\ Change
  /\ IF a = account
     THEN /\ Reset
          /\ Begin("load", First(a, Inbox))
          /\ UNCHANGED <<account, query>>
     ELSE /\ Begin("switch", First(a, Inbox))
          /\ UNCHANGED <<shown, loading, due>>
  /\ UNCHANGED <<loadingMore, lazy>>

(* setSession tells the subscriber of accountChanged if the account is     *)
(* another one: SET_SCOPE and reloadScope, in the slot of the switch.      *)
SwitchAnswers(r) ==
  /\ reads[r].kind = "switch"
  /\ IF reads[r].what.account = account
     THEN End(r) /\ UNCHANGED <<shown, loading, due>>
     ELSE /\ account' = reads[r].what.account
          /\ Reset
          /\ reads' = [reads EXCEPT ![r].kind = "load"]
          /\ UNCHANGED query
  /\ UNCHANGED <<loadingMore, lazy, changes>>

(* SET_ERROR                                                               *)
Fails ==
  /\ loading' = FALSE /\ due' = (due \/ loading)
  /\ UNCHANGED shown

MutReadFails(r) ==
  /\ reads[r].kind \in {"load", "switch", "open"}
  /\ End(r)
  /\ UNCHANGED <<shown, loading, due, loadingMore, lazy, changes>>

ReadFails(r) ==
  /\ reads[r].kind \in {"load", "switch", "open"}
  /\ End(r) /\ Fails
  /\ UNCHANGED <<loadingMore, lazy, changes>>

(* SET_THREADS and SET_LAST_THREADS_QUERY, of reloadScope, a label or a    *)
(* search alike                                                            *)
LoadAnswers(r) ==
  /\ reads[r].kind = "load"
  /\ \/ list' = << >> /\ token' = NoPage /\ nearEnd' = FALSE
     \/ list' = <<reads[r].what>> /\ token' = After(reads[r].what) /\ nearEnd' \in BOOLEAN
  /\ query' = reads[r].what.query
  /\ loading' = FALSE /\ loadingMore' = FALSE /\ due' = TRUE
  /\ End(r)
  /\ UNCHANGED <<account, lazy, changes>>

-----------------------------------------------------------------------------
(* The effect of a pending open: from the cache, already being fetched, or *)
(* by a read.                                                              *)
OpenEffect ==
  /\ loading /\ list # << >>
  /\ \/ loading' = FALSE /\ due' = TRUE /\ UNCHANGED reads
     \/ UnderWay({"open"}) /\ due' = FALSE /\ UNCHANGED <<loading, reads>>
     \/ Begin("open", list[1]) /\ due' = FALSE /\ UNCHANGED loading
  /\ UNCHANGED <<loadingMore, lazy>>

(* The effect that fetches the next page                                   *)
WantsPage == ~loading /\ list # << >> /\ token # NoPage /\ nearEnd

FetchPage ==
  /\ lazy' = token /\ loadingMore' = TRUE
  /\ Begin("page", token)
  /\ due' = FALSE
  /\ UNCHANGED loading

MutLazyEffect == WantsPage /\ FetchPage

LazyEffect == WantsPage /\ lazy # token /\ FetchPage

NoEffect ==
  /\ IF loading THEN list = << >> ELSE ~WantsPage \/ lazy = token
  /\ due' = FALSE
  /\ UNCHANGED <<loading, loadingMore, lazy, reads>>

Effects ==
  /\ due
  /\ OpenEffect \/ LazyEffect \/ NoEffect
  /\ UNCHANGED <<shown, changes>>

(* finally: the ref is let go if it is still this page's.                  *)
MutLetGo(r) == UNCHANGED lazy

LetGo(r) == lazy' = IF lazy = reads[r].what THEN NoPage ELSE lazy

(* APPEND_THREADS, with a list or without one                              *)
PageAnswers(r) ==
  /\ reads[r].kind = "page"
  /\ list' = Append(list, reads[r].what)
  /\ token' = After(reads[r].what)
  /\ nearEnd' \in IF nearEnd \/ list = << >> THEN BOOLEAN ELSE {FALSE}
  /\ loadingMore' = FALSE /\ due' = TRUE
  /\ LetGo(r) /\ End(r)
  /\ UNCHANGED <<account, query, loading, changes>>

PageFails(r) ==
  /\ reads[r].kind = "page"
  /\ loadingMore' = FALSE
  /\ Fails /\ LetGo(r) /\ End(r)
  /\ UNCHANGED changes

-----------------------------------------------------------------------------
(* The cursor moves, a thread is asked for, Esc: not while a list is       *)
(* awaited, unless the user is hasty.                                      *)
Calm == hasty \/ ~UnderWay({"load", "switch"})

MoveCursor ==
  /\ Calm /\ list # << >>
  /\ nearEnd' \in BOOLEAN /\ due' = TRUE
  /\ UNCHANGED <<account, query, list, token, loading, loadingMore, lazy, reads, changes>>

(* OPEN_THREAD, of the thread under the cursor or of a neighbour, and also *)
(* with no thread to open.                                                 *)
OpenThread ==
  /\ Calm
  /\ nearEnd' \in IF list = << >> THEN {nearEnd} ELSE BOOLEAN
  /\ loading' = TRUE /\ due' = TRUE
  /\ UNCHANGED <<account, query, list, token, loadingMore, lazy, reads, changes>>

Cancel ==
  /\ Calm /\ Fails
  /\ UNCHANGED <<loadingMore, lazy, reads, changes>>

(* SET_THREAD and SET_LOADING                                              *)
OpenAnswers(r) ==
  /\ reads[r].kind = "open"
  /\ loading' = FALSE /\ due' = (due \/ loading)
  /\ End(r)
  /\ UNCHANGED <<shown, loadingMore, lazy, changes>>

Step ==
  \/ \E q \in Queries : SelectLabel(q) \/ Search(q)
  \/ \E a \in Accounts : SwitchAccount(a)
  \/ \E r \in Reads : \/ SwitchAnswers(r) \/ ReadFails(r) \/ LoadAnswers(r)
                      \/ PageAnswers(r) \/ PageFails(r) \/ OpenAnswers(r)
  \/ Effects \/ MoveCursor \/ OpenThread \/ Cancel

Next == Step /\ UNCHANGED hasty

Spec == Init /\ [][Next]_vars

Settles(r) ==
  SwitchAnswers(r) \/ ReadFails(r) \/ LoadAnswers(r) \/ OpenAnswers(r)
    \/ PageAnswers(r) \/ PageFails(r)

(* A remote read returns or throws, and React runs the effects.            *)
Fairness == WF_ui(Effects) /\ \A r \in Reads : WF_ui(Settles(r))

FairSpec == Spec /\ Fairness

-----------------------------------------------------------------------------
TypeOK ==
  /\ account \in Accounts /\ query \in Queries
  /\ list \in Seq(Page)
  /\ {token, lazy} \subseteq Page \cup {NoPage}
  /\ {nearEnd, loading, loadingMore, due} \subseteq BOOLEAN
  /\ reads \in [Reads -> [kind : Kinds, what : Page \cup {NoPage}]]
  /\ changes \in 0..MaxChanges /\ hasty \in BOOLEAN

(* The list is a prefix of its query's threads in the account on screen,   *)
(* page after page with none twice and none left out, and the token is     *)
(* that of the next one, while pages are fetched between openings,         *)
(* failures and cancellations, for a user who waits.                       *)
PagesInOrder ==
  ~hasty /\ list # << >> =>
    /\ list = [i \in 1..Len(list) |-> [account |-> account, query |-> query, page |-> i]]
    /\ token = After(list[Len(list)])

(* Paging never gets stuck: the ref that keeps a page from being fetched   *)
(* twice, and the "loading more" shown, always have a read that will end   *)
(* them, whatever list the user has moved on to.                           *)
NoStuckPaging ==
  /\ lazy # NoPage => \E r \in Reads : reads[r] = [kind |-> "page", what |-> lazy]
  /\ loadingMore => UnderWay({"page"})

(* What is loading comes to an end, be it a list or a thread, however the  *)
(* user hurries on and whatever fails.                                     *)
LoadingEnds ==
  (loading /\ (list # << >> \/ UnderWay({"load"}))) ~> ~loading

(* "When scope changes, threads is reset to null by the SET_SCOPE reducer, *)
(* so the late-arriving APPEND_THREADS would just no-op".                  *)
LatePageDropped ==
  [][\A r \in Reads :
       reads[r].kind = "page" /\ reads'[r] = NoRead /\ list = << >> => list' = << >>]_vars
=============================================================================
