------------------------------ MODULE Consult ------------------------------
(***************************************************************************)
(* The consult channel of one live call (askConsult, answerConsult,        *)
(* holdConsult, cancelConsults): the platform's agent asks the originator, *)
(* its request is held until the answer, the end of the hold window, the   *)
(* end of the call or the loss of the request, and an answer that came     *)
(* late can be collected.                                                  *)
(*                                                                         *)
(* Questions are rows of SQLite, numbered per call by `seq`; holds and the *)
(* record of who listens are memory of the process and die with it.  Each  *)
(* handler is one synchronous stretch up to its hold, so it is one action; *)
(* `cut` names where the process may die between two statements of it.     *)
(***************************************************************************)
EXTENDS Naturals, FiniteSets

CONSTANTS
  MaxQuestions,   \* bound: rows that may be inserted
  MaxRequests,    \* bound: tool calls that may arrive
  Texts,          \* normalised questions, each put to one addressee
  Blank,          \* those of which the normalisation leaves nothing
  Members,        \* the addressees ({""} on a call that is no meeting)
  Addressee,      \* Texts -> whom a text is put to
  Answers,        \* what the originator may answer
  NoAnswer,       \* answer IS NULL
  NoText,         \* no row yet
  MaxPending,     \* consult.maxPendingPerCall
  MaxPolls,       \* bound: long-polls open at once per addressee
  MaxCrashes,     \* bound: times the process goes down
  Torn            \* may the process die between two statements

Questions == 1..MaxQuestions
Requests == 1..MaxRequests

ASSUME ConsultAssumption ==
  /\ MaxQuestions \in Nat /\ MaxRequests \in Nat
  /\ MaxPending \in Nat /\ MaxPolls \in Nat /\ MaxCrashes \in Nat
  /\ IsFiniteSet(Texts) /\ Blank \subseteq Texts
  /\ NoText \notin Texts /\ NoAnswer \notin Answers
  /\ Addressee \in [Texts -> Members \cup {"stranger"}]
  /\ "stranger" \notin Members
  /\ Torn \in BOOLEAN

VARIABLES
  \* SQLite: consult_questions, the call's status, consult.delivered events
  row,         \* question -> status; "none" while there is no row
  text,        \* question -> its text and addressee
  answer,      \* question -> its answer
  over,        \* the call's status is terminal
  deliveries,  \* question -> consult.delivered events appended
  \* memory of the process
  up,
  held,        \* request -> "no", "short" (a zero hold) or "window"
  open,        \* hostPolls: long-polls open, per addressee
  recent,      \* hostPolls: addressees whose last poll is recent enough
  \* the world
  about,       \* request -> the question it is about, 0 for none
  reply,       \* request -> what came back; "none" before
  words,       \* request -> the answer that came back
  told,        \* question -> what the originator was told of its answer
  expired,     \* questions whose hold window has passed
  crashes

store == <<row, text, answer, over, deliveries>>
memory == <<up, held, open, recent>>
agentSide == <<about, reply, words>>
vars == <<store, memory, agentSide, told, expired, crashes>>

RowStates == {"none", "pending", "answered", "delivered", "unanswered", "cancelled"}
Replies == {"none", "answered", "pending", "unavailable", "call_ended", "busy",
            "not_found", "not_on_call", "lost"}

Pending == {q \in Questions : row[q] = "pending"}
Waiting(r) == held[r] # "no"

(* A tool call that has not arrived; they are numbered by arrival.         *)
Fresh(r) == /\ reply[r] = "none" /\ ~Waiting(r)
            /\ \A s \in 1..(r - 1) : reply[s] # "none" \/ Waiting(s)

(* insertConsultQuestion: the next seq.                                    *)
NextSeq(q) == row[q] = "none" /\ \A p \in 1..(q - 1) : row[p] # "none"

isHostListening(m) == m \in Members /\ (open[m] > 0 \/ m \in recent)

(* findPendingConsultByNorm.                                               *)
Matches(t, q) == row[q] = "pending" /\ text[q] = t /\ t \notin Blank

-----------------------------------------------------------------------------
Init ==
  /\ row = [q \in Questions |-> "none"]
  /\ text = [q \in Questions |-> NoText]
  /\ answer = [q \in Questions |-> NoAnswer]
  /\ over = FALSE
  /\ deliveries = [q \in Questions |-> 0]
  /\ up = TRUE
  /\ held = [r \in Requests |-> "no"]
  /\ open = [m \in Members |-> 0]
  /\ recent = {}
  /\ about = [r \in Requests |-> 0]
  /\ reply = [r \in Requests |-> "none"]
  /\ words = [r \in Requests |-> NoAnswer]
  /\ told = [q \in Questions |-> "nothing"]
  /\ expired = {}
  /\ crashes = 0

(* The process is gone; the agent sees its held requests fail.             *)
Halt ==
  /\ crashes < MaxCrashes
  /\ crashes' = crashes + 1
  /\ up' = FALSE
  /\ held' = [r \in Requests |-> "no"]
  /\ open' = [m \in Members |-> 0]
  /\ recent' = {}

HaltWithHolds ==
  /\ Halt
  /\ reply' = [r \in Requests |-> IF Waiting(r) THEN "lost" ELSE reply[r]]
  /\ UNCHANGED <<about, words>>

(* A request about q (or about nothing) comes back with no answer.         *)
Reply(r, q, s) ==
  /\ reply' = [reply EXCEPT ![r] = s]
  /\ about' = [about EXCEPT ![r] = q]
  /\ held' = [held EXCEPT ![r] = "no"]
  /\ UNCHANGED words

Hold(r, q, span) ==
  /\ held' = [held EXCEPT ![r] = span]
  /\ about' = [about EXCEPT ![r] = q]
  /\ UNCHANGED <<reply, words>>

(* What is left of the hold window of q.                                   *)
Remaining(q) == IF q \in expired THEN "short" ELSE "window"

(* deliverConsult: the answered -> delivered claim, its event, the reply.  *)
Delivered(q) ==
  /\ row' = [row EXCEPT ![q] = "delivered"]
  /\ deliveries' = [deliveries EXCEPT ![q] = IF row[q] = "answered" THEN @ + 1 ELSE @]

-----------------------------------------------------------------------------
(* askConsult with a question.                                             *)

AskRefused(r, t) ==
  /\ up /\ Fresh(r)
  /\ \/ over /\ Reply(r, 0, "call_ended")
     \/ ~over /\ Addressee[t] \notin Members /\ Reply(r, 0, "not_on_call")
     \/ /\ ~over /\ Addressee[t] \in Members
        /\ ~ \E q \in Questions : Matches(t, q)
        /\ Cardinality(Pending) >= MaxPending
        /\ Reply(r, 0, "busy")
  /\ UNCHANGED <<store, up, open, recent, told, expired, crashes>>

(* A repeat joins the pending row, whatever is left of its window.         *)
AskJoins(r, t, q) ==
  /\ up /\ Fresh(r) /\ ~over /\ Addressee[t] \in Members
  /\ Matches(t, q) /\ \A p \in 1..(q - 1) : ~Matches(t, p)
  /\ Hold(r, q, Remaining(q))
  /\ UNCHANGED <<store, up, open, recent, told, expired, crashes>>

Insert(q, t, s) ==
  /\ row' = [row EXCEPT ![q] = s]
  /\ text' = [text EXCEPT ![q] = t]
  /\ UNCHANGED <<answer, over, deliveries>>

(* A new question: held if its addressee listens, closed at once if not.   *)
MutAskNew(r, t, q) ==
  /\ up /\ Fresh(r) /\ ~over /\ Addressee[t] \in Members
  /\ ~ \E p \in Questions : Matches(t, p)
  /\ Cardinality(Pending) <= MaxPending /\ NextSeq(q)
  /\ IF isHostListening(Addressee[t])
       THEN Insert(q, t, "pending") /\ Hold(r, q, "window")
       ELSE Insert(q, t, "unanswered") /\ Reply(r, q, "unavailable")
  /\ UNCHANGED <<up, open, recent, told, expired, crashes>>

AskNew(r, t, q) ==
  /\ up /\ Fresh(r) /\ ~over /\ Addressee[t] \in Members
  /\ ~ \E p \in Questions : Matches(t, p)
  /\ Cardinality(Pending) < MaxPending /\ NextSeq(q)
  /\ IF isHostListening(Addressee[t])
       THEN Insert(q, t, "pending") /\ Hold(r, q, "window")
       ELSE Insert(q, t, "unanswered") /\ Reply(r, q, "unavailable")
  /\ UNCHANGED <<up, open, recent, told, expired, crashes>>

(* The process dies after the insert, or after closing what nobody hears.  *)
AskTorn(r, t, q) ==
  /\ Torn /\ up /\ Fresh(r) /\ ~over /\ Addressee[t] \in Members
  /\ ~ \E p \in Questions : Matches(t, p)
  /\ Cardinality(Pending) < MaxPending /\ NextSeq(q)
  /\ \/ Insert(q, t, "pending")
     \/ ~isHostListening(Addressee[t]) /\ Insert(q, t, "unanswered")
  /\ Halt
  /\ reply' = [s \in Requests |-> IF s = r \/ Waiting(s) THEN "lost" ELSE reply[s]]
  /\ UNCHANGED <<about, words, told, expired>>

(* askConsult with collect_question_id.                                    *)
Collect(r, q) ==
  /\ up /\ Fresh(r) /\ ~over
  /\ \/ /\ row[q] = "none" /\ Reply(r, 0, "not_found") /\ UNCHANGED store
     \/ /\ row[q] \in {"answered", "delivered"}
        /\ Delivered(q)
        /\ reply' = [reply EXCEPT ![r] = "answered"]
        /\ about' = [about EXCEPT ![r] = q]
        /\ words' = [words EXCEPT ![r] = answer[q]]
        /\ UNCHANGED <<text, answer, over, held>>
     \/ /\ row[q] = "unanswered" /\ Reply(r, q, "unavailable") /\ UNCHANGED store
     \/ /\ row[q] = "pending" /\ UNCHANGED store
        /\ Hold(r, q, IF isHostListening(Addressee[text[q]]) THEN Remaining(q) ELSE "short")
  /\ UNCHANGED <<up, open, recent, told, expired, crashes>>

(* The process dies between the delivered claim and its event.             *)
CollectTorn(r, q) ==
  /\ Torn /\ up /\ Fresh(r) /\ ~over /\ row[q] = "answered"
  /\ row' = [row EXCEPT ![q] = "delivered"]
  /\ Halt
  /\ reply' = [s \in Requests |-> IF s = r \/ Waiting(s) THEN "lost" ELSE reply[s]]
  /\ UNCHANGED <<text, answer, over, deliveries, about, words, told, expired>>

-----------------------------------------------------------------------------
(* How a hold ends: onTimeout, onAbort.  A waiter is gone as soon as its   *)
(* row moves, so the re-read of onTimeout finds the row pending.           *)

MutOnTimeout(r) ==
  /\ held[r] = "window" /\ about[r] \in expired
  /\ row[about[r]] = "pending"
  /\ Reply(r, about[r], "pending")
  /\ UNCHANGED <<store, up, open, recent, told, expired, crashes>>

onTimeout(r) ==
  /\ Waiting(r)
  /\ held[r] = "short" \/ about[r] \in expired
  /\ row[about[r]] = "pending"
  /\ Reply(r, about[r], "pending")
  /\ UNCHANGED <<store, up, open, recent, told, expired, crashes>>

onAbort(r) ==
  /\ Waiting(r)
  /\ Reply(r, about[r], "unavailable")
  /\ UNCHANGED <<store, up, open, recent, told, expired, crashes>>

-----------------------------------------------------------------------------
(* answer_consult: the pending -> answered claim, then the waiters, the    *)
(* first of which makes the answered -> delivered claim.                   *)
Holders(q) == {r \in Requests : Waiting(r) /\ about[r] = q}

MutClaimable(q) == row[q] \in {"pending", "answered", "delivered"}
Claimable(q) == row[q] = "pending"

Woken(q) == Holders(q)

answerConsult(q, a) ==
  /\ up /\ ~over /\ Claimable(q)
  /\ answer' = [answer EXCEPT ![q] = a]
  /\ row' = [row EXCEPT ![q] = IF Woken(q) # {} THEN "delivered" ELSE "answered"]
  /\ deliveries' = [deliveries EXCEPT ![q] = IF Woken(q) # {} THEN @ + 1 ELSE @]
  /\ reply' = [r \in Requests |-> IF r \in Woken(q) THEN "answered" ELSE reply[r]]
  /\ words' = [r \in Requests |-> IF r \in Woken(q) THEN a ELSE words[r]]
  /\ held' = [r \in Requests |-> IF r \in Woken(q) THEN "no" ELSE held[r]]
  /\ told' = [told EXCEPT ![q] = IF Holders(q) # {} THEN "delivered" ELSE "collectable"]
  /\ UNCHANGED <<text, over, up, open, recent, about, expired, crashes>>

(* The process dies after the first or the second of the two claims.       *)
AnswerTorn(q, a) ==
  /\ Torn /\ up /\ ~over /\ Claimable(q)
  /\ answer' = [answer EXCEPT ![q] = a]
  /\ \/ row' = [row EXCEPT ![q] = "answered"]
     \/ Holders(q) # {} /\ row' = [row EXCEPT ![q] = "delivered"]
  /\ HaltWithHolds
  /\ UNCHANGED <<text, over, deliveries, told, expired>>

-----------------------------------------------------------------------------
(* Listening: a get_call_events poll with waitMs begins and ends, and the  *)
(* last one becomes older than hostIdleSec.  Once the call is over nothing *)
(* reads this, and it is not followed further.                             *)

noteHostPoll(m) ==
  /\ up /\ ~over /\ open[m] < MaxPolls
  /\ open' = [open EXCEPT ![m] = @ + 1]
  /\ recent' = recent \cup {m}
  /\ UNCHANGED <<store, up, held, agentSide, told, expired, crashes>>

PollEnds(m) ==
  /\ open[m] > 0
  /\ open' = [open EXCEPT ![m] = @ - 1]
  /\ recent' = recent \cup {m}
  /\ UNCHANGED <<store, up, held, agentSide, told, expired, crashes>>

HostIdles(m) ==
  /\ m \in recent /\ ~over
  /\ recent' = recent \ {m}
  /\ UNCHANGED <<store, up, held, open, agentSide, told, expired, crashes>>

(* Only a pending row is ever asked how much of its window is left.        *)
WindowPasses(q) ==
  /\ row[q] = "pending" /\ q \notin expired
  /\ expired' = expired \cup {q}
  /\ UNCHANGED <<store, memory, agentSide, told, crashes>>

-----------------------------------------------------------------------------
(* The call becomes terminal, by any path: the event that says so runs     *)
(* cancelConsults.                                                         *)

MutCancelled(S) ==
  row' = [q \in Questions |-> IF q \in S \/ row[q] = "answered" THEN "cancelled" ELSE row[q]]
Cancelled(S) == row' = [q \in Questions |-> IF q \in S THEN "cancelled" ELSE row[q]]

MutReleased == {r \in Requests : held[r] = "window"}
Released == {r \in Requests : Waiting(r) /\ about[r] \in Pending}

cancelConsults ==
  /\ Cancelled(Pending)
  /\ reply' = [r \in Requests |-> IF r \in Released THEN "call_ended" ELSE reply[r]]
  /\ held' = [r \in Requests |-> IF r \in Released THEN "no" ELSE held[r]]
  /\ open' = [m \in Members |-> 0]
  /\ recent' = {}
  /\ UNCHANGED <<about, words>>

CallEnds ==
  /\ up /\ ~over /\ over' = TRUE
  /\ cancelConsults
  /\ UNCHANGED <<text, answer, deliveries, up, told, expired, crashes>>

(* The process dies with some of the pending rows cancelled.               *)
CallEndsTorn(S) ==
  /\ Torn /\ up /\ ~over /\ over' = TRUE
  /\ S \subseteq Pending /\ Cancelled(S)
  /\ HaltWithHolds
  /\ UNCHANGED <<text, answer, deliveries, told, expired>>

-----------------------------------------------------------------------------
shutdown ==
  /\ up /\ HaltWithHolds
  /\ UNCHANGED <<store, told, expired>>

(* startGateway: sweepEndedConsults.                                       *)
sweepEndedConsults == IF over THEN Cancelled(Pending) ELSE row' = row

startGateway ==
  /\ ~up /\ up' = TRUE
  /\ sweepEndedConsults
  /\ UNCHANGED <<text, answer, over, deliveries, held, open, recent, agentSide,
                 told, expired, crashes>>

-----------------------------------------------------------------------------
Next ==
  \/ CallEnds \/ shutdown \/ startGateway
  \/ \E S \in SUBSET Questions : CallEndsTorn(S)
  \/ \E m \in Members : noteHostPoll(m) \/ PollEnds(m) \/ HostIdles(m)
  \/ \E r \in Requests :
       \/ onTimeout(r) \/ onAbort(r)
       \/ \E t \in Texts :
            \/ AskRefused(r, t)
            \/ \E q \in Questions : AskJoins(r, t, q) \/ AskNew(r, t, q) \/ AskTorn(r, t, q)
       \/ \E q \in Questions : Collect(r, q) \/ CollectTorn(r, q)
  \/ \E q \in Questions :
       \/ WindowPasses(q)
       \/ \E a \in Answers : answerConsult(q, a) \/ AnswerTorn(q, a)

Spec == Init /\ [][Next]_vars

(* The clock reaches the end of a hold window, and timers fire.  Nothing   *)
(* is asked of the originator, of the agent or of the call.                *)
Fairness ==
  /\ \A q \in Questions : WF_vars(WindowPasses(q))
  /\ \A r \in Requests : WF_vars(onTimeout(r))

FairSpec == Spec /\ Fairness

-----------------------------------------------------------------------------
(* Types: every variable keeps the shape the schema and the service's maps *)
(* give it, and questions and requests are numbered without gaps.          *)
TypeOK ==
  /\ row \in [Questions -> RowStates]
  /\ text \in [Questions -> Texts \cup {NoText}]
  /\ answer \in [Questions -> Answers \cup {NoAnswer}]
  /\ over \in BOOLEAN
  /\ deliveries \in [Questions -> Nat]
  /\ up \in BOOLEAN
  /\ held \in [Requests -> {"no", "short", "window"}]
  /\ open \in [Members -> Nat]
  /\ recent \subseteq Members
  /\ about \in [Requests -> Questions \cup {0}]
  /\ reply \in [Requests -> Replies]
  /\ words \in [Requests -> Answers \cup {NoAnswer}]
  /\ told \in [Questions -> {"nothing", "delivered", "collectable"}]
  /\ expired \subseteq Questions
  /\ crashes \in Nat

(* No request is ever held on a question that has moved on: every path     *)
(* that answers, closes or cancels a row also lets its waiters go, and     *)
(* none is held by a stopped process or on a call that is over.            *)
HeldMeansPending ==
  \A r \in Requests :
    Waiting(r) => /\ up /\ ~over /\ reply[r] = "none"
                  /\ about[r] \in Pending

(* The cap of questions the originator may owe at once holds across joins, *)
(* timeouts and restarts (consult.maxPendingPerCall).                      *)
PendingBound == Cardinality(Pending) <= MaxPending

(* The originator is never shown one question twice: no two pending rows   *)
(* carry the same words to the same addressee ("joins the existing row").  *)
NoTwinQuestions ==
  \A p, q \in Pending : text[p] = text[q] /\ text[p] \notin Blank => p = q

(* Whatever any request was told as the answer, held or collected, before  *)
(* or after a restart, is the one answer of its question (D-94: the first  *)
(* answer wins).                                                           *)
HeardIsTheAnswer ==
  \A r \in Requests :
    reply[r] = "answered" =>
      /\ about[r] \in Questions
      /\ row[about[r]] = "delivered" /\ words[r] = answer[about[r]]

(* One consult.delivered per question, however many requests wait for it   *)
(* or collect it (the answered -> delivered claim).                        *)
DeliveredOnce ==
  \A q \in Questions : deliveries[q] <= (IF row[q] = "delivered" THEN 1 ELSE 0)

(* An originator told `delivered: true` answered a request that was really *)
(* waiting and was given the answer.                                       *)
PromiseKept ==
  \A q \in Questions :
    told[q] = "delivered" =>
      \E r \in Requests : reply[r] = "answered" /\ about[r] = q

(* While the gateway is up, nobody owes an answer on a call that is over:  *)
(* the terminal event cancels, and startGateway sweeps what a crash left.  *)
EndedLeavesNothingPending == up /\ over => Pending = {}

(* No request is left waiting on a question that is settled, no originator *)
(* was promised a delivery that did not happen, and none owes an answer to *)
(* a call that is over.                                                    *)
NobodyForgotten == HeldMeansPending /\ PromiseKept /\ EndedLeavesNothingPending

(* The originator's queue stays within its cap and free of twins.          *)
QueueSound == PendingBound /\ NoTwinQuestions

(* A question has one answer, and its delivery is announced once.          *)
OneAnswer == HeardIsTheAnswer /\ DeliveredOnce

(* askConsult always resolves: no request waits for ever, whatever the     *)
(* originator, the agent and the call do.                                  *)
HoldsEnd == \A r \in Requests : Waiting(r) ~> ~Waiting(r)

-----------------------------------------------------------------------------
(* The channel keeps the promise of AnswerBox.                             *)
Stage == [none |-> "empty", pending |-> "open", answered |-> "full",
          delivered |-> "read", unanswered |-> "shut", cancelled |-> "shut"]

Stages == [q \in Questions |-> Stage[row[q]]]
Heard == {<<about[r], words[r]>> : r \in {s \in Requests : reply[s] = "answered"}}

Box == INSTANCE AnswerBox
         WITH box <- Stages, said <- answer, heard <- Heard, closed <- over

(* Rows, holds, timeouts, collects, crashes and sweeps add up to questions *)
(* put once, answered at most once, told only that answer, and nothing put *)
(* or answered once the call is over.                                      *)
ImplementsBox == Box!BoxSpec
=============================================================================
