--------------------------- MODULE ConsultProofs ---------------------------
(***************************************************************************)
(* Proofs about Consult for any number of questions, requests, texts,      *)
(* addressees, answers, crashes and any cap of pending questions.          *)
(***************************************************************************)
EXTENDS Consult, FiniteSetTheorems, TLAPS

USE DEF RowStates, Replies, Waiting

(* A stopped process holds nothing and knows of no listener.               *)
LEMMA HaltType ==
  ASSUME TypeOK, Halt
  PROVE  /\ up' \in BOOLEAN
         /\ held' \in [Requests -> {"no", "short", "window"}]
         /\ open' \in [Members -> Nat]
         /\ recent' \subseteq Members
         /\ crashes' \in Nat
  <1>1. up' \in BOOLEAN /\ recent' \subseteq Members
    BY Zenon DEF Halt
  <1>2. held' \in [Requests -> {"no", "short", "window"}]
    BY DEF Halt
  <1>3. open' \in [Members -> Nat]
    <2>1. 0 \in Nat
      OBVIOUS
    <2> QED BY <2>1, Zenon DEF Halt
  <1>4. crashes' \in Nat
    <2>1. crashes \in Nat /\ crashes' = crashes + 1
      BY Zenon DEF TypeOK, Halt
    <2> QED BY <2>1
  <1> QED BY <1>1, <1>2, <1>3, <1>4

LEMMA HaltWithHoldsType ==
  ASSUME TypeOK, HaltWithHolds
  PROVE  /\ Halt
         /\ about' \in [Requests -> Questions \cup {0}]
         /\ reply' \in [Requests -> Replies]
         /\ words' \in [Requests -> Answers \cup {NoAnswer}]
  BY DEF HaltWithHolds, TypeOK

LEMMA ReplyType ==
  ASSUME TypeOK, NEW r \in Requests, NEW q \in Questions \cup {0},
         NEW s \in Replies, Reply(r, q, s)
  PROVE  /\ about' \in [Requests -> Questions \cup {0}]
         /\ reply' \in [Requests -> Replies]
         /\ words' \in [Requests -> Answers \cup {NoAnswer}]
         /\ held' \in [Requests -> {"no", "short", "window"}]
  BY DEF TypeOK, Reply

LEMMA HoldType ==
  ASSUME TypeOK, NEW r \in Requests, NEW q \in Questions,
         NEW span \in {"short", "window"}, Hold(r, q, span)
  PROVE  /\ about' \in [Requests -> Questions \cup {0}]
         /\ reply' \in [Requests -> Replies]
         /\ words' \in [Requests -> Answers \cup {NoAnswer}]
         /\ held' \in [Requests -> {"no", "short", "window"}]
  BY DEF TypeOK, Hold

LEMMA InsertType ==
  ASSUME TypeOK, NEW q \in Questions, NEW t \in Texts,
         NEW s \in {"pending", "unanswered"}, Insert(q, t, s)
  PROVE  /\ row' \in [Questions -> RowStates]
         /\ text' \in [Questions -> Texts \cup {NoText}]
         /\ UNCHANGED <<answer, over, deliveries>>
  BY DEF TypeOK, Insert

LEMMA TypeInit == Init => TypeOK
  <1> SUFFICES ASSUME Init PROVE TypeOK
    OBVIOUS
  <1>1. over \in BOOLEAN /\ up \in BOOLEAN
    BY Zenon DEF Init
  <1>2. 0 \in Nat
    OBVIOUS
  <1>3. /\ deliveries \in [Questions -> Nat]
        /\ open \in [Members -> Nat]
        /\ crashes \in Nat
    BY <1>2, Zenon DEF Init
  <1>4. /\ recent \subseteq Members /\ expired \subseteq Questions
    BY Zenon DEF Init
  <1>5. /\ row \in [Questions -> RowStates]
        /\ text \in [Questions -> Texts \cup {NoText}]
        /\ answer \in [Questions -> Answers \cup {NoAnswer}]
        /\ told \in [Questions -> {"nothing", "delivered", "collectable"}]
    BY DEF Init
  <1>6. /\ held \in [Requests -> {"no", "short", "window"}]
        /\ about \in [Requests -> Questions \cup {0}]
        /\ reply \in [Requests -> Replies]
        /\ words \in [Requests -> Answers \cup {NoAnswer}]
    BY DEF Init
  <1> QED BY <1>1, <1>3, <1>4, <1>5, <1>6 DEF TypeOK

LEMMA TypeStep ==
  ASSUME TypeOK, [Next]_vars
  PROVE  TypeOK'
  <1> USE DEF store, memory, agentSide
  <1>1. CASE UNCHANGED vars
    BY <1>1 DEF TypeOK, vars
  <1>2. CASE CallEnds
    BY <1>2 DEF CallEnds, cancelConsults, Cancelled, TypeOK
  <1>3. CASE shutdown
    BY <1>3, HaltType, HaltWithHoldsType DEF shutdown, TypeOK
  <1>4. CASE startGateway
    BY <1>4 DEF startGateway, sweepEndedConsults, Cancelled, TypeOK
  <1>5. ASSUME NEW S \in SUBSET Questions, CallEndsTorn(S) PROVE TypeOK'
    BY <1>5, HaltType, HaltWithHoldsType DEF CallEndsTorn, Cancelled, TypeOK
  <1>6. ASSUME NEW m \in Members, noteHostPoll(m) PROVE TypeOK'
    BY <1>6 DEF noteHostPoll, TypeOK
  <1>7. ASSUME NEW m \in Members, PollEnds(m) PROVE TypeOK'
    BY <1>7 DEF PollEnds, TypeOK
  <1>8. ASSUME NEW m \in Members, HostIdles(m) PROVE TypeOK'
    BY <1>8 DEF HostIdles, TypeOK
  <1>9. ASSUME NEW r \in Requests, onTimeout(r) PROVE TypeOK'
    BY <1>9, ReplyType DEF onTimeout, TypeOK
  <1>10. ASSUME NEW r \in Requests, onAbort(r) PROVE TypeOK'
    BY <1>10, ReplyType DEF onAbort, TypeOK
  <1>11. ASSUME NEW r \in Requests, NEW t \in Texts, AskRefused(r, t) PROVE TypeOK'
    BY <1>11, ReplyType DEF AskRefused, TypeOK
  <1>12. ASSUME NEW r \in Requests, NEW t \in Texts, NEW q \in Questions,
                AskJoins(r, t, q)
         PROVE TypeOK'
    BY <1>12, HoldType DEF AskJoins, Remaining, TypeOK
  <1>13. ASSUME NEW r \in Requests, NEW t \in Texts, NEW q \in Questions,
                AskNew(r, t, q)
         PROVE TypeOK'
    <2>1. CASE isHostListening(Addressee[t])
      BY <1>13, <2>1, HoldType, InsertType DEF AskNew, TypeOK
    <2>2. CASE ~isHostListening(Addressee[t])
      BY <1>13, <2>2, ReplyType, InsertType DEF AskNew, TypeOK
    <2> QED BY <2>1, <2>2
  <1>14. ASSUME NEW r \in Requests, NEW t \in Texts, NEW q \in Questions,
                AskTorn(r, t, q)
         PROVE TypeOK'
    <2>1. /\ row' \in [Questions -> RowStates]
          /\ text' \in [Questions -> Texts \cup {NoText}]
          /\ UNCHANGED <<answer, over, deliveries>>
      BY <1>14, InsertType DEF AskTorn
    <2> QED BY <1>14, <2>1, HaltType DEF AskTorn, TypeOK
  <1>15. ASSUME NEW r \in Requests, NEW q \in Questions, Collect(r, q) PROVE TypeOK'
    <2>1. CASE row[q] \in {"answered", "delivered"}
      BY <1>15, <2>1 DEF Collect, Delivered, TypeOK
    <2>2. CASE row[q] = "pending"
      BY <1>15, <2>2, HoldType DEF Collect, Remaining, TypeOK
    <2>3. CASE row[q] \notin {"answered", "delivered", "pending"}
      BY <1>15, <2>3, ReplyType DEF Collect, TypeOK
    <2> QED BY <2>1, <2>2, <2>3
  <1>16. ASSUME NEW r \in Requests, NEW q \in Questions, CollectTorn(r, q)
         PROVE TypeOK'
    BY <1>16, HaltType DEF CollectTorn, TypeOK
  <1>17. ASSUME NEW q \in Questions, WindowPasses(q) PROVE TypeOK'
    BY <1>17 DEF WindowPasses, TypeOK
  <1>18. ASSUME NEW q \in Questions, NEW a \in Answers, answerConsult(q, a)
         PROVE TypeOK'
    <2>1. /\ row' \in [Questions -> RowStates]
          /\ answer' \in [Questions -> Answers \cup {NoAnswer}]
          /\ told' \in [Questions -> {"nothing", "delivered", "collectable"}]
      BY <1>18 DEF answerConsult, TypeOK
    <2>2. deliveries' \in [Questions -> Nat]
      BY <1>18 DEF answerConsult, TypeOK
    <2>3. /\ reply' \in [Requests -> Replies]
          /\ words' \in [Requests -> Answers \cup {NoAnswer}]
          /\ held' \in [Requests -> {"no", "short", "window"}]
      BY <1>18 DEF answerConsult, TypeOK
    <2> QED BY <1>18, <2>1, <2>2, <2>3 DEF answerConsult, TypeOK
  <1>19. ASSUME NEW q \in Questions, NEW a \in Answers, AnswerTorn(q, a)
         PROVE TypeOK'
    <2>1. row' \in [Questions -> RowStates] /\ answer' \in [Questions -> Answers \cup {NoAnswer}]
      BY <1>19 DEF AnswerTorn, TypeOK
    <2> QED BY <1>19, <2>1, HaltType, HaltWithHoldsType DEF AnswerTorn, TypeOK
  <1> QED BY <1>1, <1>2, <1>3, <1>4, <1>5, <1>6, <1>7, <1>8, <1>9, <1>10, <1>11,
             <1>12, <1>13, <1>14, <1>15, <1>16, <1>17, <1>18, <1>19 DEF Next

(* Every variable of the consult channel keeps its shape, for any number   *)
(* of questions, requests, addressees and crashes.                         *)
THEOREM TypeCorrect == Spec => []TypeOK
  <1>1. Init => TypeOK
    BY TypeInit
  <1>2. TypeOK /\ [Next]_vars => TypeOK'
    BY TypeStep
  <1> QED BY <1>1, <1>2, PTL DEF Spec

-----------------------------------------------------------------------------
(* Holds.                                                                  *)

LEMMA HaltHolds ==
  ASSUME Halt
  PROVE  HeldMeansPending'
  BY DEF Halt, HeldMeansPending

(* A reply lets one request go and disturbs no other hold.                 *)
LEMMA ReplyHolds ==
  ASSUME TypeOK, HeldMeansPending, up' = up, over' = over,
         \A q \in Pending : row'[q] = "pending",
         NEW r \in Requests, NEW q, NEW s, Reply(r, q, s)
  PROVE  HeldMeansPending'
  BY DEF HeldMeansPending, Reply, Pending, TypeOK

(* A hold on a pending row is a proper hold.                               *)
LEMMA HoldHolds ==
  ASSUME TypeOK, HeldMeansPending, up, ~over, up' = up, over' = over,
         \A p \in Pending : row'[p] = "pending",
         NEW r \in Requests, Fresh(r),
         NEW q \in Questions, row'[q] = "pending", NEW span, Hold(r, q, span)
  PROVE  HeldMeansPending'
  BY DEF HeldMeansPending, Hold, Pending, Fresh, TypeOK

LEMMA HoldsStep ==
  ASSUME TypeOK, HeldMeansPending, [Next]_vars
  PROVE  HeldMeansPending'
  <1> USE DEF store, memory, agentSide
  <1>1. CASE UNCHANGED vars
    BY <1>1 DEF vars, HeldMeansPending, Pending
  <1>2. CASE CallEnds
    <2>1. \A r \in Requests : Waiting(r) => r \in Released
      BY DEF HeldMeansPending, Released
    <2> QED BY <1>2, <2>1 DEF CallEnds, cancelConsults, HeldMeansPending, TypeOK
  <1>3. CASE shutdown
    BY <1>3, HaltHolds DEF shutdown, HaltWithHolds
  <1>4. CASE startGateway
    BY <1>4 DEF startGateway, HeldMeansPending
  <1>5. ASSUME NEW S \in SUBSET Questions, CallEndsTorn(S) PROVE HeldMeansPending'
    BY <1>5, HaltHolds DEF CallEndsTorn, HaltWithHolds
  <1>6. ASSUME NEW m \in Members, noteHostPoll(m) \/ PollEnds(m) \/ HostIdles(m)
        PROVE HeldMeansPending'
    BY <1>6 DEF noteHostPoll, PollEnds, HostIdles, HeldMeansPending, Pending
  <1>7. ASSUME NEW r \in Requests, onTimeout(r) \/ onAbort(r)
        PROVE HeldMeansPending'
    BY <1>7, ReplyHolds DEF onTimeout, onAbort, Pending
  <1>8. ASSUME NEW r \in Requests, NEW t \in Texts, AskRefused(r, t)
        PROVE HeldMeansPending'
    BY <1>8, ReplyHolds DEF AskRefused, Pending
  <1>9. ASSUME NEW r \in Requests, NEW t \in Texts, NEW q \in Questions,
               AskJoins(r, t, q)
        PROVE HeldMeansPending'
    BY <1>9, HoldHolds DEF AskJoins, Matches, Pending
  <1>10. ASSUME NEW r \in Requests, NEW t \in Texts, NEW q \in Questions,
                AskNew(r, t, q)
         PROVE HeldMeansPending'
    <2>1. \A p \in Pending : row'[p] = "pending"
      BY <1>10 DEF AskNew, Insert, NextSeq, Pending, TypeOK
    <2>2. CASE isHostListening(Addressee[t])
      <3>1. row'[q] = "pending" /\ over' = over
        BY <1>10, <2>2 DEF AskNew, Insert, TypeOK
      <3> QED BY <1>10, <2>1, <2>2, <3>1, HoldHolds DEF AskNew
    <2>3. CASE ~isHostListening(Addressee[t])
      <3>1. over' = over
        BY <1>10, <2>3 DEF AskNew, Insert
      <3> QED BY <1>10, <2>1, <2>3, <3>1, ReplyHolds DEF AskNew
    <2> QED BY <2>2, <2>3
  <1>11. ASSUME NEW r \in Requests, NEW t \in Texts, NEW q \in Questions,
                AskTorn(r, t, q)
         PROVE HeldMeansPending'
    BY <1>11, HaltHolds DEF AskTorn
  <1>12. ASSUME NEW r \in Requests, NEW q \in Questions, Collect(r, q)
         PROVE HeldMeansPending'
    <2>1. CASE row[q] \in {"answered", "delivered"}
      <3>1. \A p \in Pending : row'[p] = "pending"
        BY <1>12, <2>1 DEF Collect, Delivered, Pending, TypeOK
      <3>2. /\ ~Waiting(r) /\ over' = over /\ up' = up /\ held' = held
            /\ \A s \in Requests \ {r} : about'[s] = about[s] /\ reply'[s] = reply[s]
        BY <1>12, <2>1 DEF Collect, Fresh, TypeOK
      <3> QED BY <3>1, <3>2 DEF HeldMeansPending, Pending
    <2>2. CASE row[q] = "pending"
      BY <1>12, <2>2, HoldHolds DEF Collect, Pending
    <2>3. CASE row[q] \notin {"answered", "delivered", "pending"}
      BY <1>12, <2>3, ReplyHolds DEF Collect, Pending
    <2> QED BY <2>1, <2>2, <2>3
  <1>13. ASSUME NEW r \in Requests, NEW q \in Questions, CollectTorn(r, q)
         PROVE HeldMeansPending'
    BY <1>13, HaltHolds DEF CollectTorn
  <1>14. ASSUME NEW q \in Questions, WindowPasses(q) PROVE HeldMeansPending'
    BY <1>14 DEF WindowPasses, HeldMeansPending, Pending
  <1>15. ASSUME NEW q \in Questions, NEW a \in Answers, answerConsult(q, a)
         PROVE HeldMeansPending'
    <2> SUFFICES ASSUME NEW r \in Requests, held'[r] # "no"
                 PROVE  /\ up' /\ ~over' /\ reply'[r] = "none"
                        /\ about'[r] \in Questions /\ row'[about'[r]] = "pending"
      BY DEF HeldMeansPending, Pending
    <2>1. r \notin Woken(q) /\ held[r] # "no"
      BY <1>15 DEF answerConsult, TypeOK
    <2>2. about[r] # q
      BY <2>1 DEF Woken, Holders
    <2>3. /\ up /\ ~over /\ reply[r] = "none"
          /\ about[r] \in Questions /\ row[about[r]] = "pending"
      BY <2>1 DEF HeldMeansPending, Pending
    <2> QED BY <1>15, <2>1, <2>2, <2>3 DEF answerConsult, TypeOK
  <1>16. ASSUME NEW q \in Questions, NEW a \in Answers, AnswerTorn(q, a)
         PROVE HeldMeansPending'
    BY <1>16, HaltHolds DEF AnswerTorn, HaltWithHolds
  <1> QED BY <1>1, <1>2, <1>3, <1>4, <1>5, <1>6, <1>7, <1>8, <1>9, <1>10, <1>11,
             <1>12, <1>13, <1>14, <1>15, <1>16 DEF Next

LEMMA HoldsInvariant == Spec => [](TypeOK /\ HeldMeansPending)
  <1>1. Init => TypeOK /\ HeldMeansPending
    BY TypeInit DEF Init, HeldMeansPending
  <1>2. (TypeOK /\ HeldMeansPending) /\ [Next]_vars => (TypeOK /\ HeldMeansPending)'
    BY TypeStep, HoldsStep
  <1> QED BY <1>1, <1>2, PTL DEF Spec

(* No request is ever left waiting on a question that was answered, closed *)
(* or cancelled, or in a process that stopped.                             *)
THEOREM NoHoldIsForgotten == Spec => []HeldMeansPending
  BY HoldsInvariant, PTL

-----------------------------------------------------------------------------
(* Answers and what was heard of them.                                     *)

(* An answer that came back is not taken back, and a delivered row is the  *)
(* end of its question.                                                    *)
AnswersKept ==
  /\ \A r \in Requests : reply[r] = "answered" =>
       reply'[r] = "answered" /\ about'[r] = about[r] /\ words'[r] = words[r]
  /\ \A q \in Questions : row[q] = "delivered" =>
       row'[q] = "delivered" /\ answer'[q] = answer[q]

(* No request is newly answered.                                           *)
NothingHeard ==
  \A r \in Requests : reply'[r] = "answered" => reply[r] = "answered"

LEMMA ReplyHears ==
  ASSUME TypeOK, HeldMeansPending,
         NEW r \in Requests, Fresh(r) \/ Waiting(r),
         NEW q \in Questions \cup {0}, NEW s \in Replies \ {"answered"}, Reply(r, q, s)
  PROVE  /\ NothingHeard
         /\ \A p \in Requests : reply[p] = "answered" =>
              reply'[p] = "answered" /\ about'[p] = about[p] /\ words'[p] = words[p]
  BY DEF Reply, NothingHeard, TypeOK, HeldMeansPending, Fresh

LEMMA HoldHears ==
  ASSUME TypeOK, NEW r \in Requests, Fresh(r), NEW q, NEW span, Hold(r, q, span)
  PROVE  /\ NothingHeard
         /\ \A p \in Requests : reply[p] = "answered" =>
              reply'[p] = "answered" /\ about'[p] = about[p] /\ words'[p] = words[p]
  BY DEF Hold, NothingHeard, TypeOK, Fresh

LEMMA HaltHears ==
  ASSUME TypeOK, HeldMeansPending, HaltWithHolds
  PROVE  /\ NothingHeard
         /\ \A p \in Requests : reply[p] = "answered" =>
              reply'[p] = "answered" /\ about'[p] = about[p] /\ words'[p] = words[p]
  BY DEF HaltWithHolds, NothingHeard, TypeOK, HeldMeansPending

LEMMA InsertKeeps ==
  ASSUME TypeOK, NEW q \in Questions, NextSeq(q), NEW t, NEW s, Insert(q, t, s)
  PROVE  \A p \in Questions : row[p] = "delivered" =>
           row'[p] = "delivered" /\ answer'[p] = answer[p]
  BY DEF Insert, NextSeq, TypeOK

(* What each step does to replies: all but two kinds of step tell nobody   *)
(* an answer, and none takes one back.                                     *)
LEMMA HearsStep ==
  ASSUME TypeOK, HeldMeansPending, [Next]_vars
  PROVE  /\ AnswersKept
         /\ \/ NothingHeard
            \/ \E r \in Requests, q \in Questions :
                 Collect(r, q) /\ row[q] \in {"answered", "delivered"}
            \/ \E q \in Questions, a \in Answers : answerConsult(q, a)
  <1> USE DEF store, memory, agentSide
  <1>1. CASE UNCHANGED vars
    BY <1>1 DEF vars, AnswersKept, NothingHeard
  <1>2. CASE CallEnds
    <2>1. \A r \in Released : reply[r] = "none"
      BY DEF Released, HeldMeansPending
    <2> QED BY <1>2, <2>1 DEF CallEnds, cancelConsults, Cancelled, AnswersKept, NothingHeard,
              Pending, Released, TypeOK
  <1>3. CASE shutdown
    BY <1>3, HaltHears DEF shutdown, AnswersKept
  <1>4. CASE startGateway
    BY <1>4 DEF startGateway, sweepEndedConsults, Cancelled, Pending, AnswersKept,
                NothingHeard, TypeOK
  <1>5. ASSUME NEW S \in SUBSET Questions, CallEndsTorn(S)
        PROVE AnswersKept /\ NothingHeard
    BY <1>5, HaltHears DEF CallEndsTorn, Cancelled, Pending, AnswersKept, TypeOK
  <1>6. ASSUME NEW m \in Members, noteHostPoll(m) \/ PollEnds(m) \/ HostIdles(m)
        PROVE AnswersKept /\ NothingHeard
    BY <1>6 DEF noteHostPoll, PollEnds, HostIdles, AnswersKept, NothingHeard
  <1>7. ASSUME NEW r \in Requests, onTimeout(r) \/ onAbort(r)
        PROVE AnswersKept /\ NothingHeard
    <2>1. about[r] \in Questions \cup {0}
      BY DEF TypeOK
    <2> QED BY <1>7, <2>1, ReplyHears DEF onTimeout, onAbort, AnswersKept
  <1>8. ASSUME NEW r \in Requests, NEW t \in Texts, AskRefused(r, t)
        PROVE AnswersKept /\ NothingHeard
    BY <1>8, ReplyHears DEF AskRefused, AnswersKept
  <1>9. ASSUME NEW r \in Requests, NEW t \in Texts, NEW q \in Questions,
               AskJoins(r, t, q)
        PROVE AnswersKept /\ NothingHeard
    BY <1>9, HoldHears DEF AskJoins, AnswersKept
  <1>10. ASSUME NEW r \in Requests, NEW t \in Texts, NEW q \in Questions,
                AskNew(r, t, q)
         PROVE AnswersKept /\ NothingHeard
    BY <1>10, HoldHears, ReplyHears, InsertKeeps DEF AskNew, AnswersKept
  <1>11. ASSUME NEW r \in Requests, NEW t \in Texts, NEW q \in Questions,
                AskTorn(r, t, q)
         PROVE AnswersKept /\ NothingHeard
    <2>1. \A s \in Requests : s = r \/ Waiting(s) => reply[s] = "none"
      BY <1>11 DEF AskTorn, Fresh, HeldMeansPending
    <2>2. /\ NothingHeard
          /\ \A p \in Requests : reply[p] = "answered" =>
               reply'[p] = "answered" /\ about'[p] = about[p] /\ words'[p] = words[p]
      BY <1>11, <2>1 DEF AskTorn, NothingHeard
    <2>3. \A p \in Questions : row[p] = "delivered" =>
            row'[p] = "delivered" /\ answer'[p] = answer[p]
      BY <1>11, InsertKeeps DEF AskTorn
    <2> QED BY <2>2, <2>3 DEF AnswersKept
  <1>12. ASSUME NEW r \in Requests, NEW q \in Questions, Collect(r, q)
         PROVE /\ AnswersKept
               /\ NothingHeard \/ row[q] \in {"answered", "delivered"}
    <2>1. CASE row[q] \in {"answered", "delivered"}
      BY <1>12, <2>1 DEF Collect, Delivered, Fresh, AnswersKept, TypeOK
    <2>2. CASE row[q] = "pending"
      BY <1>12, <2>2, HoldHears DEF Collect, AnswersKept
    <2>3. CASE row[q] \notin {"answered", "delivered", "pending"}
      BY <1>12, <2>3, ReplyHears DEF Collect, AnswersKept
    <2> QED BY <2>1, <2>2, <2>3
  <1>13. ASSUME NEW r \in Requests, NEW q \in Questions, CollectTorn(r, q)
         PROVE AnswersKept /\ NothingHeard
    <2>1. \A s \in Requests : s = r \/ Waiting(s) => reply[s] = "none"
      BY <1>13 DEF CollectTorn, Fresh, HeldMeansPending
    <2> QED BY <1>13, <2>1 DEF CollectTorn, AnswersKept, NothingHeard, TypeOK
  <1>14. ASSUME NEW q \in Questions, WindowPasses(q) PROVE AnswersKept /\ NothingHeard
    BY <1>14 DEF WindowPasses, AnswersKept, NothingHeard
  <1>15. ASSUME NEW q \in Questions, NEW a \in Answers, answerConsult(q, a)
         PROVE AnswersKept
    <2>1. \A r \in Woken(q) : reply[r] = "none"
      BY DEF Woken, Holders, HeldMeansPending
    <2> QED BY <1>15, <2>1 DEF answerConsult, Claimable, AnswersKept, TypeOK
  <1>16. ASSUME NEW q \in Questions, NEW a \in Answers, AnswerTorn(q, a)
         PROVE AnswersKept /\ NothingHeard
    <2>1. \A p \in Questions : row[p] = "delivered" =>
            row'[p] = "delivered" /\ answer'[p] = answer[p]
      BY <1>16 DEF AnswerTorn, Claimable, TypeOK
    <2> QED BY <1>16, <2>1, HaltHears DEF AnswerTorn, AnswersKept
  <1> QED BY <1>1, <1>2, <1>3, <1>4, <1>5, <1>6, <1>7, <1>8, <1>9, <1>10, <1>11,
             <1>12, <1>13, <1>14, <1>15, <1>16 DEF Next

LEMMA HeardStep ==
  ASSUME TypeOK, HeldMeansPending, HeardIsTheAnswer, [Next]_vars
  PROVE  HeardIsTheAnswer'
  <1>1. AnswersKept
    BY HearsStep
  <1>2. CASE NothingHeard
    BY <1>1, <1>2 DEF AnswersKept, NothingHeard, HeardIsTheAnswer
  <1>3. ASSUME NEW r \in Requests, NEW q \in Questions, Collect(r, q),
               row[q] \in {"answered", "delivered"}
        PROVE  HeardIsTheAnswer'
    <2>1. /\ reply' = [reply EXCEPT ![r] = "answered"]
          /\ about' = [about EXCEPT ![r] = q]
          /\ words' = [words EXCEPT ![r] = answer[q]]
          /\ row' = [row EXCEPT ![q] = "delivered"]
          /\ answer' = answer
      BY <1>3 DEF Collect, Delivered
    <2>2. /\ about'[r] = q /\ words'[r] = answer'[q] /\ row'[q] = "delivered"
          /\ \A s \in Requests \ {r} : reply'[s] = reply[s]
      BY <2>1 DEF TypeOK
    <2> QED BY <1>1, <2>2 DEF AnswersKept, HeardIsTheAnswer
  <1>4. ASSUME NEW q \in Questions, NEW a \in Answers, answerConsult(q, a)
        PROVE  HeardIsTheAnswer'
    <2>1. \A r \in Woken(q) : r \in Requests /\ about[r] = q
      BY DEF Woken, Holders
    <2>2. \A r \in Requests : r \in Woken(q) =>
            about'[r] = q /\ words'[r] = answer'[q] /\ row'[q] = "delivered"
      BY <1>4, <2>1 DEF answerConsult, TypeOK
    <2>3. \A r \in Requests : r \notin Woken(q) => reply'[r] = reply[r]
      BY <1>4 DEF answerConsult
    <2> QED BY <1>1, <2>2, <2>3 DEF AnswersKept, HeardIsTheAnswer
  <1> QED BY <1>2, <1>3, <1>4, HearsStep

(* What the restart sweep and the terminal hook leave behind.              *)
LEMMA EndedStep ==
  ASSUME TypeOK, EndedLeavesNothingPending, [Next]_vars
  PROVE  EndedLeavesNothingPending'
  <1> USE DEF store, memory, agentSide
  <1>1. CASE CallEnds
    BY <1>1 DEF CallEnds, cancelConsults, Cancelled, Pending, EndedLeavesNothingPending
  <1>2. CASE startGateway
    BY <1>2 DEF startGateway, sweepEndedConsults, Cancelled, Pending,
                EndedLeavesNothingPending
  <1>3. CASE ~up'
    BY <1>3 DEF EndedLeavesNothingPending
  <1>4. CASE ~over'
    BY <1>4 DEF EndedLeavesNothingPending
  <1>5. CASE up' = up /\ over' = over /\ row' = row
    BY <1>5 DEF EndedLeavesNothingPending, Pending
  <1>6. CASE UNCHANGED vars
    BY <1>5, <1>6 DEF vars
  <1>7. CASE shutdown
    BY <1>3, <1>7 DEF shutdown, HaltWithHolds, Halt
  <1>8. ASSUME NEW S \in SUBSET Questions, CallEndsTorn(S)
        PROVE EndedLeavesNothingPending'
    BY <1>3, <1>8 DEF CallEndsTorn, HaltWithHolds, Halt
  <1>9. ASSUME NEW m \in Members, noteHostPoll(m) \/ PollEnds(m) \/ HostIdles(m)
        PROVE EndedLeavesNothingPending'
    BY <1>5, <1>9 DEF noteHostPoll, PollEnds, HostIdles
  <1>10. ASSUME NEW r \in Requests, onTimeout(r) \/ onAbort(r)
         PROVE EndedLeavesNothingPending'
    BY <1>5, <1>10 DEF onTimeout, onAbort
  <1>11. ASSUME NEW r \in Requests, NEW t \in Texts, AskRefused(r, t)
         PROVE EndedLeavesNothingPending'
    BY <1>5, <1>11 DEF AskRefused
  <1>12. ASSUME NEW r \in Requests, NEW t \in Texts, NEW q \in Questions,
                AskJoins(r, t, q)
         PROVE EndedLeavesNothingPending'
    BY <1>5, <1>12 DEF AskJoins
  <1>13. ASSUME NEW r \in Requests, NEW t \in Texts, NEW q \in Questions,
                AskNew(r, t, q) \/ AskTorn(r, t, q)
         PROVE EndedLeavesNothingPending'
    BY <1>4, <1>13 DEF AskNew, AskTorn, Insert
  <1>14. ASSUME NEW r \in Requests, NEW q \in Questions, Collect(r, q) \/ CollectTorn(r, q)
         PROVE EndedLeavesNothingPending'
    BY <1>4, <1>14 DEF Collect, CollectTorn
  <1>15. ASSUME NEW q \in Questions, WindowPasses(q)
         PROVE EndedLeavesNothingPending'
    BY <1>5, <1>15 DEF WindowPasses
  <1>16. ASSUME NEW q \in Questions, NEW a \in Answers,
                answerConsult(q, a) \/ AnswerTorn(q, a)
         PROVE EndedLeavesNothingPending'
    BY <1>4, <1>16 DEF answerConsult, AnswerTorn
  <1> QED BY <1>1, <1>2, <1>6, <1>7, <1>8, <1>9, <1>10, <1>11, <1>12, <1>13, <1>14,
             <1>15, <1>16 DEF Next

ConsultInv == TypeOK /\ HeldMeansPending /\ HeardIsTheAnswer /\ EndedLeavesNothingPending

LEMMA ConsultInvariant == Spec => []ConsultInv
  <1>1. Init => ConsultInv
    BY TypeInit DEF Init, ConsultInv, HeldMeansPending, HeardIsTheAnswer,
                    EndedLeavesNothingPending
  <1>2. ConsultInv /\ [Next]_vars => ConsultInv'
    BY TypeStep, HoldsStep, HeardStep, EndedStep DEF ConsultInv
  <1> QED BY <1>1, <1>2, PTL DEF Spec

(* Whoever was told an answer was told the one answer of its question,     *)
(* however many requests asked, joined, waited or collected, and through   *)
(* any number of restarts.                                                 *)
THEOREM AnswerHeardIsTheOne == Spec => []HeardIsTheAnswer
  <1>1. ConsultInv => HeardIsTheAnswer
    BY DEF ConsultInv
  <1> QED BY <1>1, ConsultInvariant, PTL

(* A running gateway owes no answer on a call that is over.                *)
THEOREM EndedCallOwesNothing == Spec => []EndedLeavesNothingPending
  <1>1. ConsultInv => EndedLeavesNothingPending
    BY DEF ConsultInv
  <1> QED BY <1>1, ConsultInvariant, PTL

-----------------------------------------------------------------------------
(* Consult implements AnswerBox.                                           *)

LEMMA HeardSame ==
  ASSUME AnswersKept, NothingHeard
  PROVE  Heard' = Heard
  BY DEF AnswersKept, NothingHeard, Heard

(* A change of one row is the same change of one stage.                    *)
LEMMA StageMoves ==
  ASSUME TypeOK, NEW q \in Questions, NEW s \in RowStates,
         row' = [row EXCEPT ![q] = s]
  PROVE  Stages' = [Stages EXCEPT ![q] = Stage[s]]
  BY DEF TypeOK, Stages

LEMMA InsertPuts ==
  ASSUME TypeOK, NEW q \in Questions, NextSeq(q), ~over, NEW t \in Texts,
         NEW s \in {"pending", "unanswered"}, Insert(q, t, s), Heard' = Heard
  PROVE  Box!BoxNext
  <1>1. Stages' = [Stages EXCEPT ![q] = Stage[s]] /\ UNCHANGED <<answer, over>>
    BY StageMoves DEF Insert
  <1>2. Stages[q] = "empty"
    BY DEF NextSeq, Stages, Stage
  <1>3. Stage[s] \in {"open", "shut"}
    BY DEF Stage
  <1>4. Box!Put(q, Stage[s])
    BY <1>1, <1>2, <1>3 DEF Box!Put
  <1> QED BY <1>3, <1>4 DEF Box!BoxNext

LEMMA CancelShuts ==
  ASSUME TypeOK, NEW S \in SUBSET Pending, Cancelled(S), over', answer' = answer,
         Heard' = Heard
  PROVE  Box!BoxNext
  <1>1. S \in SUBSET Questions
    BY DEF Pending
  <1>2. S \subseteq {q \in Questions : Stages[q] = "open"}
    BY DEF Pending, Stages, Stage
  <1>3. Stages' = [q \in Questions |-> IF q \in S THEN "shut" ELSE Stages[q]]
    BY <1>1 DEF Cancelled, Stages, Stage, TypeOK
  <1>4. over' = TRUE
    BY DEF TypeOK
  <1>5. Box!Shut(S)
    BY <1>2, <1>3, <1>4 DEF Box!Shut
  <1> QED BY <1>1, <1>5 DEF Box!BoxNext

LEMMA BoxStutter ==
  ASSUME row' = row, answer' = answer, over' = over, Heard' = Heard
  PROVE  UNCHANGED Box!boxVars
  BY DEF Stages, Box!boxVars

LEMMA BoxStep ==
  ASSUME TypeOK, HeldMeansPending, HeardIsTheAnswer, EndedLeavesNothingPending,
         [Next]_vars, TypeOK'
  PROVE  [Box!BoxNext]_Box!boxVars
  <1> USE DEF store, memory, agentSide
  <1>0. NothingHeard => Heard' = Heard
    BY HearsStep, HeardSame
  <1>1. CASE UNCHANGED vars
    BY <1>1, BoxStutter DEF vars, Heard
  <1>2. CASE CallEnds
    <2>1. NothingHeard
      BY <1>2 DEF CallEnds, cancelConsults, NothingHeard
    <2> QED BY <1>0, <1>2, <2>1, CancelShuts DEF CallEnds, cancelConsults
  <1>3. CASE shutdown
    <2>1. NothingHeard
      BY <1>3, HaltHears DEF shutdown
    <2> QED BY <1>0, <1>3, <2>1, BoxStutter DEF shutdown
  <1>4. CASE startGateway
    <2>1. NothingHeard
      BY <1>4 DEF startGateway, NothingHeard
    <2>2. CASE over
      BY <1>0, <1>4, <2>1, <2>2, CancelShuts DEF startGateway, sweepEndedConsults
    <2>3. CASE ~over
      BY <1>0, <1>4, <2>1, <2>3, BoxStutter DEF startGateway, sweepEndedConsults
    <2> QED BY <2>2, <2>3
  <1>5. ASSUME NEW S \in SUBSET Questions, CallEndsTorn(S) PROVE Box!BoxNext
    <2>1. NothingHeard
      BY <1>5, HaltHears DEF CallEndsTorn
    <2> QED BY <1>0, <1>5, <2>1, CancelShuts DEF CallEndsTorn
  <1>6. ASSUME NEW m \in Members, noteHostPoll(m) \/ PollEnds(m) \/ HostIdles(m)
        PROVE UNCHANGED Box!boxVars
    BY <1>6, BoxStutter DEF noteHostPoll, PollEnds, HostIdles, Heard
  <1>7. ASSUME NEW r \in Requests, onTimeout(r) \/ onAbort(r)
        PROVE UNCHANGED Box!boxVars
    <2>1. NothingHeard
      <3>1. about[r] \in Questions \cup {0}
        BY DEF TypeOK
      <3> QED BY <1>7, <3>1, ReplyHears DEF onTimeout, onAbort
    <2> QED BY <1>0, <1>7, <2>1, BoxStutter DEF onTimeout, onAbort
  <1>8. ASSUME NEW r \in Requests, NEW t \in Texts, AskRefused(r, t)
        PROVE UNCHANGED Box!boxVars
    <2>1. NothingHeard
      BY <1>8, ReplyHears DEF AskRefused
    <2> QED BY <1>0, <1>8, <2>1, BoxStutter DEF AskRefused
  <1>9. ASSUME NEW r \in Requests, NEW t \in Texts, NEW q \in Questions,
               AskJoins(r, t, q)
        PROVE UNCHANGED Box!boxVars
    <2>1. NothingHeard
      BY <1>9, HoldHears DEF AskJoins
    <2> QED BY <1>0, <1>9, <2>1, BoxStutter DEF AskJoins
  <1>10. ASSUME NEW r \in Requests, NEW t \in Texts, NEW q \in Questions,
                AskNew(r, t, q)
         PROVE Box!BoxNext
    <2>1. NothingHeard
      BY <1>10, HoldHears, ReplyHears DEF AskNew
    <2>2. \E s \in {"pending", "unanswered"} : Insert(q, t, s)
      BY <1>10 DEF AskNew
    <2> QED BY <1>0, <1>10, <2>1, <2>2, InsertPuts DEF AskNew
  <1>11. ASSUME NEW r \in Requests, NEW t \in Texts, NEW q \in Questions,
                AskTorn(r, t, q)
         PROVE Box!BoxNext
    <2>1. NothingHeard
      BY <1>11 DEF AskTorn, NothingHeard
    <2>2. \E s \in {"pending", "unanswered"} : Insert(q, t, s)
      BY <1>11 DEF AskTorn
    <2> QED BY <1>0, <1>11, <2>1, <2>2, InsertPuts DEF AskTorn
  <1>12. ASSUME NEW r \in Requests, NEW q \in Questions, Collect(r, q)
         PROVE [Box!BoxNext]_Box!boxVars
    <2>1. CASE row[q] \in {"answered", "delivered"}
      <3>1. Stages' = [Stages EXCEPT ![q] = "read"]
        <4>1. row' = [row EXCEPT ![q] = "delivered"]
          BY <1>12, <2>1 DEF Collect, Delivered
        <4> QED BY <4>1, StageMoves DEF Stage
      <3>2. Stages[q] \in {"full", "read"}
        BY <2>1 DEF Stages, Stage
      <3>3. Heard' = Heard \cup {<<q, answer[q]>>}
        <4>1. AnswersKept
          BY HearsStep
        <4>2. /\ about'[r] = q /\ words'[r] = answer[q] /\ reply'[r] = "answered"
              /\ \A s \in Requests \ {r} : reply'[s] = reply[s]
              /\ reply[r] # "answered"
          BY <1>12, <2>1 DEF Collect, Fresh, TypeOK
        <4>3. Heard' \subseteq Heard \cup {<<q, answer[q]>>}
          BY <4>1, <4>2 DEF Heard, AnswersKept
        <4>4. Heard \cup {<<q, answer[q]>>} \subseteq Heard'
          BY <4>1, <4>2 DEF Heard, AnswersKept
        <4> QED BY <4>3, <4>4
      <3>4. Box!Fetch(q, TRUE)
        BY <1>12, <2>1, <3>1, <3>2, <3>3 DEF Collect, Box!Fetch
      <3> QED BY <3>4 DEF Box!BoxNext
    <2>2. CASE row[q] \notin {"answered", "delivered"}
      <3>1. NothingHeard
        <4>1. CASE row[q] = "pending"
          BY <1>12, <4>1, HoldHears DEF Collect
        <4>2. CASE row[q] # "pending"
          BY <1>12, <2>2, <4>2, ReplyHears DEF Collect
        <4> QED BY <4>1, <4>2
      <3>2. row' = row /\ answer' = answer /\ over' = over
        BY <1>12, <2>2 DEF Collect
      <3> QED BY <1>0, <3>1, <3>2, BoxStutter
    <2> QED BY <2>1, <2>2
  <1>13. ASSUME NEW r \in Requests, NEW q \in Questions, CollectTorn(r, q)
         PROVE Box!BoxNext
    <2>1. NothingHeard
      BY <1>13 DEF CollectTorn, NothingHeard
    <2>2. Stages' = [Stages EXCEPT ![q] = "read"]
      BY <1>13, StageMoves DEF CollectTorn, Stage
    <2>3. Stages[q] = "full"
      BY <1>13 DEF CollectTorn, Stages, Stage
    <2>4. Box!Fetch(q, FALSE)
      BY <1>0, <1>13, <2>1, <2>2, <2>3 DEF CollectTorn, Box!Fetch
    <2> QED BY <2>4 DEF Box!BoxNext
  <1>14. ASSUME NEW q \in Questions, WindowPasses(q) PROVE UNCHANGED Box!boxVars
    BY <1>14, BoxStutter DEF WindowPasses, Heard
  <1>15. ASSUME NEW q \in Questions, NEW a \in Answers, answerConsult(q, a)
         PROVE Box!BoxNext
    <2> DEFINE w == Woken(q) # {}
    <2>1. Stages[q] = "open" /\ ~over /\ over' = over /\ answer' = [answer EXCEPT ![q] = a]
      BY <1>15 DEF answerConsult, Claimable, Stages, Stage
    <2>2. Stages' = [Stages EXCEPT ![q] = IF w THEN "read" ELSE "full"]
      <3>1. CASE w
        <4>1. row' = [row EXCEPT ![q] = "delivered"]
          BY <1>15, <3>1 DEF answerConsult
        <4> QED BY <3>1, <4>1, StageMoves DEF Stage
      <3>2. CASE ~w
        <4>1. row' = [row EXCEPT ![q] = "answered"]
          BY <1>15, <3>2 DEF answerConsult
        <4> QED BY <3>2, <4>1, StageMoves DEF Stage
      <3> QED BY <3>1, <3>2
    <2>3. Heard' = IF w THEN Heard \cup {<<q, a>>} ELSE Heard
      <3>1. AnswersKept
        BY HearsStep
      <3>2. \A r \in Woken(q) : r \in Requests /\ about[r] = q
        BY DEF Woken, Holders
      <3>3. \A r \in Requests :
              IF r \in Woken(q)
                THEN about'[r] = q /\ words'[r] = a /\ reply'[r] = "answered"
                ELSE about'[r] = about[r] /\ words'[r] = words[r] /\ reply'[r] = reply[r]
        BY <1>15, <3>2 DEF answerConsult
      <3>4. Heard' \subseteq Heard \cup {<<q, a>>}
        BY <3>1, <3>3 DEF Heard, AnswersKept
      <3>5. Heard \subseteq Heard'
        BY <3>1, <3>3 DEF Heard, AnswersKept
      <3>6. w => <<q, a>> \in Heard'
        BY <3>2, <3>3 DEF Heard
      <3>7. ~w => Heard' \subseteq Heard
        BY <3>3 DEF Heard
      <3> QED BY <3>4, <3>5, <3>6, <3>7
    <2>4. Box!Answer(q, a, w, TRUE)
      BY <2>1, <2>2, <2>3 DEF Box!Answer
    <2>5. w \in BOOLEAN
      OBVIOUS
    <2> QED BY <2>4, <2>5 DEF Box!BoxNext
  <1>16. ASSUME NEW q \in Questions, NEW a \in Answers, AnswerTorn(q, a)
         PROVE Box!BoxNext
    <2>1. NothingHeard
      BY <1>16, HaltHears DEF AnswerTorn
    <2>2. Stages[q] = "open" /\ ~over /\ over' = over /\ answer' = [answer EXCEPT ![q] = a]
      BY <1>16 DEF AnswerTorn, Claimable, Stages, Stage
    <2>3. CASE row' = [row EXCEPT ![q] = "answered"]
      <3>1. Stages' = [Stages EXCEPT ![q] = "full"]
        BY <2>3, StageMoves DEF Stage
      <3>2. Box!Answer(q, a, FALSE, FALSE)
        BY <1>0, <2>1, <2>2, <3>1 DEF Box!Answer
      <3> QED BY <3>2 DEF Box!BoxNext
    <2>4. CASE row' = [row EXCEPT ![q] = "delivered"]
      <3>1. Stages' = [Stages EXCEPT ![q] = "read"]
        BY <2>4, StageMoves DEF Stage
      <3>2. Box!Answer(q, a, TRUE, FALSE)
        BY <1>0, <2>1, <2>2, <3>1 DEF Box!Answer
      <3> QED BY <3>2 DEF Box!BoxNext
    <2> QED BY <1>16, <2>3, <2>4 DEF AnswerTorn
  <1> QED BY <1>1, <1>2, <1>3, <1>4, <1>5, <1>6, <1>7, <1>8, <1>9, <1>10, <1>11,
             <1>12, <1>13, <1>14, <1>15, <1>16 DEF Next

LEMMA BoxInitially == Init => Box!BoxInit
  <1> SUFFICES ASSUME Init PROVE Box!BoxInit
    OBVIOUS
  <1>1. Stages = [q \in Questions |-> "empty"]
    BY DEF Init, Stages, Stage
  <1>2. Heard = {}
    BY DEF Init, Heard
  <1> QED BY <1>1, <1>2 DEF Init, Box!BoxInit

(* Rows, holds, timeouts, collects, crashes and sweeps implement the       *)
(* abstract channel: every step of Consult is a step of AnswerBox or none. *)
THEOREM ConsultImplementsBox == Spec => ImplementsBox
  <1>1. Init => Box!BoxInit
    BY BoxInitially
  <1>2. ConsultInv /\ ConsultInv' /\ [Next]_vars => [Box!BoxNext]_Box!boxVars
    BY BoxStep DEF ConsultInv
  <1> QED BY <1>1, <1>2, ConsultInvariant, PTL DEF Spec, ImplementsBox, Box!BoxSpec

-----------------------------------------------------------------------------
(* Promises and pending rows.                                              *)

(* Only answer_consult tells the originator anything.                      *)
LEMMA ToldStep ==
  ASSUME [Next]_vars
  PROVE  told' = told \/ \E q \in Questions, a \in Answers : answerConsult(q, a)
  <1>1. CASE UNCHANGED vars \/ CallEnds \/ shutdown \/ startGateway
    BY <1>1 DEF vars, CallEnds, shutdown, startGateway
  <1>2. ASSUME NEW S \in SUBSET Questions, CallEndsTorn(S) PROVE told' = told
    BY <1>2 DEF CallEndsTorn
  <1>3. ASSUME NEW m \in Members, noteHostPoll(m) \/ PollEnds(m) \/ HostIdles(m)
        PROVE told' = told
    BY <1>3 DEF noteHostPoll, PollEnds, HostIdles
  <1>4. ASSUME NEW r \in Requests, onTimeout(r) \/ onAbort(r) PROVE told' = told
    BY <1>4 DEF onTimeout, onAbort
  <1>5. ASSUME NEW r \in Requests, NEW t \in Texts,
               \/ AskRefused(r, t)
               \/ \E q \in Questions : AskJoins(r, t, q) \/ AskNew(r, t, q) \/ AskTorn(r, t, q)
        PROVE told' = told
    BY <1>5 DEF AskRefused, AskJoins, AskNew, AskTorn
  <1>6. ASSUME NEW r \in Requests, NEW q \in Questions, Collect(r, q) \/ CollectTorn(r, q)
        PROVE told' = told
    BY <1>6 DEF Collect, CollectTorn
  <1>7. ASSUME NEW q \in Questions,
               WindowPasses(q) \/ \E a \in Answers : AnswerTorn(q, a)
        PROVE told' = told
    BY <1>7 DEF WindowPasses, AnswerTorn
  <1> QED BY <1>1, <1>2, <1>3, <1>4, <1>5, <1>6, <1>7 DEF Next

LEMMA PromiseStep ==
  ASSUME TypeOK, HeldMeansPending, PromiseKept, [Next]_vars
  PROVE  PromiseKept'
  <1>1. AnswersKept
    BY HearsStep
  <1>2. CASE told' = told
    BY <1>1, <1>2 DEF PromiseKept, AnswersKept
  <1>3. ASSUME NEW q \in Questions, NEW a \in Answers, answerConsult(q, a)
        PROVE  PromiseKept'
    <2>1. \A p \in Questions \ {q} : told'[p] = told[p]
      BY <1>3 DEF answerConsult, TypeOK
    <2>2. CASE Holders(q) = {}
      <3>1. told'[q] # "delivered"
        BY <1>3, <2>2 DEF answerConsult, TypeOK
      <3> QED BY <1>1, <2>1, <3>1 DEF PromiseKept, AnswersKept
    <2>3. CASE Holders(q) # {}
      <3>1. PICK r \in Requests : r \in Holders(q)
        BY <2>3 DEF Holders
      <3>2. reply'[r] = "answered" /\ about'[r] = q
        BY <1>3, <3>1 DEF answerConsult, Woken, Holders
      <3> QED BY <1>1, <2>1, <3>2 DEF PromiseKept, AnswersKept
    <2> QED BY <2>2, <2>3
  <1> QED BY <1>2, <1>3, ToldStep

(* An originator told `delivered: true` answered a request that waited,    *)
(* and what that request was told is never taken back.                     *)
THEOREM DeliveredPromiseKept == Spec => []PromiseKept
  <1>1. Init => PromiseKept
    BY DEF Init, PromiseKept
  <1>2. ConsultInv /\ PromiseKept /\ [Next]_vars => PromiseKept'
    BY PromiseStep DEF ConsultInv
  <1> QED BY <1>1, <1>2, ConsultInvariant, PTL DEF Spec

(* Rows become pending one at a time, through the gates of askConsult.     *)
PendingGrows ==
  \E q \in Questions, t \in Texts :
    /\ row[q] = "none" /\ Insert(q, t, "pending")
    /\ ~ \E p \in Questions : Matches(t, p)
    /\ Cardinality(Pending) < MaxPending

LEMMA PendingStep ==
  ASSUME TypeOK, [Next]_vars
  PROVE  \/ Pending' \subseteq Pending /\ \A q \in Pending : text'[q] = text[q]
         \/ PendingGrows
  <1> USE DEF store, memory, agentSide
  <1>1. CASE text' = text /\ row' = row
    BY <1>1 DEF Pending
  <1>2. CASE text' = text /\ \E S \in SUBSET Questions : Cancelled(S)
    BY <1>2 DEF Pending, Cancelled
  <1>3. CASE UNCHANGED vars
    BY <1>1, <1>3 DEF vars
  <1>4. CASE CallEnds
    BY <1>2, <1>4 DEF CallEnds, cancelConsults, Pending
  <1>5. CASE shutdown
    BY <1>1, <1>5 DEF shutdown
  <1>6. CASE startGateway
    BY <1>1, <1>2, <1>6 DEF startGateway, sweepEndedConsults, Pending
  <1>7. ASSUME NEW S \in SUBSET Questions, CallEndsTorn(S)
        PROVE Pending' \subseteq Pending /\ \A q \in Pending : text'[q] = text[q]
    BY <1>7 DEF CallEndsTorn, Cancelled, Pending
  <1>8. ASSUME NEW m \in Members, noteHostPoll(m) \/ PollEnds(m) \/ HostIdles(m)
        PROVE text' = text /\ row' = row
    BY <1>8 DEF noteHostPoll, PollEnds, HostIdles
  <1>9. ASSUME NEW r \in Requests, onTimeout(r) \/ onAbort(r)
        PROVE text' = text /\ row' = row
    BY <1>9 DEF onTimeout, onAbort
  <1>10. ASSUME NEW r \in Requests, NEW t \in Texts,
                AskRefused(r, t) \/ \E q \in Questions : AskJoins(r, t, q)
         PROVE text' = text /\ row' = row
    BY <1>10 DEF AskRefused, AskJoins
  <1>11. ASSUME NEW r \in Requests, NEW t \in Texts, NEW q \in Questions,
                AskNew(r, t, q) \/ AskTorn(r, t, q)
         PROVE \/ Pending' \subseteq Pending /\ \A p \in Pending : text'[p] = text[p]
               \/ PendingGrows
    <2>1. /\ row[q] = "none"
          /\ ~ \E p \in Questions : Matches(t, p)
          /\ Cardinality(Pending) < MaxPending
          /\ Insert(q, t, "pending") \/ Insert(q, t, "unanswered")
      BY <1>11 DEF AskNew, AskTorn, NextSeq
    <2>2. CASE Insert(q, t, "pending")
      BY <2>1, <2>2 DEF PendingGrows
    <2>3. CASE Insert(q, t, "unanswered")
      BY <2>1, <2>3 DEF Insert, Pending, TypeOK
    <2> QED BY <2>1, <2>2, <2>3
  <1>12. ASSUME NEW r \in Requests, NEW q \in Questions, Collect(r, q) \/ CollectTorn(r, q)
         PROVE Pending' \subseteq Pending /\ \A p \in Pending : text'[p] = text[p]
    <2>1. text' = text /\ (row' = row \/ row' = [row EXCEPT ![q] = "delivered"])
      BY <1>12 DEF Collect, CollectTorn, Delivered
    <2> QED BY <2>1 DEF Pending, TypeOK
  <1>13. ASSUME NEW q \in Questions, WindowPasses(q) PROVE text' = text /\ row' = row
    BY <1>13 DEF WindowPasses
  <1>14. ASSUME NEW q \in Questions, NEW a \in Answers,
                answerConsult(q, a) \/ AnswerTorn(q, a)
         PROVE Pending' \subseteq Pending /\ \A p \in Pending : text'[p] = text[p]
    <2>1. /\ text' = text
          /\ row' = [row EXCEPT ![q] = "answered"] \/ row' = [row EXCEPT ![q] = "delivered"]
      BY <1>14 DEF answerConsult, AnswerTorn
    <2> QED BY <2>1 DEF Pending, TypeOK
  <1> QED BY <1>1, <1>3, <1>4, <1>5, <1>6, <1>7, <1>8, <1>9, <1>10, <1>11, <1>12,
             <1>13, <1>14 DEF Next

LEMMA TwinStep ==
  ASSUME TypeOK, NoTwinQuestions, [Next]_vars
  PROVE  NoTwinQuestions'
  <1>1. CASE Pending' \subseteq Pending /\ \A q \in Pending : text'[q] = text[q]
    BY <1>1 DEF NoTwinQuestions
  <1>2. ASSUME NEW q \in Questions, NEW t \in Texts, row[q] = "none",
               Insert(q, t, "pending"), ~ \E p \in Questions : Matches(t, p)
        PROVE  NoTwinQuestions'
    <2>1. /\ Pending' = Pending \cup {q} /\ q \notin Pending
          /\ text'[q] = t /\ \A p \in Pending : text'[p] = text[p]
      BY <1>2 DEF Insert, Pending, TypeOK
    <2>2. \A p \in Pending : text[p] = t => t \in Blank
      BY <1>2 DEF Matches, Pending
    <2> QED BY <2>1, <2>2 DEF NoTwinQuestions
  <1> QED BY <1>1, <1>2, PendingStep DEF PendingGrows

(* The originator is never asked one question twice at once.               *)
THEOREM NoQuestionTwice == Spec => []NoTwinQuestions
  <1>1. Init => NoTwinQuestions
    BY DEF Init, NoTwinQuestions, Pending
  <1>2. TypeOK /\ NoTwinQuestions /\ [Next]_vars => NoTwinQuestions'
    BY TwinStep
  <1> QED BY <1>1, <1>2, TypeCorrect, PTL DEF Spec

LEMMA PendingFinite == IsFiniteSet(Pending) /\ Cardinality(Pending) \in Nat
  <1>1. IsFiniteSet(Questions)
    BY ConsultAssumption, FS_Interval DEF Questions
  <1>2. Pending \subseteq Questions
    BY DEF Pending
  <1>3. IsFiniteSet(Pending)
    BY <1>1, <1>2, FS_Subset
  <1> QED BY <1>3, FS_CardinalityType

LEMMA BoundStep ==
  ASSUME TypeOK, PendingBound, [Next]_vars
  PROVE  PendingBound'
  <1>0. MaxPending \in Nat
    BY ConsultAssumption
  <1>1. CASE Pending' \subseteq Pending
    <2>1. Cardinality(Pending') <= Cardinality(Pending) /\ Cardinality(Pending') \in Nat
      BY <1>1, PendingFinite, FS_Subset, FS_CardinalityType
    <2> QED BY <1>0, <2>1, PendingFinite DEF PendingBound
  <1>2. ASSUME NEW q \in Questions, NEW t \in Texts, row[q] = "none",
               Insert(q, t, "pending"), Cardinality(Pending) < MaxPending
        PROVE  PendingBound'
    <2>1. Pending' = Pending \cup {q} /\ q \notin Pending
      BY <1>2 DEF Insert, Pending, TypeOK
    <2>2. Cardinality(Pending') = Cardinality(Pending) + 1
      BY <2>1, PendingFinite, FS_AddElement
    <2> QED BY <1>0, <1>2, <2>2, PendingFinite DEF PendingBound
  <1> QED BY <1>1, <1>2, PendingStep DEF PendingGrows

(* The originator never owes more than maxPendingPerCall answers.          *)
THEOREM PendingNeverExceeds == Spec => []PendingBound
  <1>1. Init => PendingBound
    <2>1. Init => Pending = {}
      BY DEF Init, Pending
    <2>2. Cardinality({}) = 0
      BY FS_EmptySet
    <2>3. MaxPending \in Nat
      BY ConsultAssumption
    <2> QED BY <2>1, <2>2, <2>3 DEF PendingBound
  <1>2. TypeOK /\ PendingBound /\ [Next]_vars => PendingBound'
    BY BoundStep
  <1> QED BY <1>1, <1>2, TypeCorrect, PTL DEF Spec

-----------------------------------------------------------------------------
(* Deliveries.  The count moves with the answered -> delivered claim, and  *)
(* a delivered row stays delivered.                                        *)
LEMMA DeliveryStep ==
  ASSUME TypeOK, DeliveredOnce, [Next]_vars
  PROVE  DeliveredOnce'
  <1> USE DEF DeliveredOnce
  <1>1. CASE UNCHANGED vars
    BY <1>1 DEF vars, store
  <1>2. ASSUME NEW S \in SUBSET Questions, S \subseteq Pending,
               Cancelled(S) /\ UNCHANGED deliveries
        PROVE DeliveredOnce'
    BY <1>2 DEF Cancelled, Pending, TypeOK
  <1>3. CASE CallEnds
    BY <1>2, <1>3 DEF CallEnds, cancelConsults, Pending
  <1>4. ASSUME NEW S \in SUBSET Questions, CallEndsTorn(S) PROVE DeliveredOnce'
    BY <1>2, <1>4 DEF CallEndsTorn
  <1>5. CASE shutdown \/ startGateway
    BY <1>5 DEF shutdown, startGateway, sweepEndedConsults, Cancelled, Pending, store, TypeOK
  <1>6. ASSUME NEW m \in Members, noteHostPoll(m) \/ PollEnds(m) \/ HostIdles(m)
        PROVE DeliveredOnce'
    BY <1>6 DEF noteHostPoll, PollEnds, HostIdles, store
  <1>7. ASSUME NEW r \in Requests, onTimeout(r) \/ onAbort(r) PROVE DeliveredOnce'
    BY <1>7 DEF onTimeout, onAbort, store
  <1>8. ASSUME NEW r \in Requests, NEW t \in Texts,
               AskRefused(r, t) \/ \E q \in Questions : AskJoins(r, t, q)
        PROVE DeliveredOnce'
    BY <1>8 DEF AskRefused, AskJoins, store
  <1>9. ASSUME NEW q \in Questions, NEW t \in Texts, NextSeq(q),
               Insert(q, t, "pending") \/ Insert(q, t, "unanswered")
        PROVE DeliveredOnce'
    BY <1>9 DEF Insert, NextSeq, TypeOK
  <1>10. ASSUME NEW r \in Requests, NEW t \in Texts, NEW q \in Questions,
                AskNew(r, t, q) \/ AskTorn(r, t, q)
         PROVE DeliveredOnce'
    BY <1>9, <1>10 DEF AskNew, AskTorn
  <1>11. ASSUME NEW q \in Questions, Delivered(q) PROVE DeliveredOnce'
    BY <1>11 DEF Delivered, TypeOK
  <1>12. ASSUME NEW r \in Requests, NEW q \in Questions, Collect(r, q)
         PROVE DeliveredOnce'
    BY <1>11, <1>12 DEF Collect, store
  <1>13. ASSUME NEW r \in Requests, NEW q \in Questions, CollectTorn(r, q)
         PROVE DeliveredOnce'
    BY <1>13 DEF CollectTorn, TypeOK
  <1>14. ASSUME NEW q \in Questions, WindowPasses(q) PROVE DeliveredOnce'
    BY <1>14 DEF WindowPasses, store
  <1>15. ASSUME NEW q \in Questions, NEW a \in Answers, answerConsult(q, a)
         PROVE DeliveredOnce'
    BY <1>15 DEF answerConsult, Claimable, TypeOK
  <1>16. ASSUME NEW q \in Questions, NEW a \in Answers, AnswerTorn(q, a)
         PROVE DeliveredOnce'
    BY <1>16 DEF AnswerTorn, Claimable, TypeOK
  <1> QED BY <1>1, <1>3, <1>4, <1>5, <1>6, <1>7, <1>8, <1>10, <1>12, <1>13, <1>14,
             <1>15, <1>16 DEF Next

(* One consult.delivered per question, whatever waits, joins, collects and *)
(* restarts in between.                                                    *)
THEOREM AnnouncedOnce == Spec => []DeliveredOnce
  <1>1. Init => DeliveredOnce
    BY DEF Init, DeliveredOnce
  <1>2. TypeOK /\ DeliveredOnce /\ [Next]_vars => DeliveredOnce'
    BY DeliveryStep
  <1> QED BY <1>1, <1>2, TypeCorrect, PTL DEF Spec

-----------------------------------------------------------------------------
(* A question has one answer and its delivery is told once.                *)
THEOREM OneAnswerOnly == Spec => []OneAnswer
  <1>1. HeardIsTheAnswer /\ DeliveredOnce => OneAnswer
    BY DEF OneAnswer
  <1> QED BY <1>1, AnswerHeardIsTheOne, AnnouncedOnce, PTL

(* The originator's queue stays within its cap and free of twins.          *)
THEOREM QueueStaysSound == Spec => []QueueSound
  <1>1. PendingBound /\ NoTwinQuestions => QueueSound
    BY DEF QueueSound
  <1> QED BY <1>1, PendingNeverExceeds, NoQuestionTwice, PTL

(* Neither end of the channel is left with a debt the other has forgotten. *)
THEOREM NobodyIsForgotten == Spec => []NobodyForgotten
  <1>1. HeldMeansPending /\ PromiseKept /\ EndedLeavesNothingPending
          => NobodyForgotten
    BY DEF NobodyForgotten
  <1> QED BY <1>1, NoHoldIsForgotten, DeliveredPromiseKept, EndedCallOwesNothing, PTL
=============================================================================
