------------------------------ MODULE MailProofs ------------------------------
(***************************************************************************)
(* Proofs about what gmail-mcp keeps over a remote call: MailBatches for   *)
(* any list, any chunks and any faults, ThreadPages for any number of      *)
(* accounts, queries, pages and reads under way.                           *)
(*                                                                         *)
(* IInv adds to the types of a batch where each await stands between the   *)
(* two loops (Places), what the requests under way are about (Calls), and  *)
(* how many verdicts each item has (Reported).  ThreadsInv adds to those   *)
(* of the thread list that a load of a user who waits is alone             *)
(* (LoadsAlone) and that a page under way is the next one (PagesNext).     *)
(*                                                                         *)
(* The last part is about DraftCompose, for any number of editors, saves   *)
(* and lives of the UI.  DraftInv adds what the state of the UI says about *)
(* the editor it holds (Fits), and that an editor not yet opened has no    *)
(* file and no text (Fresh).                                               *)
(***************************************************************************)
EXTENDS MCMail, Sequences, TLAPS

Places ==
  /\ phase = "start" => i = 0 /\ at = 1
  /\ phase = "chunk" => i < count /\ at = i + 1
  /\ phase = "retry" => at \in Chunk(i)
  /\ phase = "returned" /\ ~aborted => at = count + 1

(* Gmail has done what it says it has done.                                *)
OkIsDone == \A r \in wire : r.state = "ok" => Named(r) \subseteq done

(* An awaited chunk has, for each item, a request under way or its effect. *)
Covered ==
  phase = "chunk" =>
    \A p \in Chunk(i) :
      items[p] \in done \/ \E r \in wire : Awaited(r) /\ p \in r.about

(* A retry is the only one, and about the item it is awaited for.          *)
OneRetry ==
  /\ \A r \in wire : r.try = "retry" => phase = "retry" /\ r.about = {at}
  /\ \A r, s \in wire : r.try = "retry" /\ s.try = "retry" => r = s

Calls == OkIsDone /\ Covered /\ OneRetry

Reported == \A p \in Positions : Verdicts(p) = IF p < at THEN 1 ELSE 0

IInv == TypeOK /\ Places /\ Calls /\ Reported /\ SuccessIsDone

-----------------------------------------------------------------------------
USE DEF input, report, vars, Unsettled

LEMMA InvInit == ASSUME BatchAssumption, Init PROVE IInv
<1>1. count \in Nat
  BY DEF BatchAssumption, Init
<1>2. TypeOK
  <2>1. at \in 1..(count + 1)
    BY <1>1 DEF Init
  <2>2. successes \in [Positions -> Nat] /\ failures \in [Positions -> Nat]
    BY DEF Init
  <2> QED BY <2>1, <2>2 DEF Init, TypeOK
<1>3. Places
  BY DEF Init, Places
<1>4. Calls
  BY DEF Init, Calls, OkIsDone, Covered, OneRetry
<1>5. Reported /\ SuccessIsDone
  BY <1>1 DEF Init, Reported, SuccessIsDone, Verdicts, Positions
<1> QED BY <1>2, <1>3, <1>4, <1>5 DEF IInv

(* A chunk lies within the list.                                           *)
LEMMA ChunkFits ==
  ASSUME BatchAssumption, TypeOK, NEW j \in Nat
  PROVE  /\ batchSize \in Nat \ {0} /\ count \in Nat /\ i \in Nat /\ at \in Nat
         /\ ChunkEnd(j) \in Nat /\ ChunkEnd(j) <= count
         /\ Chunk(j) \subseteq Positions /\ j + batchSize \in Nat
         /\ \A p \in Positions : p \in Chunk(j) <=> j < p /\ p <= j + batchSize
<1>1. batchSize \in Nat \ {0} /\ count \in Nat /\ i \in Nat /\ at \in Nat
  BY DEF BatchAssumption, TypeOK
<1> QED BY <1>1 DEF Chunk, ChunkEnd, Positions

LEMMA CallsFit ==
  ASSUME BatchAssumption, TypeOK, NEW j \in Nat
  PROVE  /\ ChunkCalls(j) \subseteq Requests
         /\ \A r \in ChunkCalls(j) : r.try = "chunk" /\ r.state = "sent"
                                     /\ r.about \subseteq Chunk(j)
         /\ \A p \in Chunk(j) : \E r \in ChunkCalls(j) : p \in r.about
<1>1. Chunk(j) \subseteq Positions
  BY ChunkFits
<1>2. CASE op = "phishing"
  BY <1>1, <1>2 DEF ChunkCalls, PhishingCall, Call, Requests
<1>3. CASE op # "phishing"
  <2>1. ChunkCalls(j) = {Call("chunk", {p}) : p \in Chunk(j)}
    BY <1>3 DEF ChunkCalls, MessageCalls
  <2>2. \A p \in Chunk(j) : Call("chunk", {p}) \in Requests
    BY <1>1 DEF Call, Requests
  <2>3. \A p \in Chunk(j) : Call("chunk", {p}) \in ChunkCalls(j)
                            /\ p \in Call("chunk", {p}).about
    BY <2>1 DEF Call
  <2>4. \A r \in ChunkCalls(j) : r.try = "chunk" /\ r.state = "sent"
                                 /\ r.about \subseteq Chunk(j)
    BY <2>1 DEF Call
  <2> QED BY <2>1, <2>2, <2>3, <2>4
<1> QED BY <1>2, <1>3

-----------------------------------------------------------------------------
(* The loop heads.  Either the call goes on to a chunk, with its requests, *)
(* or it returns.                                                          *)
LEMMA HeadOfLoop ==
  ASSUME BatchAssumption, TypeOK, NEW j \in Nat, NEW rest, LoopHead(j, rest)
  PROVE  /\ i' = j
         /\ \/ phase' = "returned" /\ wire' = rest /\ (j >= count \/ aborted)
            \/ /\ phase' = "chunk" /\ wire' = rest \cup ChunkCalls(j)
               /\ j < count /\ ~aborted
BY ChunkFits DEF LoopHead

(* An item of the chunk is tried again, or the chunk is over, or the call  *)
(* is.                                                                     *)
LEMMA HeadOfRetries ==
  ASSUME BatchAssumption, TypeOK, NEW p \in Nat, NEW rest, RetryHead(p, rest)
  PROVE  /\ at' = p
         /\ \/ /\ phase' = "retry" /\ p \in Chunk(i) /\ i' = i
               /\ wire' = rest \cup {Call("retry", {p})}
            \/ /\ LoopHead(i + batchSize, rest)
               /\ p \notin Chunk(i) \/ aborted
BY DEF RetryHead

-----------------------------------------------------------------------------
(* The part of the types that a loop head decides.                         *)
LEMMA HeadTypes ==
  ASSUME BatchAssumption, TypeOK, NEW rest \in SUBSET Requests,
         UNCHANGED <<input, aborted, done>>,
         at' \in 1..(count + 1),
         successes' \in [Positions -> Nat], failures' \in [Positions -> Nat],
         \/ \E j \in Nat : LoopHead(j, rest)
         \/ \E p \in Nat : RetryHead(p, rest)
  PROVE  TypeOK'
<1> DEFINE Goal == i' \in Nat /\ wire' \subseteq Requests
                   /\ phase' \in {"retry", "chunk", "returned"}
<1>1. Goal
  <2>1. ASSUME NEW j \in Nat, LoopHead(j, rest) PROVE Goal
    BY <2>1, HeadOfLoop, CallsFit
  <2>2. ASSUME NEW p \in Nat, RetryHead(p, rest) PROVE Goal
    <3>1. i \in Nat /\ i + batchSize \in Nat /\ Chunk(i) \subseteq Positions
      BY ChunkFits DEF TypeOK
    <3>2. p \in Positions => Call("retry", {p}) \in Requests
      BY DEF Call, Requests
    <3>3. CASE LoopHead(i + batchSize, rest)
      BY <2>1, <3>1, <3>3
    <3>4. CASE phase' = "retry" /\ p \in Chunk(i) /\ i' = i
               /\ wire' = rest \cup {Call("retry", {p})}
      BY <3>1, <3>2, <3>4
    <3> QED BY <2>2, <3>3, <3>4, HeadOfRetries
  <2> HIDE DEF Goal
  <2> QED BY <2>1, <2>2, Zenon
<1>2. Positions' = Positions /\ Requests' = Requests
  BY DEF Positions, Requests
<1> QED BY <1>1, <1>2 DEF TypeOK

(* A push counts.                                                          *)
LEMMA PushCounts ==
  ASSUME NEW counts \in [Positions -> Nat], NEW ps
  PROVE  /\ Push(counts, ps) \in [Positions -> Nat]
         /\ \A p \in Positions :
              Push(counts, ps)[p] = IF p \in ps THEN counts[p] + 1 ELSE counts[p]
BY DEF Push

-----------------------------------------------------------------------------
(* Types.                                                                  *)
LEMMA TypeInv == ASSUME BatchAssumption, IInv, [Next]_vars PROVE TypeOK'
<1> USE DEF IInv
<1>a. i \in Nat /\ at \in Nat /\ count \in Nat /\ Chunk(i) \subseteq Positions
      /\ ChunkEnd(i) \in Nat /\ ChunkEnd(i) <= count
      /\ i + batchSize \in Nat
  BY ChunkFits DEF TypeOK
<1>b. successes \in [Positions -> Nat] /\ failures \in [Positions -> Nat]
      /\ at \in 1..(count + 1)
  BY DEF TypeOK
<1>c. \A r \in wire : wire \ {r} \in SUBSET Requests
  BY DEF TypeOK
<1>1. CASE UNCHANGED vars
  BY <1>1 DEF TypeOK, Positions, Requests
<1>2. ASSUME NEW r \in wire,
             GmailDoes(r) \/ GmailRefuses(r) \/ AnswerIsLost(r)
      PROVE  TypeOK'
  <2>1. wire' \subseteq Requests
    BY <1>2 DEF GmailDoes, GmailRefuses, AnswerIsLost, Answered, TypeOK, Requests
  <2>2. Named(r) \subseteq Messages
    BY DEF Named, TypeOK, Requests
  <2>3. done' \subseteq Messages \ Missing
    BY <1>2, <2>2 DEF GmailDoes, GmailRefuses, AnswerIsLost, Refused, TypeOK
  <2>4. UNCHANGED Unsettled
    BY <1>2 DEF GmailDoes, GmailRefuses, AnswerIsLost
  <2> QED BY <2>1, <2>3, <2>4 DEF TypeOK, Positions, Requests
<1>3. CASE Cancel
  BY <1>3 DEF Cancel, TypeOK, Positions, Requests
<1>4. ASSUME NEW r \in wire, StragglerAnswers(r) PROVE TypeOK'
  BY <1>4 DEF StragglerAnswers, TypeOK, Positions, Requests
<1>5. CASE Begin
  <2>1. wire \in SUBSET Requests
    BY DEF TypeOK
  <2> QED BY <1>5, <1>b, <2>1, HeadTypes DEF Begin
<1>6. ASSUME NEW r \in wire, PartSucceeds(r) PROVE TypeOK'
  <2>1. CASE Outstanding(r) # {}
    <3>1. wire' = wire \ {r} /\ UNCHANGED <<phase, i, at, report>>
          /\ UNCHANGED <<input, aborted, done>>
      BY <1>6, <2>1 DEF PartSucceeds, Settles
    <3> QED BY <3>1 DEF TypeOK, Positions, Requests
  <2>2. CASE Outstanding(r) = {}
    <3>1. /\ successes' = Push(successes, Chunk(i)) /\ UNCHANGED failures
          /\ at' = ChunkEnd(i) + 1
          /\ LoopHead(i + batchSize, wire \ {r})
          /\ UNCHANGED <<input, aborted, done>>
      BY <1>6, <2>2 DEF PartSucceeds, Settles
    <3>2. successes' \in [Positions -> Nat]
      BY <3>1, <1>b, PushCounts
    <3>3. failures' \in [Positions -> Nat]
      BY <3>1, <1>b
    <3>4. at' \in 1..(count + 1)
      BY <3>1, <1>a
    <3> QED BY <3>1, <3>2, <3>3, <3>4, <1>a, <1>c, HeadTypes
  <2> QED BY <2>1, <2>2
<1>7. ASSUME NEW r \in wire, ChunkFails(r) PROVE TypeOK'
  <2>1. RetryHead(i + 1, wire \ {r}) /\ phase = "chunk"
        /\ UNCHANGED <<input, aborted, report, done>>
    BY <1>7 DEF ChunkFails
  <2>2. i + 1 \in Nat /\ at' = i + 1
    BY <2>1, <1>a DEF RetryHead
  <2>3. at' \in 1..(count + 1)
    BY <2>1, <2>2, <1>a DEF Places
  <2> QED BY <2>1, <2>2, <2>3, <1>b, <1>c, HeadTypes
<1>8. ASSUME NEW r \in wire, ItemAnswers(r) PROVE TypeOK'
  <2>1. RetryHead(at + 1, wire \ {r}) /\ phase = "retry"
        /\ UNCHANGED <<input, aborted, done>>
    BY <1>8 DEF ItemAnswers
  <2>2. at + 1 \in Nat /\ at' = at + 1
    BY <2>1, <1>a DEF RetryHead
  <2>3. at' \in 1..(count + 1)
    BY <2>1, <2>2, <1>a DEF Places, Positions
  <2>4. successes' \in [Positions -> Nat] /\ failures' \in [Positions -> Nat]
    BY <1>8, <1>b, PushCounts DEF ItemAnswers
  <2> QED BY <2>1, <2>2, <2>3, <2>4, <1>c, HeadTypes
<1> QED
  BY <1>1, <1>2, <1>3, <1>4, <1>5, <1>6, <1>7, <1>8 DEF Next

-----------------------------------------------------------------------------
(* Where the awaits stand.                                                 *)
LEMMA HeadPlaces ==
  ASSUME BatchAssumption, TypeOK, NEW j \in Nat, NEW rest, LoopHead(j, rest),
         UNCHANGED <<input, aborted>>,
         j < count /\ ~aborted => at' = j + 1,
         j >= count /\ ~aborted => at' = count + 1
  PROVE  Places'
BY HeadOfLoop DEF Places, Chunk, ChunkEnd

LEMMA RetryPlaces ==
  ASSUME BatchAssumption, TypeOK, NEW p \in Nat, NEW rest, RetryHead(p, rest),
         UNCHANGED <<input, aborted>>, i < p, p <= ChunkEnd(i) + 1
  PROVE  Places'
<1>1. i \in Nat /\ count \in Nat /\ i + batchSize \in Nat /\ ChunkEnd(i) \in Nat
      /\ batchSize \in Nat
  BY ChunkFits DEF TypeOK
<1>2. CASE phase' = "retry" /\ p \in Chunk(i) /\ i' = i /\ at' = p
  <2>1. Chunk(i)' = Chunk(i)
    BY <1>2 DEF Chunk, ChunkEnd
  <2> QED BY <1>2, <2>1 DEF Places
<1>3. CASE LoopHead(i + batchSize, rest) /\ (p \notin Chunk(i) \/ aborted)
           /\ at' = p
  <2>1. ~aborted => p = ChunkEnd(i) + 1
    BY <1>1, <1>3 DEF Chunk
  <2>2. i + batchSize < count /\ ~aborted => at' = i + batchSize + 1
    BY <1>1, <1>3, <2>1 DEF ChunkEnd
  <2>3. i + batchSize >= count /\ ~aborted => at' = count + 1
    BY <1>1, <1>3, <2>1 DEF ChunkEnd
  <2> QED BY <1>1, <1>3, <2>2, <2>3, HeadPlaces
<1> QED BY <1>2, <1>3, HeadOfRetries

LEMMA PlacesInv == ASSUME BatchAssumption, IInv, [Next]_vars PROVE Places'
<1> USE DEF IInv
<1>a. i \in Nat /\ at \in Nat /\ count \in Nat /\ batchSize \in Nat
      /\ ChunkEnd(i) \in Nat /\ i + batchSize \in Nat
  BY ChunkFits DEF TypeOK
<1>1. CASE UNCHANGED <<input, phase, i, at>>
           /\ (phase # "returned" \/ UNCHANGED aborted)
  <2>1. Chunk(i)' = Chunk(i)
    BY <1>1 DEF Chunk, ChunkEnd
  <2> QED BY <1>1, <2>1 DEF Places
<1>2. CASE Begin
  BY <1>2, <1>a, HeadPlaces DEF Begin, Places
<1>3. ASSUME NEW r \in wire, PartSucceeds(r), Outstanding(r) = {}
      PROVE  Places'
  <2>1. /\ at' = ChunkEnd(i) + 1 /\ LoopHead(i + batchSize, wire \ {r})
        /\ UNCHANGED <<input, aborted>>
    BY <1>3 DEF PartSucceeds, Settles
  <2>2. /\ i + batchSize < count => at' = i + batchSize + 1
        /\ i + batchSize >= count => at' = count + 1
    BY <1>a, <2>1 DEF ChunkEnd
  <2> QED BY <1>a, <2>1, <2>2, HeadPlaces
<1>4. ASSUME NEW r \in wire, ChunkFails(r) PROVE Places'
  <2>1. /\ RetryHead(i + 1, wire \ {r}) /\ phase = "chunk"
        /\ UNCHANGED <<input, aborted>>
    BY <1>4 DEF ChunkFails
  <2>2. i + 1 <= ChunkEnd(i) + 1
    BY <1>a, <2>1 DEF Places, ChunkEnd
  <2> QED BY <1>a, <2>1, <2>2, RetryPlaces
<1>5. ASSUME NEW r \in wire, ItemAnswers(r) PROVE Places'
  <2>1. /\ RetryHead(at + 1, wire \ {r}) /\ phase = "retry"
        /\ UNCHANGED <<input, aborted>>
    BY <1>5 DEF ItemAnswers
  <2>2. i < at + 1 /\ at + 1 <= ChunkEnd(i) + 1
    BY <1>a, <2>1 DEF Places, Chunk
  <2> QED BY <1>a, <2>1, <2>2, RetryPlaces
<1>6. ASSUME NEW r \in wire, PartSucceeds(r), Outstanding(r) # {}
      PROVE  Places'
  BY <1>1, <1>6 DEF PartSucceeds, Settles
<1>7. ASSUME NEW r \in wire,
             \/ GmailDoes(r) \/ GmailRefuses(r) \/ AnswerIsLost(r)
             \/ StragglerAnswers(r)
      PROVE  Places'
  BY <1>1, <1>7 DEF GmailDoes, GmailRefuses, AnswerIsLost, StragglerAnswers
<1>8. CASE Cancel \/ UNCHANGED vars
  BY <1>1, <1>8 DEF Cancel
<1> QED
  BY <1>2, <1>3, <1>4, <1>5, <1>6, <1>7, <1>8 DEF Next

-----------------------------------------------------------------------------
(* What is under way.                                                      *)
LEMMA OkIsDoneInv == ASSUME BatchAssumption, IInv, [Next]_vars PROVE OkIsDone'
<1> USE DEF IInv, Calls
<1>1. ASSUME \A r \in wire' : r.state = "ok" => r \in wire,
             done \subseteq done', UNCHANGED items
      PROVE  OkIsDone'
  BY <1>1 DEF OkIsDone, Named
<1>2. ASSUME NEW r \in wire,
             GmailDoes(r) \/ GmailRefuses(r) \/ AnswerIsLost(r)
      PROVE  OkIsDone'
  <2>1. UNCHANGED items /\ done \subseteq done'
    BY <1>2 DEF GmailDoes, GmailRefuses, AnswerIsLost
  <2>2. CASE GmailDoes(r)
    <3>1. r \in Requests
      BY DEF TypeOK
    <3>2. wire' = (wire \ {r}) \cup {[r EXCEPT !.state = "ok"]}
          /\ Named(r) \subseteq done'
      BY <2>2 DEF GmailDoes, Answered
    <3>3. Named([r EXCEPT !.state = "ok"])' = Named(r)
      BY <2>1, <3>1 DEF Named, Requests
    <3>4. \A s \in wire \ {r} : s.state = "ok" => Named(s)' \subseteq done'
      BY <2>1 DEF OkIsDone, Named
    <3> QED BY <3>2, <3>3, <3>4 DEF OkIsDone
  <2>3. CASE GmailRefuses(r) \/ AnswerIsLost(r)
    <3>1. r \in Requests
      BY DEF TypeOK
    <3>2. wire' = (wire \ {r}) \cup {[r EXCEPT !.state = "err"]}
      BY <2>3 DEF GmailRefuses, AnswerIsLost, Answered
    <3>3. [r EXCEPT !.state = "err"].state = "err"
      BY <3>1 DEF Requests
    <3>4. \A s \in wire' : s.state = "ok" => s \in wire
      BY <3>2, <3>3
    <3> QED BY <1>1, <2>1, <3>4
  <2> QED BY <1>2, <2>2, <2>3
<1>3. ASSUME NEW j \in Nat, NEW rest \in SUBSET wire, LoopHead(j, rest),
             UNCHANGED <<input, done>>
      PROVE  OkIsDone'
  <2>1. \A r \in wire' : r.state = "ok" => r \in wire
    BY <1>3, HeadOfLoop, CallsFit
  <2> QED BY <1>1, <1>3, <2>1
<1>4. ASSUME NEW p \in Nat, NEW rest \in SUBSET wire, RetryHead(p, rest),
             UNCHANGED <<input, done>>
      PROVE  OkIsDone'
  <2>1. i + batchSize \in Nat
    BY ChunkFits DEF TypeOK
  <2>2. CASE wire' = rest \cup {Call("retry", {p})}
    <3>1. Call("retry", {p}).state = "sent"
      BY DEF Call
    <3>2. \A r \in wire' : r.state = "ok" => r \in wire
      BY <2>2, <3>1
    <3> QED BY <1>1, <1>4, <3>2
  <2>3. CASE LoopHead(i + batchSize, rest)
    BY <1>3, <1>4, <2>1, <2>3
  <2> QED BY <1>4, <2>2, <2>3, HeadOfRetries
<1>a. i \in Nat /\ i + 1 \in Nat /\ at + 1 \in Nat /\ i + batchSize \in Nat
  BY ChunkFits DEF TypeOK
<1>5. CASE Begin
  BY <1>3, <1>5 DEF Begin
<1>6. ASSUME NEW r \in wire, PartSucceeds(r) PROVE OkIsDone'
  BY <1>1, <1>3, <1>6, <1>a DEF PartSucceeds, Settles
<1>7. ASSUME NEW r \in wire, ChunkFails(r) PROVE OkIsDone'
  BY <1>4, <1>7, <1>a DEF ChunkFails
<1>8. ASSUME NEW r \in wire, ItemAnswers(r) PROVE OkIsDone'
  BY <1>4, <1>8, <1>a DEF ItemAnswers
<1>9. ASSUME NEW r \in wire, StragglerAnswers(r) PROVE OkIsDone'
  BY <1>1, <1>9 DEF StragglerAnswers
<1>10. CASE Cancel \/ UNCHANGED vars
  BY <1>1, <1>10 DEF Cancel
<1> QED
  BY <1>2, <1>5, <1>6, <1>7, <1>8, <1>9, <1>10 DEF Next

(* A loop head leaves a covered chunk, or one retry, under way.            *)
LEMMA HeadCalls ==
  ASSUME BatchAssumption, TypeOK, NEW j \in Nat, NEW rest, LoopHead(j, rest),
         \A r \in rest : r.try # "retry", UNCHANGED <<input, done>>
  PROVE  Covered' /\ OneRetry'
<1>1. \A r \in wire' : r.try # "retry"
  BY HeadOfLoop, CallsFit
<1>2. CASE phase' = "chunk" /\ wire' = rest \cup ChunkCalls(j) /\ i' = j
  <2>1. Chunk(i)' = Chunk(j)
    BY <1>2 DEF Chunk, ChunkEnd
  <2>2. \A p \in Chunk(j) : \E r \in ChunkCalls(j) :
          p \in r.about /\ r.try = "chunk" /\ r.about \subseteq Chunk(j)
    BY CallsFit
  <2>3. Covered'
    BY <1>2, <2>1, <2>2 DEF Covered, Awaited
  <2> QED BY <1>1, <2>3 DEF OneRetry
<1>3. CASE phase' = "returned"
  BY <1>1, <1>3 DEF Covered, OneRetry
<1> QED BY <1>2, <1>3, HeadOfLoop

LEMMA RetryCalls ==
  ASSUME BatchAssumption, TypeOK, NEW p \in Nat, NEW rest, RetryHead(p, rest),
         \A r \in rest : r.try # "retry", UNCHANGED <<input, done>>
  PROVE  Covered' /\ OneRetry'
<1>1. i + batchSize \in Nat
  BY ChunkFits DEF TypeOK
<1>2. CASE phase' = "retry" /\ at' = p
           /\ wire' = rest \cup {Call("retry", {p})}
  <2>1. Call("retry", {p}).about = {p}
    BY DEF Call
  <2> QED BY <1>2, <2>1 DEF Covered, OneRetry
<1>3. CASE LoopHead(i + batchSize, rest)
  BY <1>1, <1>3, HeadCalls
<1> QED BY <1>2, <1>3, HeadOfRetries

LEMMA CallsInv == ASSUME BatchAssumption, IInv, [Next]_vars PROVE Calls'
<1> USE DEF IInv, Calls
<1>a. i \in Nat /\ i + 1 \in Nat /\ at + 1 \in Nat /\ i + batchSize \in Nat
  BY ChunkFits DEF TypeOK
<1>b. phase # "retry" => \A r \in wire : r.try # "retry"
  BY DEF OneRetry
<1> DEFINE Goal == Covered' /\ OneRetry'
<1>1. ASSUME NEW r \in wire,
             GmailDoes(r) \/ GmailRefuses(r) \/ AnswerIsLost(r)
      PROVE  Goal
  <2>1. UNCHANGED Unsettled /\ done \subseteq done'
    BY <1>1 DEF GmailDoes, GmailRefuses, AnswerIsLost
  <2>2. PICK state : wire' = (wire \ {r}) \cup {[r EXCEPT !.state = state]}
    BY <1>1 DEF GmailDoes, GmailRefuses, AnswerIsLost, Answered
  <2> DEFINE a == [r EXCEPT !.state = state]
  <2>3. r \in Requests
    BY DEF TypeOK
  <2>4. a.try = r.try /\ a.about = r.about
    BY <2>3 DEF Requests
  <2>5. Chunk(i)' = Chunk(i)
    BY <2>1 DEF Chunk, ChunkEnd
  <2> HIDE DEF a
  <2>6. Covered'
    <3> SUFFICES ASSUME phase' = "chunk", NEW p \in Chunk(i)'
                 PROVE  items'[p] \in done'
                        \/ \E s \in wire' : Awaited(s)' /\ p \in s.about
      BY DEF Covered
    <3>1. CASE items[p] \in done
      BY <2>1, <3>1
    <3>2. ASSUME NEW s \in wire, Awaited(s), p \in s.about
          PROVE  \E t \in wire' : Awaited(t)' /\ p \in t.about
      <4>1. CASE s = r
        BY <2>1, <2>2, <2>4, <2>5, <3>2, <4>1 DEF Awaited, a
      <4>2. CASE s # r
        BY <2>1, <2>2, <2>5, <3>2, <4>2 DEF Awaited
      <4> QED BY <4>1, <4>2
    <3> QED BY <2>1, <2>5, <3>1, <3>2 DEF Covered
  <2>7. OneRetry'
    <3>1. wire' = (wire \ {r}) \cup {a}
      BY <2>2 DEF a
    <3>2. \A t \in wire' : \E u \in wire : t.try = u.try /\ t.about = u.about
      BY <2>4, <3>1
    <3>3. ASSUME NEW t \in wire', NEW u \in wire',
                 t.try = "retry", u.try = "retry"
          PROVE  t = u
      <4>1. CASE t = a
        BY <2>4, <3>1, <3>3, <4>1 DEF OneRetry
      <4>2. CASE u = a
        BY <2>4, <3>1, <3>3, <4>2 DEF OneRetry
      <4>3. CASE t # a /\ u # a
        BY <3>1, <3>3, <4>3 DEF OneRetry
      <4> QED BY <4>1, <4>2, <4>3
    <3> QED BY <2>1, <3>2, <3>3 DEF OneRetry
  <2> QED BY <2>6, <2>7
<1>2. ASSUME NEW r \in wire, StragglerAnswers(r) PROVE Goal
  <2>1. Chunk(i)' = Chunk(i) /\ wire' = wire \ {r} /\ ~Awaited(r)
        /\ UNCHANGED <<Unsettled, done>>
    BY <1>2 DEF StragglerAnswers, Chunk, ChunkEnd
  <2> QED BY <2>1 DEF Covered, OneRetry, Awaited
<1>3. ASSUME Begin PROVE Goal
  BY <1>3, <1>a, <1>b, HeadCalls DEF Begin
<1>4. ASSUME NEW r \in wire, PartSucceeds(r) PROVE Goal
  <2>1. phase = "chunk" /\ UNCHANGED <<input, done>>
    BY <1>4 DEF PartSucceeds, Settles
  <2>2. CASE Outstanding(r) = {}
    <3>1. LoopHead(i + batchSize, wire \ {r})
      BY <1>4, <2>2 DEF PartSucceeds, Settles
    <3> QED BY <1>a, <1>b, <2>1, <3>1, HeadCalls
  <2>3. CASE Outstanding(r) # {}
    <3>1. wire' = wire \ {r} /\ UNCHANGED <<phase, i, at>> /\ r.state = "ok"
      BY <1>4, <2>3 DEF PartSucceeds, Settles
    <3>2. Chunk(i)' = Chunk(i)
      BY <2>1, <3>1 DEF Chunk, ChunkEnd
    <3>3. Named(r) \subseteq done
      BY <3>1 DEF OkIsDone
    <3>4. Covered'
      BY <2>1, <3>1, <3>2, <3>3 DEF Covered, Awaited, Named
    <3> QED BY <3>1, <3>4 DEF OneRetry
  <2> QED BY <2>2, <2>3
<1>5. ASSUME NEW r \in wire, ChunkFails(r) PROVE Goal
  BY <1>5, <1>a, <1>b, RetryCalls DEF ChunkFails
<1>6. ASSUME NEW r \in wire, ItemAnswers(r) PROVE Goal
  <2>1. r.try = "retry" /\ RetryHead(at + 1, wire \ {r})
        /\ UNCHANGED <<input, done>>
    BY <1>6 DEF ItemAnswers, Awaited
  <2>2. \A s \in wire \ {r} : s.try # "retry"
    BY <2>1 DEF OneRetry
  <2> QED BY <1>a, <2>1, <2>2, RetryCalls
<1>7. ASSUME Cancel \/ UNCHANGED vars PROVE Goal
  <2>1. UNCHANGED <<input, phase, i, at, wire, done>>
    BY <1>7 DEF Cancel
  <2>2. Chunk(i)' = Chunk(i)
    BY <2>1 DEF Chunk, ChunkEnd
  <2>3. Covered'
    BY <2>1, <2>2 DEF Covered, Awaited
  <2>4. OneRetry'
    BY <2>1 DEF OneRetry
  <2> QED BY <2>3, <2>4
<1> HIDE DEF Goal
<1>8. Goal
  BY <1>1, <1>2, <1>3, <1>4, <1>5, <1>6, <1>7 DEF Next
<1> QED BY <1>8, OkIsDoneInv DEF Goal

-----------------------------------------------------------------------------
(* The report.                                                             *)
LEMMA ReportInv ==
  ASSUME BatchAssumption, IInv, [Next]_vars PROVE Reported' /\ SuccessIsDone'
<1> USE DEF IInv, Calls
<1>a. i \in Nat /\ at \in Nat /\ count \in Nat /\ Chunk(i) \subseteq Positions
      /\ ChunkEnd(i) \in Nat /\ batchSize \in Nat
  BY ChunkFits DEF TypeOK
<1>b. successes \in [Positions -> Nat] /\ failures \in [Positions -> Nat]
  BY DEF TypeOK
<1>1. CASE UNCHANGED <<input, report, at>> /\ done \subseteq done'
  <2>1. Positions' = Positions /\ \A p \in Positions : Verdicts(p)' = Verdicts(p)
    BY <1>1 DEF Positions, Verdicts
  <2> QED BY <1>1, <2>1 DEF Reported, SuccessIsDone
<1>2. ASSUME NEW r \in wire,
             \/ GmailDoes(r) \/ GmailRefuses(r) \/ AnswerIsLost(r)
             \/ StragglerAnswers(r)
      PROVE  Reported' /\ SuccessIsDone'
  BY <1>1, <1>2 DEF GmailDoes, GmailRefuses, AnswerIsLost, StragglerAnswers
<1>3. CASE Begin \/ Cancel \/ UNCHANGED vars
  BY <1>1, <1>3 DEF Begin, Cancel
<1>4. ASSUME NEW r \in wire, PartSucceeds(r)
      PROVE  Reported' /\ SuccessIsDone'
  <2>1. CASE Outstanding(r) # {}
    BY <1>1, <1>4, <2>1 DEF PartSucceeds, Settles
  <2>2. CASE Outstanding(r) = {}
    <3>1. /\ successes' = Push(successes, Chunk(i)) /\ failures' = failures
          /\ at' = ChunkEnd(i) + 1 /\ phase = "chunk" /\ r.state = "ok"
          /\ UNCHANGED <<input, done>>
      BY <1>4, <2>2 DEF PartSucceeds, Settles
    <3>2. Positions' = Positions
      BY <3>1 DEF Positions
    <3>3. ASSUME NEW p \in Chunk(i) PROVE items[p] \in done
      <4>1. Named(r) \subseteq done
        BY <3>1 DEF OkIsDone
      <4>2. ASSUME NEW s \in wire, Awaited(s), p \in s.about
            PROVE  items[p] \in done
        BY <2>2, <4>1, <4>2 DEF Outstanding, Named
      <4> QED BY <3>1, <4>2 DEF Covered
    <3>4. \A p \in Positions : p \in Chunk(i) <=> i < p /\ p < at'
      BY <1>a, <3>1 DEF Chunk, Positions
    <3>5. at = i + 1
      BY <3>1 DEF Places
    <3>6. Reported'
      <4> SUFFICES ASSUME NEW p \in Positions
                   PROVE  Verdicts(p)' = IF p < at' THEN 1 ELSE 0
        BY <3>2 DEF Reported
      <4>1. successes'[p] = (IF p \in Chunk(i) THEN successes[p] + 1
                             ELSE successes[p])
        BY <3>1, <1>b, PushCounts
      <4>2. successes[p] + failures[p] = (IF p < at THEN 1 ELSE 0)
            /\ successes[p] \in Nat /\ failures[p] \in Nat
        BY <1>b DEF Reported, Verdicts
      <4>3. Verdicts(p)' = successes'[p] + failures[p]
        BY <3>1 DEF Verdicts
      <4>4. at' \in Nat /\ at <= at' /\ p \in Nat
        BY <1>a, <3>1, <3>5 DEF Positions, ChunkEnd, Places
      <4> QED BY <1>a, <3>4, <3>5, <4>1, <4>2, <4>3, <4>4
    <3>7. SuccessIsDone'
      BY <1>b, <3>1, <3>2, <3>3, PushCounts DEF SuccessIsDone
    <3> QED BY <3>6, <3>7
  <2> QED BY <2>1, <2>2
<1>5. ASSUME NEW r \in wire, ChunkFails(r)
      PROVE  Reported' /\ SuccessIsDone'
  <2>1. phase = "chunk" /\ at' = i + 1 /\ UNCHANGED <<input, report, done>>
    BY <1>5 DEF ChunkFails, RetryHead
  <2>2. at = i + 1
    BY <2>1 DEF Places
  <2> QED BY <1>1, <2>1, <2>2
<1>6. ASSUME NEW r \in wire, ItemAnswers(r)
      PROVE  Reported' /\ SuccessIsDone'
  <2>1. /\ phase = "retry" /\ r.try = "retry" /\ at' = at + 1
        /\ UNCHANGED <<input, done>>
    BY <1>6 DEF ItemAnswers, Awaited, RetryHead
  <2>2. at \in Positions /\ r.about = {at} /\ Positions' = Positions
    BY <1>a, <2>1 DEF Places, OneRetry, Positions
  <2>3. ASSUME NEW p \in Positions
        PROVE  Verdicts(p)' = Verdicts(p) + (IF p = at THEN 1 ELSE 0)
    <3>1. successes[p] \in Nat /\ failures[p] \in Nat
      BY <1>b
    <3>2. CASE /\ successes' = Push(successes, {at})
               /\ failures' = failures
      BY <1>b, <3>1, <3>2, PushCounts DEF Verdicts
    <3>3. CASE /\ failures' = Push(failures, {at})
               /\ successes' = successes
      BY <1>b, <3>1, <3>3, PushCounts DEF Verdicts
    <3> QED BY <1>6, <3>2, <3>3 DEF ItemAnswers
  <2>4. Reported'
    <3> SUFFICES ASSUME NEW p \in Positions
                 PROVE  Verdicts(p)' = IF p < at' THEN 1 ELSE 0
      BY <2>2 DEF Reported
    <3>1. Verdicts(p) = (IF p < at THEN 1 ELSE 0) /\ p \in Nat
      BY <1>a DEF Reported, Positions
    <3> QED BY <1>a, <2>1, <2>3, <3>1
  <2>5. SuccessIsDone'
    <3>1. CASE r.state = "ok"
      <4>1. successes' = Push(successes, {at})
        BY <1>6, <3>1 DEF ItemAnswers
      <4>2. items[at] \in done
        BY <2>2, <3>1 DEF OkIsDone, Named
      <4> QED BY <1>b, <2>1, <2>2, <4>1, <4>2, PushCounts DEF SuccessIsDone
    <3>2. CASE r.state # "ok"
      BY <1>6, <2>1, <2>2, <3>2 DEF ItemAnswers, SuccessIsDone
    <3> QED BY <3>1, <3>2
  <2> QED BY <2>4, <2>5
<1> QED
  BY <1>2, <1>3, <1>4, <1>5, <1>6 DEF Next

-----------------------------------------------------------------------------
(* IInv is an invariant.                                                   *)
LEMMA InvHolds == Spec => []IInv
<1>1. Init => IInv
  BY InvInit, BatchAssumption
<1>2. IInv /\ [Next]_vars => IInv'
  BY BatchAssumption, TypeInv, PlacesInv, CallsInv, ReportInv DEF IInv
<1> QED BY <1>1, <1>2, PTL DEF Spec

(* Every variable of a batch call has its type: no index leaves the list.  *)
THEOREM Types == Spec => []TypeOK
<1>1. IInv => TypeOK
  BY DEF IInv
<1> QED BY <1>1, InvHolds, PTL

(* What processBatches reports as a success, Gmail has done, whatever the  *)
(* list, the chunks, the refusals, lost answers and stragglers.            *)
THEOREM SuccessesAreReal == Spec => []SuccessIsDone
<1>1. IInv => SuccessIsDone
  BY DEF IInv
<1> QED BY <1>1, InvHolds, PTL

(* The report gives each item of a prefix of the list one verdict, and     *)
(* each item of the list when the call returns without a cancellation.     *)
THEOREM EachItemOnce == Spec => []OneVerdict
<1>1. ASSUME IInv PROVE OneVerdict
  <2>1. at \in 1..(count + 1) /\ count \in Nat
    BY <1>1, BatchAssumption, ChunkFits DEF IInv, TypeOK
  <2>2. at - 1 \in 0..count
    BY <2>1
  <2>3. \A p \in Positions : Verdicts(p) = IF p <= at - 1 THEN 1 ELSE 0
    BY <1>1, <2>1 DEF IInv, Reported, Positions
  <2>4. phase = "returned" /\ ~aborted => at = count + 1
    BY <1>1 DEF IInv, Places
  <2>5. phase = "returned" /\ ~aborted
          => \A p \in Positions : Verdicts(p) = 1
    BY <2>1, <2>3, <2>4 DEF Positions
  <2> QED BY <2>2, <2>3, <2>5 DEF OneVerdict
<1> QED BY <1>1, InvHolds, PTL

(* The report is true and complete.                                        *)
THEOREM ReportsAreTrue == Spec => []ReportIsTrue
<1>1. SuccessIsDone /\ OneVerdict => ReportIsTrue
  BY DEF ReportIsTrue
<1> QED BY <1>1, SuccessesAreReal, EachItemOnce, PTL

-----------------------------------------------------------------------------
(* A read that is under way is about a page.                               *)
ReadsOfPages ==
  \A r \in Reads : reads[r].kind # "none" => reads[r].what \in Threads!Page

Loads(r) == reads[r].kind \in {"load", "switch"}

(* A user who waits has one load under way, and nothing beside it, ...     *)
LoadsAlone ==
  \A r \in Reads : Loads(r) =>
    /\ \A s \in Reads : s # r => reads[s].kind = "none"
    /\ due => list = << >>
    /\ reads[r].what.page = 1
    /\ reads[r].kind = "load" => reads[r].what.account = account

(* ... or one page, which is the next one of the list.                     *)
PagesNext ==
  \A r \in Reads : reads[r].kind = "page" =>
    /\ list # << >> /\ reads[r].what = token /\ lazy = token
    /\ \A s \in Reads : reads[s].kind = "page" => s = r

InOrder ==
  list # << >> =>
    /\ \A k \in 1..Len(list) :
         list[k] = [account |-> account, query |-> query, page |-> k]
    /\ token = Threads!After(list[Len(list)])

Patient == ~hasty => LoadsAlone /\ PagesNext /\ InOrder

ThreadsInv == Threads!TypeOK /\ ReadsOfPages /\ Threads!NoStuckPaging /\ Patient

-----------------------------------------------------------------------------
ReadType == [kind : Threads!Kinds, what : Threads!Page \cup {Threads!NoPage}]

LEMMA PagesAre ==
  /\ \A a \in Accounts, q \in Queries :
       /\ Threads!First(a, q) \in Threads!Page
       /\ Threads!First(a, q).page = 1 /\ Threads!First(a, q).account = a
  /\ Threads!NoPage \notin Threads!Page
  BY MailAssumption DEF Threads!First, Threads!Page, Threads!NoPage

LEMMA PagesFollow ==
  ASSUME NEW p \in Threads!Page
  PROVE  /\ Threads!After(p) \in Threads!Page \cup {Threads!NoPage}
         /\ Threads!After(p) # Threads!NoPage =>
              Threads!After(p) =
                [account |-> p.account, query |-> p.query, page |-> p.page + 1]
  BY MailAssumption DEF Threads!After, Threads!Page, Threads!NoPage

(* A read takes a free slot, and gives it back.                            *)
LEMMA Begins ==
  ASSUME reads \in [Reads -> ReadType], NEW kind \in Threads!Kinds,
         NEW what \in Threads!Page, Threads!Begin(kind, what)
  PROVE  /\ reads' \in [Reads -> ReadType]
         /\ \E r \in Reads : /\ reads[r].kind = "none"
                             /\ reads'[r] = [kind |-> kind, what |-> what]
                             /\ \A s \in Reads : s # r => reads'[s] = reads[s]
  <1>1. PICK r \in Threads!Free :
          reads' = [reads EXCEPT ![r] = [kind |-> kind, what |-> what]]
    BY DEF Threads!Begin
  <1>2. r \in Reads /\ reads[r].kind = "none"
    BY DEF Threads!Free
  <1>3. [kind |-> kind, what |-> what] \in ReadType
    BY DEF ReadType
  <1> QED BY <1>1, <1>2, <1>3

LEMMA Ends ==
  ASSUME reads \in [Reads -> ReadType], NEW r \in Reads, Threads!End(r)
  PROVE  /\ reads' \in [Reads -> ReadType]
         /\ reads'[r] = Threads!NoRead
         /\ \A s \in Reads : s # r => reads'[s] = reads[s]
  <1>1. Threads!NoRead \in ReadType
    BY DEF ReadType, Threads!NoRead, Threads!Kinds
  <1> QED BY <1>1 DEF Threads!End

LEMMA NoReadIs == Threads!NoRead.kind = "none"
  BY DEF Threads!NoRead

(* What a step that starts no page may do to the paging.                   *)
LEMMA StillPaging ==
  ASSUME Threads!NoStuckPaging,
         lazy' \in {lazy, Threads!NoPage}, loadingMore' \in {loadingMore, FALSE},
         \A r \in Reads : reads[r].kind = "page" => reads'[r] = reads[r]
  PROVE  Threads!NoStuckPaging'
  <1>1. ASSUME lazy' # Threads!NoPage'
        PROVE  \E r \in Reads : reads'[r] = [kind |-> "page", what |-> lazy']
    <2>1. lazy' = lazy /\ lazy # Threads!NoPage
      BY <1>1 DEF Threads!NoPage
    <2> QED BY <2>1 DEF Threads!NoStuckPaging
  <1>2. ASSUME loadingMore' PROVE Threads!UnderWay({"page"})'
    <2>1. \E r \in Reads : reads[r].kind = "page"
      BY <1>2 DEF Threads!NoStuckPaging, Threads!UnderWay
    <2> QED BY <2>1 DEF Threads!UnderWay
  <1> QED BY <1>1, <1>2 DEF Threads!NoStuckPaging

LEMMA ThreadTypeParts ==
  Threads!TypeOK =>
    /\ account \in Accounts /\ query \in Queries
    /\ list \in Seq(Threads!Page)
    /\ token \in Threads!Page \cup {Threads!NoPage}
    /\ lazy \in Threads!Page \cup {Threads!NoPage}
    /\ nearEnd \in BOOLEAN /\ loading \in BOOLEAN /\ loadingMore \in BOOLEAN
    /\ due \in BOOLEAN /\ hasty \in BOOLEAN
    /\ reads \in [Reads -> ReadType]
    /\ changes \in 0..MaxChanges
  BY DEF Threads!TypeOK, ReadType

LEMMA ThreadTypesNow ==
  ASSUME account' \in Accounts, query' \in Queries,
         list' \in Seq(Threads!Page),
         token' \in Threads!Page \cup {Threads!NoPage},
         lazy' \in Threads!Page \cup {Threads!NoPage},
         nearEnd' \in BOOLEAN, loading' \in BOOLEAN, loadingMore' \in BOOLEAN,
         due' \in BOOLEAN, hasty' \in BOOLEAN,
         reads' \in [Reads -> ReadType],
         changes' \in 0..MaxChanges
  PROVE  Threads!TypeOK'
  BY DEF Threads!TypeOK, ReadType, Threads!Page, Threads!NoPage, Threads!Kinds

(* A change by a user who waits begins with nothing under way.             *)
LEMMA ChangesWait ==
  ASSUME Threads!TypeOK, Threads!Change
  PROVE  /\ changes' \in 0..MaxChanges
         /\ ~hasty => ~due /\ \A r \in Reads : reads[r].kind = "none"
  <1>1. changes' \in 0..MaxChanges
    BY ThreadTypeParts, MailAssumption DEF Threads!Change
  <1>2. ASSUME ~hasty PROVE ~due /\ \A r \in Reads : reads[r].kind = "none"
    BY <1>2, ThreadTypeParts
    DEF Threads!Change, Threads!UnderWay, ReadType
  <1> QED BY <1>1, <1>2

LEMMA ChangeStep ==
  ASSUME ThreadsInv, hasty' = hasty,
         \/ \E q \in Queries : Threads!SelectLabel(q) \/ Threads!Search(q)
         \/ \E a \in Accounts : Threads!SwitchAccount(a)
  PROVE  ThreadsInv'
  <1> USE DEF Threads!shown
  <1>1. Threads!TypeOK /\ Threads!Change
    BY DEF ThreadsInv, Threads!SelectLabel, Threads!Search, Threads!SwitchAccount
  <1>2. PICK kind \in {"load", "switch"}, a \in Accounts, q \in Queries :
          /\ Threads!Begin(kind, Threads!First(a, q))
          /\ kind = "load" => a = account
    BY <1>1, ThreadTypeParts, MailAssumption
    DEF Threads!SelectLabel, Threads!Search, Threads!SwitchAccount
  <1>3. /\ account' = account /\ query' = query
        /\ loadingMore' = loadingMore /\ lazy' = lazy
        /\ \/ /\ list' = << >> /\ token' = Threads!NoPage /\ nearEnd' = FALSE
              /\ loading' = TRUE /\ due' = TRUE
           \/ /\ list' = list /\ token' = token /\ nearEnd' = nearEnd
              /\ loading' = loading /\ due' = due
    BY DEF Threads!SelectLabel, Threads!Search, Threads!SwitchAccount, Threads!Reset
  <1>4. /\ reads' \in [Reads -> ReadType]
        /\ \E r \in Reads :
             /\ reads[r].kind = "none"
             /\ reads'[r] = [kind |-> kind, what |-> Threads!First(a, q)]
             /\ \A s \in Reads : s # r => reads'[s] = reads[s]
    <2>1. kind \in Threads!Kinds /\ Threads!First(a, q) \in Threads!Page
      BY PagesAre DEF Threads!Kinds
    <2> QED BY <1>1, <1>2, <2>1, ThreadTypeParts, Begins
  <1>5. PICK r \in Reads :
          /\ reads[r].kind = "none"
          /\ reads'[r] = [kind |-> kind, what |-> Threads!First(a, q)]
          /\ \A s \in Reads : s # r => reads'[s] = reads[s]
    BY <1>4
  <1>6. Threads!TypeOK'
    <2>1. /\ list' \in Seq(Threads!Page) /\ token' \in Threads!Page \cup {Threads!NoPage}
          /\ nearEnd' \in BOOLEAN /\ loading' \in BOOLEAN /\ due' \in BOOLEAN
      <3>1. /\ list \in Seq(Threads!Page) /\ token \in Threads!Page \cup {Threads!NoPage}
            /\ nearEnd \in BOOLEAN /\ loading \in BOOLEAN /\ due \in BOOLEAN
        BY <1>1, ThreadTypeParts
      <3>2. << >> \in Seq(Threads!Page)
        OBVIOUS
      <3> QED BY <1>3, <3>1, <3>2, Zenon
    <2>2. /\ account' \in Accounts /\ query' \in Queries /\ hasty' \in BOOLEAN
          /\ lazy' \in Threads!Page \cup {Threads!NoPage} /\ loadingMore' \in BOOLEAN
      BY <1>1, <1>3, ThreadTypeParts
    <2> QED BY <1>1, <1>4, <2>1, <2>2, ThreadTypesNow, ChangesWait
  <1>7. ReadsOfPages'
    BY <1>5, PagesAre DEF ThreadsInv, ReadsOfPages, Threads!Page
  <1>8. Threads!NoStuckPaging'
    BY <1>3, <1>5, StillPaging DEF ThreadsInv
  <1>9. Patient'
    <2> SUFFICES ASSUME ~hasty PROVE LoadsAlone' /\ PagesNext' /\ InOrder'
      BY DEF Patient
    <2>1. ~due /\ \A s \in Reads : reads[s].kind = "none"
      BY <1>1, ChangesWait
    <2>2. \A s \in Reads : reads'[s].kind # "none" => s = r
      BY <1>5, <2>1
    <2>3. /\ reads'[r].kind = kind /\ reads'[r].what.page = 1
          /\ kind = "load" => reads'[r].what.account = account'
      BY <1>2, <1>3, <1>5, PagesAre
    <2>4. due' => list' = << >>
      BY <1>3, <2>1
    <2>5. LoadsAlone'
      BY <2>2, <2>3, <2>4 DEF LoadsAlone, Loads
    <2>6. PagesNext'
      BY <2>2, <2>3 DEF PagesNext
    <2>7. InOrder'
      BY <1>3 DEF ThreadsInv, Patient, InOrder, Threads!After, Threads!NoPage
    <2> QED BY <2>5, <2>6, <2>7
  <1> QED BY <1>6, <1>7, <1>8, <1>9 DEF ThreadsInv

(* The end of a load or of an open read leaves the pages alone.            *)
LEMMA SettleStep ==
  ASSUME ThreadsInv, hasty' = hasty, NEW r \in Reads,
         Threads!ReadFails(r) \/ Threads!OpenAnswers(r) \/ Threads!LoadAnswers(r)
  PROVE  ThreadsInv'
  <1> USE DEF Threads!shown
  <1>1. Threads!TypeOK
    BY DEF ThreadsInv
  <1>2. /\ Threads!End(r) /\ account' = account /\ lazy' = lazy /\ changes' = changes
        /\ reads[r].kind \in {"load", "switch", "open"}
        /\ loadingMore' \in {loadingMore, FALSE}
    BY DEF Threads!ReadFails, Threads!OpenAnswers, Threads!LoadAnswers, Threads!Fails
  <1>3. /\ reads' \in [Reads -> ReadType] /\ reads'[r] = Threads!NoRead
        /\ \A s \in Reads : s # r => reads'[s] = reads[s]
    BY <1>1, <1>2, ThreadTypeParts, Ends
  <1>4. \/ list' = list /\ token' = token /\ nearEnd' = nearEnd /\ query' = query
        \/ /\ reads[r].kind = "load" /\ query' = reads[r].what.query /\ nearEnd' \in BOOLEAN
           /\ \/ list' = << >> /\ token' = Threads!NoPage
              \/ list' = <<reads[r].what>> /\ token' = Threads!After(reads[r].what)
    BY DEF Threads!ReadFails, Threads!OpenAnswers, Threads!LoadAnswers, Threads!Fails
  <1>5. reads[r].what \in Threads!Page
    BY <1>2 DEF ThreadsInv, ReadsOfPages
  <1>6. Threads!TypeOK'
    <2>1. /\ list' \in Seq(Threads!Page) /\ query' \in Queries /\ nearEnd' \in BOOLEAN
          /\ token' \in Threads!Page \cup {Threads!NoPage}
      <3>1. reads[r].what.query \in Queries
        BY <1>5 DEF Threads!Page
      <3>2. Threads!After(reads[r].what) \in Threads!Page \cup {Threads!NoPage}
        BY <1>5, PagesFollow
      <3>3. << >> \in Seq(Threads!Page) /\ <<reads[r].what>> \in Seq(Threads!Page)
        BY <1>5
      <3>4. /\ list \in Seq(Threads!Page) /\ query \in Queries /\ nearEnd \in BOOLEAN
            /\ token \in Threads!Page \cup {Threads!NoPage}
        BY <1>1, ThreadTypeParts
      <3> QED BY <1>4, <3>1, <3>2, <3>3, <3>4
    <2>2. loading' = FALSE /\ due' \in BOOLEAN
      BY <1>1, ThreadTypeParts, Zenon
      DEF Threads!ReadFails, Threads!OpenAnswers, Threads!LoadAnswers, Threads!Fails
    <2> QED BY <1>1, <1>2, <1>3, <2>1, <2>2, ThreadTypeParts, ThreadTypesNow
  <1>7. ReadsOfPages'
    BY <1>3, NoReadIs DEF ThreadsInv, ReadsOfPages, Threads!Page
  <1>8. Threads!NoStuckPaging'
    BY <1>2, <1>3, StillPaging DEF ThreadsInv
  <1>9. Patient'
    <2> SUFFICES ASSUME ~hasty PROVE LoadsAlone' /\ PagesNext' /\ InOrder'
      BY DEF Patient
    <2>1. LoadsAlone /\ PagesNext /\ InOrder
      BY DEF ThreadsInv, Patient
    <2>2. \A s \in Reads : ~Loads(s)'
      BY <1>2, <1>3, <2>1, NoReadIs DEF LoadsAlone, Loads
    <2>3. PagesNext'
      BY <1>2, <1>3, <1>4, <2>1, NoReadIs DEF LoadsAlone, Loads, PagesNext
    <2>4. InOrder'
      <3>1. CASE list' = list /\ token' = token /\ query' = query
        BY <1>2, <2>1, <3>1 DEF InOrder, Threads!After, Threads!NoPage
      <3>2. CASE list' = << >>
        BY <3>2 DEF InOrder
      <3>3. CASE /\ reads[r].kind = "load" /\ query' = reads[r].what.query
                 /\ list' = <<reads[r].what>> /\ token' = Threads!After(reads[r].what)
        <4>1. reads[r].what.page = 1 /\ reads[r].what.account = account'
          BY <1>2, <2>1, <3>3 DEF LoadsAlone, Loads
        <4>2. reads[r].what = [account |-> account', query |-> query', page |-> 1]
          BY <1>5, <3>3, <4>1 DEF Threads!Page
        <4> QED BY <3>3, <4>2 DEF InOrder, Threads!After, Threads!NoPage
      <3> QED BY <1>4, <3>1, <3>2, <3>3
    <2> QED BY <2>2, <2>3, <2>4 DEF LoadsAlone
  <1> QED BY <1>6, <1>7, <1>8, <1>9 DEF ThreadsInv

LEMMA SwitchStep ==
  ASSUME ThreadsInv, hasty' = hasty, NEW r \in Reads, Threads!SwitchAnswers(r)
  PROVE  ThreadsInv'
  <1> USE DEF Threads!shown
  <1>1. Threads!TypeOK
    BY DEF ThreadsInv
  <1>2. /\ reads[r].kind = "switch" /\ query' = query
        /\ loadingMore' = loadingMore /\ lazy' = lazy /\ changes' = changes
    BY DEF Threads!SwitchAnswers
  <1>3. \/ /\ Threads!End(r) /\ account' = account /\ list' = list /\ token' = token
           /\ nearEnd' = nearEnd /\ loading' = loading /\ due' = due
        \/ /\ reads' = [reads EXCEPT ![r].kind = "load"]
           /\ account' = reads[r].what.account
           /\ list' = << >> /\ token' = Threads!NoPage /\ nearEnd' = FALSE
           /\ loading' = TRUE /\ due' = TRUE
    BY DEF Threads!SwitchAnswers, Threads!Reset
  <1>4. reads[r].what \in Threads!Page
    BY <1>2 DEF ThreadsInv, ReadsOfPages
  <1>5. /\ reads' \in [Reads -> ReadType]
        /\ \A s \in Reads : s # r => reads'[s] = reads[s]
        /\ \/ reads'[r] = Threads!NoRead
           \/ reads'[r] = [kind |-> "load", what |-> reads[r].what]
    <2>1. CASE Threads!End(r)
      BY <1>1, <2>1, ThreadTypeParts, Ends
    <2>2. CASE reads' = [reads EXCEPT ![r].kind = "load"]
      BY <1>1, <2>2, ThreadTypeParts DEF ReadType, Threads!Kinds
    <2> QED BY <1>3, <2>1, <2>2
  <1>6. Threads!TypeOK'
    <2>1. account' \in Accounts
      BY <1>1, <1>3, <1>4, ThreadTypeParts DEF Threads!Page
    <2>2. /\ list' \in Seq(Threads!Page) /\ token' \in Threads!Page \cup {Threads!NoPage}
          /\ nearEnd' \in BOOLEAN /\ loading' \in BOOLEAN /\ due' \in BOOLEAN
      <3>1. /\ list \in Seq(Threads!Page) /\ token \in Threads!Page \cup {Threads!NoPage}
            /\ nearEnd \in BOOLEAN /\ loading \in BOOLEAN /\ due \in BOOLEAN
        BY <1>1, ThreadTypeParts
      <3>2. << >> \in Seq(Threads!Page)
        OBVIOUS
      <3> QED BY <1>3, <3>1, <3>2, Zenon
    <2>3. /\ query' \in Queries /\ hasty' \in BOOLEAN /\ changes' \in 0..MaxChanges
          /\ lazy' \in Threads!Page \cup {Threads!NoPage} /\ loadingMore' \in BOOLEAN
      BY <1>1, <1>2, ThreadTypeParts
    <2> QED BY <1>5, <2>1, <2>2, <2>3, ThreadTypesNow
  <1>7. ReadsOfPages'
    BY <1>4, <1>5, NoReadIs DEF ThreadsInv, ReadsOfPages, Threads!Page
  <1>8. Threads!NoStuckPaging'
    BY <1>2, <1>5, StillPaging DEF ThreadsInv
  <1>9. Patient'
    <2> SUFFICES ASSUME ~hasty PROVE LoadsAlone' /\ PagesNext' /\ InOrder'
      BY DEF Patient
    <2>1. LoadsAlone /\ PagesNext /\ InOrder
      BY DEF ThreadsInv, Patient
    <2>2. /\ \A s \in Reads : s # r => reads'[s].kind = "none"
          /\ reads[r].what.page = 1 /\ (due => list = << >>)
      BY <1>2, <1>5, <2>1 DEF LoadsAlone, Loads
    <2>3. reads'[r].kind # "page"
      BY <1>5, NoReadIs
    <2>4. PagesNext'
      BY <2>2, <2>3 DEF PagesNext
    <2>5. InOrder'
      BY <1>2, <1>3, <2>1 DEF InOrder, Threads!After, Threads!NoPage
    <2>6. reads'[r].kind = "load" =>
            /\ reads'[r].what = reads[r].what
            /\ account' = reads[r].what.account /\ list' = << >>
      BY <1>1, <1>2, <1>3, <1>5, NoReadIs, ThreadTypeParts, Ends
    <2>7. LoadsAlone'
      BY <1>5, <2>2, <2>6, NoReadIs DEF LoadsAlone, Loads
    <2> QED BY <2>4, <2>5, <2>7
  <1> QED BY <1>6, <1>7, <1>8, <1>9 DEF ThreadsInv

(* The user moves about: only what is due changes, and the cursor.         *)
LEMMA CursorStep ==
  ASSUME ThreadsInv, hasty' = hasty,
         Threads!MoveCursor \/ Threads!OpenThread \/ Threads!Cancel
  PROVE  ThreadsInv'
  <1> USE DEF Threads!shown
  <1>1. Threads!TypeOK
    BY DEF ThreadsInv
  <1>2. /\ account' = account /\ query' = query /\ list' = list /\ token' = token
        /\ loadingMore' = loadingMore /\ lazy' = lazy /\ reads' = reads
        /\ changes' = changes /\ Threads!Calm
    BY DEF Threads!MoveCursor, Threads!OpenThread, Threads!Cancel, Threads!Fails
  <1>3. nearEnd' \in BOOLEAN
    BY <1>1, ThreadTypeParts
    DEF Threads!MoveCursor, Threads!OpenThread, Threads!Cancel, Threads!Fails
  <1>4. loading' \in BOOLEAN /\ due' \in BOOLEAN
    BY <1>1, ThreadTypeParts, Zenon
    DEF Threads!MoveCursor, Threads!OpenThread, Threads!Cancel, Threads!Fails
  <1>5. Threads!TypeOK'
    BY <1>1, <1>2, <1>3, <1>4, ThreadTypeParts, ThreadTypesNow
  <1>6. ReadsOfPages' /\ Threads!NoStuckPaging'
    BY <1>2, StillPaging DEF ThreadsInv, ReadsOfPages, Threads!Page
  <1>7. Patient'
    <2> SUFFICES ASSUME ~hasty PROVE LoadsAlone' /\ PagesNext' /\ InOrder'
      BY DEF Patient
    <2>1. LoadsAlone /\ PagesNext /\ InOrder
      BY DEF ThreadsInv, Patient
    <2>2. \A r \in Reads : ~Loads(r)
      BY <1>2 DEF Threads!Calm, Threads!UnderWay, Loads
    <2>3. \A r \in Reads : ~Loads(r)'
      BY <1>2, <2>2 DEF Loads
    <2> QED BY <1>2, <2>1, <2>3
            DEF LoadsAlone, PagesNext, InOrder, Threads!After, Threads!NoPage
  <1> QED BY <1>5, <1>6, <1>7 DEF ThreadsInv

(* The effects of a render, other than the fetch of a page.                *)
LEMMA EffectsStep ==
  ASSUME ThreadsInv, hasty' = hasty, Threads!Effects, ~Threads!LazyEffect
  PROVE  ThreadsInv'
  <1> USE DEF Threads!shown
  <1>1. Threads!TypeOK
    BY DEF ThreadsInv
  <1>2. /\ account' = account /\ query' = query /\ list' = list /\ token' = token
        /\ loadingMore' = loadingMore /\ lazy' = lazy /\ nearEnd' = nearEnd
        /\ changes' = changes /\ due /\ loading' \in {loading, FALSE}
        /\ due' \in BOOLEAN
    BY DEF Threads!Effects, Threads!OpenEffect, Threads!NoEffect
  <1>3. /\ reads' \in [Reads -> ReadType]
        /\ \/ reads' = reads
           \/ /\ list # << >>
              /\ \E r \in Reads :
                   /\ reads[r].kind = "none"
                   /\ reads'[r] = [kind |-> "open", what |-> list[1]]
                   /\ \A s \in Reads : s # r => reads'[s] = reads[s]
    <2>1. CASE reads' = reads
      BY <1>1, <2>1, ThreadTypeParts
    <2>2. CASE list # << >> /\ Threads!Begin("open", list[1])
      <3>1. list[1] \in Threads!Page /\ "open" \in Threads!Kinds
        BY <1>1, <2>2, ThreadTypeParts DEF Threads!Kinds
      <3> QED BY <1>1, <2>2, <3>1, ThreadTypeParts, Begins
    <2> QED BY <2>1, <2>2 DEF Threads!Effects, Threads!OpenEffect, Threads!NoEffect
  <1>4. Threads!TypeOK'
    BY <1>1, <1>2, <1>3, ThreadTypeParts, ThreadTypesNow
  <1>5. CASE reads' = reads
    <2>1. ReadsOfPages' /\ Threads!NoStuckPaging'
      BY <1>2, <1>5, StillPaging DEF ThreadsInv, ReadsOfPages, Threads!Page
    <2>2. Patient'
      BY <1>2, <1>5 DEF ThreadsInv, Patient, LoadsAlone, Loads, PagesNext, InOrder,
         Threads!After, Threads!NoPage
    <2> QED BY <1>4, <2>1, <2>2 DEF ThreadsInv
  <1>6. ASSUME list # << >>, NEW r \in Reads, reads[r].kind = "none",
               reads'[r] = [kind |-> "open", what |-> list[1]],
               \A s \in Reads : s # r => reads'[s] = reads[s]
        PROVE  ThreadsInv'
    <2>1. list[1] \in Threads!Page
      BY <1>1, <1>6, ThreadTypeParts
    <2>2. ReadsOfPages' /\ Threads!NoStuckPaging'
      BY <1>2, <1>6, <2>1, StillPaging DEF ThreadsInv, ReadsOfPages, Threads!Page
    <2>3. Patient'
      <3> SUFFICES ASSUME ~hasty PROVE LoadsAlone' /\ PagesNext' /\ InOrder'
        BY DEF Patient
      <3>1. LoadsAlone /\ PagesNext /\ InOrder
        BY DEF ThreadsInv, Patient
      <3>2. \A s \in Reads : ~Loads(s)
        BY <1>2, <1>6, <3>1 DEF LoadsAlone
      <3>3. \A s \in Reads : ~Loads(s)'
        BY <1>6, <3>2 DEF Loads
      <3>4. PagesNext'
        BY <1>2, <1>6, <3>1 DEF PagesNext
      <3>5. InOrder'
        BY <1>2, <3>1 DEF InOrder, Threads!After, Threads!NoPage
      <3> QED BY <3>3, <3>4, <3>5 DEF LoadsAlone
    <2> QED BY <1>4, <2>2, <2>3 DEF ThreadsInv
  <1> QED BY <1>3, <1>5, <1>6

(* A page is fetched: it is the one after the list, and no other page is   *)
(* under way, for then the ref would be this one's.                        *)
LEMMA FetchStep ==
  ASSUME ThreadsInv, hasty' = hasty, Threads!Effects, Threads!LazyEffect
  PROVE  ThreadsInv'
  <1> USE DEF Threads!shown
  <1>1. Threads!TypeOK
    BY DEF ThreadsInv
  <1>2. /\ account' = account /\ query' = query /\ list' = list /\ token' = token
        /\ nearEnd' = nearEnd /\ changes' = changes /\ loading' = loading
        /\ loadingMore' = TRUE /\ lazy' = token /\ due' = FALSE /\ due
        /\ Threads!Begin("page", token)
        /\ list # << >> /\ token # Threads!NoPage /\ lazy # token
    BY DEF Threads!Effects, Threads!LazyEffect, Threads!WantsPage, Threads!FetchPage
  <1>3. token \in Threads!Page /\ "page" \in Threads!Kinds
    BY <1>1, <1>2, ThreadTypeParts DEF Threads!Kinds
  <1>4. /\ reads' \in [Reads -> ReadType]
        /\ \E r \in Reads : /\ reads[r].kind = "none"
                            /\ reads'[r] = [kind |-> "page", what |-> token]
                            /\ \A s \in Reads : s # r => reads'[s] = reads[s]
    BY <1>1, <1>2, <1>3, ThreadTypeParts, Begins
  <1>5. PICK r \in Reads : /\ reads[r].kind = "none"
                           /\ reads'[r] = [kind |-> "page", what |-> token]
                           /\ \A s \in Reads : s # r => reads'[s] = reads[s]
    BY <1>4
  <1>6. Threads!TypeOK'
    BY <1>1, <1>2, <1>4, ThreadTypeParts, ThreadTypesNow
  <1>7. ReadsOfPages'
    BY <1>3, <1>5 DEF ThreadsInv, ReadsOfPages, Threads!Page
  <1>8. Threads!NoStuckPaging'
    <2>1. reads'[r] = [kind |-> "page", what |-> lazy'] /\ reads'[r].kind = "page"
      BY <1>2, <1>5
    <2> QED BY <2>1 DEF Threads!NoStuckPaging, Threads!UnderWay
  <1>9. Patient'
    <2> SUFFICES ASSUME ~hasty PROVE LoadsAlone' /\ PagesNext' /\ InOrder'
      BY DEF Patient
    <2>1. LoadsAlone /\ PagesNext /\ InOrder
      BY DEF ThreadsInv, Patient
    <2>2. \A s \in Reads : ~Loads(s) /\ reads[s].kind # "page"
      BY <1>2, <2>1 DEF LoadsAlone, PagesNext
    <2>3. \A s \in Reads : ~Loads(s)' /\ (reads'[s].kind = "page" => s = r)
      BY <1>5, <2>2 DEF Loads
    <2>4. PagesNext'
      BY <1>2, <1>5, <2>3 DEF PagesNext
    <2>5. InOrder'
      BY <1>2, <2>1 DEF InOrder, Threads!After, Threads!NoPage
    <2> QED BY <2>3, <2>4, <2>5 DEF LoadsAlone
  <1> QED BY <1>6, <1>7, <1>8, <1>9 DEF ThreadsInv

(* A page is there, or has failed: its slot and its ref are free.          *)
LEMMA PageStep ==
  ASSUME ThreadsInv, hasty' = hasty, NEW r \in Reads,
         Threads!PageAnswers(r) \/ Threads!PageFails(r)
  PROVE  ThreadsInv'
  <1> USE DEF Threads!shown
  <1>1. Threads!TypeOK
    BY DEF ThreadsInv
  <1>2. /\ reads[r].kind = "page" /\ Threads!LetGo(r) /\ Threads!End(r)
        /\ account' = account /\ query' = query
        /\ changes' = changes /\ loadingMore' = FALSE
    BY DEF Threads!PageAnswers, Threads!PageFails, Threads!Fails
  <1>3. /\ loading' \in {loading, FALSE} /\ nearEnd' \in BOOLEAN
        /\ \/ list' = list /\ token' = token
           \/ /\ list' = Append(list, reads[r].what)
              /\ token' = Threads!After(reads[r].what)
    BY <1>1, ThreadTypeParts
    DEF Threads!PageAnswers, Threads!PageFails, Threads!Fails
  <1>4. due' \in BOOLEAN
    BY <1>1, ThreadTypeParts, Zenon
    DEF Threads!PageAnswers, Threads!PageFails, Threads!Fails
  <1>5. /\ reads' \in [Reads -> ReadType] /\ reads'[r] = Threads!NoRead
        /\ \A s \in Reads : s # r => reads'[s] = reads[s]
    BY <1>1, <1>2, ThreadTypeParts, Ends
  <1>6. reads[r].what \in Threads!Page
    BY <1>2 DEF ThreadsInv, ReadsOfPages
  <1>7. lazy' = IF lazy = reads[r].what THEN Threads!NoPage ELSE lazy
    BY <1>2 DEF Threads!LetGo
  <1>8. Threads!TypeOK'
    <2>1. /\ list' \in Seq(Threads!Page)
          /\ token' \in Threads!Page \cup {Threads!NoPage}
      BY <1>1, <1>3, <1>6, ThreadTypeParts, PagesFollow
    <2>2. lazy' \in Threads!Page \cup {Threads!NoPage} /\ loading' \in BOOLEAN
      BY <1>1, <1>3, <1>7, ThreadTypeParts
    <2> QED BY <1>1, <1>2, <1>3, <1>4, <1>5, <2>1, <2>2, ThreadTypeParts, ThreadTypesNow
  <1>9. ReadsOfPages'
    BY <1>5, NoReadIs DEF ThreadsInv, ReadsOfPages, Threads!Page
  <1>10. Threads!NoStuckPaging'
    <2>1. ASSUME lazy' # Threads!NoPage'
          PROVE  \E s \in Reads : reads'[s] = [kind |-> "page", what |-> lazy']
      <3>1. lazy' = lazy /\ lazy # reads[r].what /\ lazy # Threads!NoPage
        BY <1>7, <2>1 DEF Threads!NoPage
      <3>2. PICK s \in Reads : reads[s] = [kind |-> "page", what |-> lazy]
        BY <3>1 DEF ThreadsInv, Threads!NoStuckPaging
      <3>3. s # r
        BY <3>1, <3>2
      <3> QED BY <1>5, <3>1, <3>2, <3>3
    <2> QED BY <1>2, <2>1 DEF Threads!NoStuckPaging
  <1>11. Patient'
    <2> SUFFICES ASSUME ~hasty PROVE LoadsAlone' /\ PagesNext' /\ InOrder'
      BY DEF Patient
    <2>1. LoadsAlone /\ PagesNext /\ InOrder
      BY DEF ThreadsInv, Patient
    <2>2. /\ \A s \in Reads : ~Loads(s) /\ (reads[s].kind = "page" => s = r)
          /\ list # << >> /\ reads[r].what = token
      BY <1>2, <2>1 DEF LoadsAlone, Loads, PagesNext
    <2>3. \A s \in Reads : ~Loads(s)' /\ reads'[s].kind # "page"
      BY <1>5, <2>2, NoReadIs DEF Loads
    <2>4. InOrder'
      <3>1. CASE list' = list /\ token' = token
        BY <1>2, <2>1, <3>1 DEF InOrder, Threads!After, Threads!NoPage
      <3>2. CASE list' = Append(list, token) /\ token' = Threads!After(token)
        <4>1. list \in Seq(Threads!Page) /\ Len(list) \in Nat \ {0}
          BY <1>1, <2>2, ThreadTypeParts
        <4>2. list[Len(list)] =
                [account |-> account, query |-> query, page |-> Len(list)]
          BY <2>1, <2>2, <4>1 DEF InOrder
        <4>3. token = Threads!After(list[Len(list)])
          BY <2>1, <2>2 DEF InOrder
        <4>4. list[Len(list)] \in Threads!Page /\ token # Threads!NoPage
          BY <1>6, <2>2, <4>1, PagesAre
        <4>5. token = [account |-> account, query |-> query, page |-> Len(list) + 1]
          BY <4>2, <4>3, <4>4, PagesFollow
        <4>6. /\ Len(list') = Len(list) + 1 /\ list'[Len(list) + 1] = token
              /\ \A k \in 1..Len(list) : list'[k] = list[k]
          BY <3>2, <4>1
        <4>7. \A k \in 1..Len(list') :
                list'[k] = [account |-> account, query |-> query, page |-> k]
          <5>1. TAKE k \in 1..Len(list')
          <5>2. CASE k \in 1..Len(list)
            BY <2>1, <2>2, <4>6, <5>2 DEF InOrder
          <5>3. CASE k = Len(list) + 1
            BY <4>5, <4>6, <5>3
          <5> QED BY <4>1, <4>6, <5>2, <5>3
        <4>8. token' = Threads!After(list[Len(list)])'
          BY <3>2, <4>6 DEF Threads!After, Threads!NoPage
        <4> QED BY <1>2, <4>7, <4>8 DEF InOrder
      <3> QED BY <1>3, <2>2, <3>1, <3>2
    <2> QED BY <2>3, <2>4 DEF LoadsAlone, PagesNext
  <1> QED BY <1>8, <1>9, <1>10, <1>11 DEF ThreadsInv

LEMMA ThreadsInit == MailInit => ThreadsInv
  <1> SUFFICES ASSUME MailInit PROVE ThreadsInv
    OBVIOUS
  <1>1. /\ account = Boot /\ query = Inbox /\ list = << >> /\ token = Threads!NoPage
        /\ nearEnd = FALSE /\ loadingMore = FALSE /\ lazy = Threads!NoPage
        /\ loading \in BOOLEAN /\ due = FALSE /\ changes = 0 /\ hasty \in BOOLEAN
    BY DEF MailInit, NothingShown, Threads!Init
  <1>2. \A r \in Reads :
          \/ reads[r] = Threads!NoRead
          \/ /\ reads[r] = [kind |-> "load", what |-> Threads!First(Boot, Inbox)]
             /\ \A s \in Reads : s # r => reads[s] = Threads!NoRead
    BY DEF MailInit, NothingShown, Threads!Init
  <1>3. reads \in [Reads -> ReadType]
    <2>1. /\ Threads!NoRead \in ReadType
          /\ [kind |-> "load", what |-> Threads!First(Boot, Inbox)] \in ReadType
      BY PagesAre, MailAssumption DEF ReadType, Threads!NoRead, Threads!Kinds
    <2> QED BY <2>1 DEF MailInit, NothingShown, Threads!Init
  <1>4. Threads!TypeOK
    <2>1. list \in Seq(Threads!Page) /\ changes \in 0..MaxChanges
      BY <1>1, MailAssumption
    <2> QED BY <1>1, <1>3, <2>1, MailAssumption DEF Threads!TypeOK, ReadType
  <1>5. ReadsOfPages
    BY <1>2, NoReadIs, PagesAre, MailAssumption DEF ReadsOfPages
  <1>6. Threads!NoStuckPaging
    BY <1>1 DEF Threads!NoStuckPaging
  <1>7. Patient
    BY <1>1, <1>2, NoReadIs, PagesAre, MailAssumption
    DEF Patient, LoadsAlone, Loads, PagesNext, InOrder
  <1> QED BY <1>4, <1>5, <1>6, <1>7 DEF ThreadsInv

LEMMA ThreadsStep ==
  ThreadsInv /\ [MailNext]_<<part, vars, threads, drafts>> => ThreadsInv'
  <1> SUFFICES ASSUME ThreadsInv, [MailNext]_<<part, vars, threads, drafts>>
               PROVE  ThreadsInv'
    OBVIOUS
  <1>1. CASE UNCHANGED threads
    BY <1>1 DEF threads, ThreadsInv, Threads!TypeOK, ReadsOfPages,
       Threads!NoStuckPaging, Threads!UnderWay, Patient, LoadsAlone, Loads, PagesNext,
       InOrder, Threads!After, Threads!NoPage, Threads!Page, Threads!Kinds
  <1>2. CASE Threads!Next
    BY <1>2, ChangeStep, SettleStep, SwitchStep, CursorStep, EffectsStep, FetchStep,
       PageStep
    DEF Threads!Next, Threads!Step
  <1> QED BY <1>1, <1>2 DEF MailNext, threads

LEMMA ThreadsInvariant == MailSpec => []ThreadsInv
  BY ThreadsInit, ThreadsStep, PTL DEF MailSpec

(* Every variable of the thread list has its type: no list holds a page    *)
(* that its query does not have.                                           *)
THEOREM ThreadTypes == MailSpec => []TypesOK
  <1>1. ThreadsInv => TypesOK
    BY DEF ThreadsInv, TypesOK
  <1> QED BY <1>1, ThreadsInvariant, PTL

(* For a user who waits, the list is a prefix of its query in the account  *)
(* on screen, page after page, whatever fails or is cancelled and however  *)
(* often the effect runs (APPEND_THREADS).                                 *)
THEOREM PagesComeInOrder == MailSpec => []PagesInOrder
  <1>1. ASSUME ThreadsInv PROVE PagesInOrder
    <2> SUFFICES ASSUME ~hasty, list # << >>
                 PROVE  /\ list = [k \in 1..Len(list) |->
                                     [account |-> account, query |-> query, page |-> k]]
                        /\ token = Threads!After(list[Len(list)])
      BY DEF PagesInOrder, Threads!PagesInOrder
    <2>1. list \in Seq(Threads!Page) /\ InOrder
      BY <1>1, ThreadTypeParts DEF ThreadsInv, Patient
    <2>2. list = [k \in 1..Len(list) |-> list[k]]
      BY <2>1
    <2>3. \A k \in 1..Len(list) :
            list[k] = [account |-> account, query |-> query, page |-> k]
      BY <2>1 DEF InOrder
    <2> QED BY <2>1, <2>2, <2>3, Zenon DEF InOrder
  <1> QED BY <1>1, ThreadsInvariant, PTL

(* The ref against double fetches is always let go by a read under way,    *)
(* also for a user who does not wait: paging never gets stuck.             *)
THEOREM PagingGoesOn == MailSpec => []NoStuckPaging
  <1>1. ThreadsInv => NoStuckPaging
    BY DEF ThreadsInv, NoStuckPaging
  <1> QED BY <1>1, ThreadsInvariant, PTL

-----------------------------------------------------------------------------
(* Composing and the recovery of drafts.                                   *)
LEMMA DraftBounds ==
  MaxEditors \in Nat /\ MaxTexts \in Nat /\ MaxLives \in Nat \ {0}
  BY MailAssumption

USE DraftBounds DEF Drafts!Editors, Drafts!Kinds, Drafts!NoFile, Drafts!NoSession,
                    Drafts!Over

Files == [text : 0..texts, kind : Drafts!Kinds \cup {"none"}, crumb : BOOLEAN]

(* A step that touches the record of one editor, or none.                  *)
LEMMA ClearType ==
  ASSUME Drafts!TypeOK, NEW n \in Drafts!Editors, NEW after, after \in Drafts!Sessions,
         after.at = "rm" => after.landed, Drafts!Clear(n, after)
  PROVE  /\ session' \in [Drafts!Editors -> Drafts!Sessions]
         /\ \A m \in Drafts!Editors : session'[m].at = "rm" => session'[m].landed
         /\ attached' = 0
  <1> DEFINE let(m) == [session[m] EXCEPT !.cancelled = TRUE]
  <1>1. \A m \in Drafts!Editors :
          let(m) \in Drafts!Sessions /\ (let(m).at = "rm" => let(m).landed)
    BY DEF Drafts!TypeOK, Drafts!Sessions
  <1>2. \A m \in Drafts!Editors : session'[m] \in {after, let(m), session[m]}
    BY DEF Drafts!Clear
  <1>3. session' = [m \in Drafts!Editors |-> session'[m]]
    BY DEF Drafts!Clear
  <1> QED BY <1>1, <1>2, <1>3 DEF Drafts!TypeOK, Drafts!Clear

LEMMA OverFits ==
  ASSUME Drafts!TypeOK
  PROVE  /\ Drafts!Over \in Drafts!Sessions /\ Drafts!NoSession \in Drafts!Sessions
         /\ Drafts!NoFile \in Files
  <1>1. 0 \in 0..texts
    BY DEF Drafts!TypeOK
  <1> QED BY <1>1 DEF Drafts!Sessions, Files

LEMMA OneSession ==
  ASSUME Drafts!TypeOK, NEW n \in Drafts!Editors, NEW s \in Drafts!Sessions,
         s.at = "rm" => s.landed,
         session' = [session EXCEPT ![n] = s], texts' = texts
  PROVE  /\ session' \in [Drafts!Editors -> Drafts!Sessions']
         /\ \A m \in Drafts!Editors : session'[m].at = "rm" => session'[m].landed
  <1>1. Drafts!Sessions' = Drafts!Sessions
    BY DEF Drafts!Sessions
  <1> QED BY <1>1 DEF Drafts!TypeOK

LEMMA DraftTypeInit ==
  ASSUME Drafts!Init
  PROVE  Drafts!TypeOK
  BY DEF Drafts!Init, Drafts!TypeOK, Drafts!Sessions

LEMMA OpenType ==
  ASSUME Drafts!TypeOK, NEW kind \in Drafts!Kinds \cup {"none"}, NEW source \in BOOLEAN,
         NEW content \in Files, Drafts!OpenEditor(kind, source, content)
  PROVE  Drafts!TypeOK'
  <1> DEFINE fresh == [Drafts!NoSession EXCEPT !.at = "editing", !.kind = kind,
                                        !.source = source]
             let(m) == [session[m] EXCEPT !.cancelled = TRUE]
  <1>1. fresh \in Drafts!Sessions /\ fresh.at # "rm"
    BY OverFits DEF Drafts!Sessions
  <1>2. \A m \in Drafts!Editors :
          let(m) \in Drafts!Sessions /\ (let(m).at = "rm" => let(m).landed)
    BY DEF Drafts!TypeOK, Drafts!Sessions
  <1>3. \A m \in Drafts!Editors : session'[m] \in {fresh, let(m), session[m]}
    BY DEF Drafts!OpenEditor
  <1>4. session' = [m \in Drafts!Editors |-> session'[m]]
    BY DEF Drafts!OpenEditor
  <1>5. /\ session' \in [Drafts!Editors -> Drafts!Sessions]
        /\ \A m \in Drafts!Editors : session'[m].at = "rm" => session'[m].landed
    <2> HIDE DEF fresh, let
    <2> QED BY <1>1, <1>2, <1>3, <1>4 DEF Drafts!TypeOK
  <1>6. Drafts!Sessions' = Drafts!Sessions
    BY DEF Drafts!OpenEditor, Drafts!Sessions
  <1>7. file' \in [Drafts!Editors -> Files]
    BY DEF Drafts!TypeOK, Drafts!OpenEditor, Files
  <1>8. opened' \in 0..MaxEditors /\ attached' \in 0..opened' /\ overlay' \in 0..MaxEditors
    BY DEF Drafts!TypeOK, Drafts!OpenEditor
  <1> QED BY <1>5, <1>6, <1>7, <1>8 DEF Drafts!TypeOK, Drafts!OpenEditor, Files

LEMMA DraftTypeStep ==
  ASSUME Drafts!TypeOK, [Drafts!Next]_(Drafts!vars)
  PROVE  Drafts!TypeOK'
  <1>1. ASSUME NEW kind \in Drafts!Kinds, Drafts!Compose(kind) PROVE Drafts!TypeOK'
    <2>1. [text |-> 0, kind |-> kind, crumb |-> kind = "draftEdit"] \in Files
      BY DEF Files, Drafts!TypeOK
    <2> QED BY <1>1, <2>1, OpenType DEF Drafts!Compose
  <1>2. ASSUME NEW n \in Drafts!Editors, Drafts!ResumeDraft(n) PROVE Drafts!TypeOK'
    <2>1. file[n] \in Files
      BY DEF Files, Drafts!TypeOK
    <2>2. file[n].kind \in Drafts!Kinds \cup {"none"} /\ file[n].crumb \in BOOLEAN
      BY <2>1 DEF Files
    <2> QED BY <1>2, <2>1, <2>2, OpenType DEF Drafts!ResumeDraft
  <1>3. ASSUME NEW n \in Drafts!Editors, Drafts!DiscardDraft(n) PROVE Drafts!TypeOK'
    <2>1. file[n].text \in 0..texts
      BY DEF Drafts!TypeOK
    <2>2. file' \in [Drafts!Editors -> Files]
      BY <1>3, OverFits DEF Drafts!DiscardDraft, Drafts!TypeOK, Files
    <2>3. Drafts!Sessions' = Drafts!Sessions BY <1>3 DEF Drafts!DiscardDraft, Drafts!Sessions
    <2> QED BY <1>3, <2>1, <2>2, <2>3 DEF Drafts!DiscardDraft, Drafts!TypeOK, Files
  <1>4. ASSUME NEW n \in Drafts!Editors, Drafts!Save(n) PROVE Drafts!TypeOK'
    <2>1. file[n].text \in 0..texts /\ texts + 1 \in 0..texts' /\ texts' \in 0..MaxTexts
      BY <1>4 DEF Drafts!TypeOK, Drafts!Save
    <2>2. 0..texts \subseteq 0..texts'
      BY <1>4 DEF Drafts!TypeOK, Drafts!Save
    <2>3. file' \in [Drafts!Editors -> Files']
      BY <1>4, <2>1, <2>2 DEF Drafts!TypeOK, Drafts!Save, Files
    <2>4. session' \in [Drafts!Editors -> Drafts!Sessions']
      <3>1. Drafts!Sessions \subseteq Drafts!Sessions'
        BY <2>2 DEF Drafts!Sessions
      <3> QED BY <1>4, <3>1 DEF Drafts!TypeOK, Drafts!Save
    <2>5. delivered' \subseteq [text : 0..texts', reply : BOOLEAN, threaded : BOOLEAN]
      BY <1>4, <2>2 DEF Drafts!TypeOK, Drafts!Save
    <2>6. given' \subseteq 0..texts'
      BY <1>4, <2>1, <2>2 DEF Drafts!TypeOK, Drafts!Save
    <2> QED BY <1>4, <2>1, <2>3, <2>4, <2>5, <2>6 DEF Drafts!TypeOK, Drafts!Save, Files
  <1>5. ASSUME NEW n \in Drafts!Editors, Drafts!ExitKept(n) PROVE Drafts!TypeOK'
    <2>1. Drafts!Sessions' = Drafts!Sessions BY <1>5 DEF Drafts!ExitKept, Drafts!Sessions
    <2> QED BY <1>5, <2>1, OverFits, ClearType DEF Drafts!ExitKept, Drafts!TypeOK
  <1>6. ASSUME NEW n \in Drafts!Editors, Drafts!ExitSends(n) PROVE Drafts!TypeOK'
    <2> DEFINE s == [session[n] EXCEPT !.at = "sending", !.text = file[n].text,
                                       !.source = Drafts!Threaded(n)]
    <2>1. file[n].text \in 0..texts /\ Drafts!Threaded(n) \in BOOLEAN
      BY DEF Drafts!TypeOK, Drafts!Threaded, Drafts!Sessions
    <2>2. s \in Drafts!Sessions /\ s.at # "rm"
      BY <2>1 DEF Drafts!TypeOK, Drafts!Sessions
    <2>3. session' = [session EXCEPT ![n] = s]
      BY <1>6 DEF Drafts!ExitSends, Drafts!TypeOK
    <2> HIDE DEF s
    <2> QED BY <1>6, <2>2, <2>3, OneSession DEF Drafts!ExitSends, Drafts!TypeOK
  <1>7. ASSUME NEW n \in Drafts!Editors, Drafts!ExitShown(n) PROVE Drafts!TypeOK'
    <2> DEFINE shown == [session[n] EXCEPT !.at = "shown", !.text = file[n].text]
    <2>1. shown \in Drafts!Sessions /\ shown.at # "rm"
      BY DEF Drafts!TypeOK, Drafts!Sessions
    <2>2. Drafts!Clear(n, shown) BY <1>7 DEF Drafts!ExitShown
    <2>3. Drafts!Sessions' = Drafts!Sessions BY <1>7 DEF Drafts!ExitShown, Drafts!Sessions
    <2> HIDE DEF shown
    <2> QED BY <1>7, <2>1, <2>2, <2>3, ClearType DEF Drafts!ExitShown, Drafts!TypeOK
  <1>8. ASSUME NEW n \in Drafts!Editors, Drafts!Confirm(n) PROVE Drafts!TypeOK'
    <2>1. Drafts!Threaded(n) \in BOOLEAN
      BY DEF Drafts!TypeOK, Drafts!Threaded, Drafts!Sessions
    <2> DEFINE s == [session[n] EXCEPT !.at = "sending", !.confirmed = TRUE,
                                       !.source = Drafts!Threaded(n)]
    <2>2. s \in Drafts!Sessions /\ s.at # "rm"
      BY <2>1 DEF Drafts!TypeOK, Drafts!Sessions
    <2>3. session' = [session EXCEPT ![n] = s]
      BY <1>8 DEF Drafts!Confirm, Drafts!TypeOK
    <2>4. overlay' \in 0..MaxEditors
      BY <1>8 DEF Drafts!Confirm
    <2>5. /\ session' \in [Drafts!Editors -> Drafts!Sessions']
          /\ \A m \in Drafts!Editors : session'[m].at = "rm" => session'[m].landed
      <3> HIDE DEF s
      <3> QED BY <1>8, <2>2, <2>3, OneSession DEF Drafts!Confirm
    <2> QED BY <1>8, <2>4, <2>5 DEF Drafts!Confirm, Drafts!TypeOK
  <1>9. ASSUME NEW n \in Drafts!Editors, Drafts!Decline(n) PROVE Drafts!TypeOK'
    <2>1. overlay' \in 0..MaxEditors
      BY <1>9 DEF Drafts!Decline
    <2>2. /\ session' \in [Drafts!Editors -> Drafts!Sessions']
          /\ \A m \in Drafts!Editors : session'[m].at = "rm" => session'[m].landed
      BY <1>9, OverFits, OneSession DEF Drafts!Decline
    <2> QED BY <1>9, <2>1, <2>2 DEF Drafts!Decline, Drafts!TypeOK
  <1>10. ASSUME NEW n \in Drafts!Editors, Drafts!Lands(n) PROVE Drafts!TypeOK'
    <2> DEFINE s == [session[n] EXCEPT !.landed = TRUE]
               d == [text |-> session[n].text, threaded |-> session[n].source,
                     reply |-> session[n].kind \in {"reply", "replyAll"}]
    <2>1. s \in Drafts!Sessions /\ s.landed
      BY DEF Drafts!TypeOK, Drafts!Sessions
    <2>2. session' = [session EXCEPT ![n] = s]
      BY <1>10 DEF Drafts!Lands, Drafts!TypeOK
    <2>3. d \in [text : 0..texts, reply : BOOLEAN, threaded : BOOLEAN]
      BY DEF Drafts!TypeOK, Drafts!Sessions
    <2>4. delivered' = delivered \cup {d}
      BY <1>10 DEF Drafts!Lands
    <2> HIDE DEF s, d
    <2> QED BY <1>10, <2>1, <2>2, <2>3, <2>4, OneSession DEF Drafts!Lands, Drafts!TypeOK
  <1>11. ASSUME NEW n \in Drafts!Editors, Drafts!Answers(n) PROVE Drafts!TypeOK'
    <2> DEFINE s == [session[n] EXCEPT !.at = "rm"]
    <2>1. s \in Drafts!Sessions /\ s.landed
      BY <1>11 DEF Drafts!Answers, Drafts!TypeOK, Drafts!Sessions
    <2>2. session' = [session EXCEPT ![n] = s]
      BY <1>11 DEF Drafts!Answers, Drafts!TypeOK
    <2> HIDE DEF s
    <2> QED BY <1>11, <2>1, <2>2, OneSession DEF Drafts!Answers, Drafts!TypeOK
  <1>12. ASSUME NEW n \in Drafts!Editors, Drafts!RunEnds(n), UNCHANGED texts
         PROVE  /\ session' \in [Drafts!Editors -> Drafts!Sessions']
                /\ \A m \in Drafts!Editors : session'[m].at = "rm" => session'[m].landed
                /\ attached' \in 0..opened
    <2>1. Drafts!Sessions' = Drafts!Sessions BY <1>12 DEF Drafts!Sessions
    <2>2. CASE session[n].confirmed
      BY <1>12, <2>2, OverFits, OneSession DEF Drafts!RunEnds, Drafts!TypeOK
    <2>3. CASE ~session[n].confirmed
      <3>1. Drafts!Clear(n, Drafts!Over) /\ Drafts!Over.at # "rm"
        BY <1>12, <2>3 DEF Drafts!RunEnds
      <3>2. /\ session' \in [Drafts!Editors -> Drafts!Sessions]
            /\ \A m \in Drafts!Editors : session'[m].at = "rm" => session'[m].landed
            /\ attached' = 0
        BY <3>1, OverFits, ClearType
      <3> QED BY <2>1, <3>2 DEF Drafts!TypeOK
    <2> QED BY <2>2, <2>3
  <1>13. ASSUME NEW n \in Drafts!Editors, Drafts!Fails(n) PROVE Drafts!TypeOK'
    BY <1>13, <1>12 DEF Drafts!Fails, Drafts!TypeOK
  <1>14. ASSUME NEW n \in Drafts!Editors, Drafts!Remove(n) PROVE Drafts!TypeOK'
    BY <1>14, <1>12, OverFits DEF Drafts!Remove, Drafts!TypeOK, Files
  <1>15. ASSUME Drafts!Restart PROVE Drafts!TypeOK'
    <2>1. session' \in [Drafts!Editors -> Drafts!Sessions]
      BY <1>15, OverFits DEF Drafts!Restart
    <2>2. \A n \in Drafts!Editors : session'[n].at # "rm"
      BY <1>15 DEF Drafts!Restart
    <2>3. Drafts!Sessions' = Drafts!Sessions BY <1>15 DEF Drafts!Restart, Drafts!Sessions
    <2> HIDE DEF Drafts!NoSession, Drafts!Over
    <2> QED BY <1>15, <2>1, <2>2, <2>3 DEF Drafts!Restart, Drafts!TypeOK
  <1>16. ASSUME UNCHANGED Drafts!vars PROVE Drafts!TypeOK'
    BY <1>16 DEF Drafts!vars, Drafts!TypeOK, Drafts!Sessions
  <1> QED BY <1>1, <1>2, <1>3, <1>4, <1>5, <1>6, <1>7, <1>8, <1>9, <1>10, <1>11,
             <1>13, <1>14, <1>15, <1>16 DEF Drafts!Next

(* Every variable of DraftCompose stays in its type, and a file is removed *)
(* only once the request it was written for has landed.                    *)
THEOREM ComposeTypes == Drafts!Spec => []Drafts!TypeOK
  BY DraftTypeInit, DraftTypeStep, PTL DEF Drafts!Spec

-----------------------------------------------------------------------------
(* What Gmail confirmed it has, and a file that waits for Gmail still says *)
(* what was read from it.                                                  *)
Fits(n) ==
  /\ session[n].landed => /\ session[n].at \in {"sending", "rm"}
                          /\ \E d \in delivered : d.text = session[n].text
  /\ session[n].at \in {"shown", "sending", "rm"} /\ Drafts!Exists(n)
       => file[n].text = session[n].text

Fresh(n) == n > opened => session[n] = Drafts!NoSession /\ file[n] = Drafts!NoFile

DraftInv ==
  /\ Drafts!TypeOK
  /\ \A n \in Drafts!Editors : Fresh(n) /\ Fits(n)
  /\ Drafts!WritingSurvives

(* An editor whose file a step leaves alone, and whose record at most loses *)
(* its effect.                                                             *)
Kept(m) ==
  /\ file'[m] = file[m]
  /\ session'[m] \in {session[m], [session[m] EXCEPT !.cancelled = TRUE]}
  /\ m > opened => session'[m] = session[m]

LEMMA KeptFits ==
  ASSUME Drafts!TypeOK, NEW m \in Drafts!Editors, Kept(m), Fresh(m), Fits(m),
         opened <= opened',
         opened' \in Nat, delivered \subseteq delivered'
  PROVE  Fresh(m)' /\ Fits(m)'
  <1>1. session[m] \in Drafts!Sessions
    BY DEF Drafts!TypeOK
  <1>2. /\ session'[m].at = session[m].at /\ session'[m].text = session[m].text
        /\ session'[m].landed = session[m].landed
    BY <1>1 DEF Kept, Drafts!Sessions
  <1>3. Fresh(m)'
    <2> HIDE DEF Drafts!NoSession, Drafts!NoFile
    <2> QED BY DEF Fresh, Kept, Drafts!TypeOK
  <1>4. Fits(m)'
    BY <1>2 DEF Fits, Kept, Drafts!Exists
  <1> QED BY <1>3, <1>4

(* A text is not lost when every file it could be in stays, or is given up *)
(* or delivered.                                                           *)
LEMMA Survives ==
  ASSUME Drafts!WritingSurvives, texts' = texts, given \subseteq given',
         delivered \subseteq delivered',
         \A n \in Drafts!Editors :
           \/ file'[n] = file[n] \/ ~Drafts!Exists(n) \/ file[n].text \in given'
           \/ \E d \in delivered' : d.text = file[n].text
  PROVE  Drafts!WritingSurvives'
  BY DEF Drafts!WritingSurvives, Drafts!Exists

LEMMA ClearKeeps ==
  ASSUME Drafts!TypeOK, NEW n \in Drafts!Editors, NEW after, Drafts!Clear(n, after),
         file' = file
  PROVE  session'[n] = after /\ \A m \in Drafts!Editors \ {n} : Kept(m)
  BY DEF Drafts!Clear, Kept, Drafts!TypeOK

LEMMA OpenKeeps ==
  ASSUME DraftInv, NEW kind, NEW source, NEW content,
         Drafts!OpenEditor(kind, source, content), Drafts!TypeOK'
  PROVE  DraftInv'
  <1>0. /\ opened \in 0..MaxEditors /\ attached \in 0..opened /\ Drafts!WritingSurvives
        /\ \A n \in Drafts!Editors : Fresh(n) /\ Fits(n)
    BY DEF DraftInv, Drafts!TypeOK
  <1>9. opened + 1 \in Drafts!Editors
    BY <1>0 DEF Drafts!OpenEditor
  <1> PICK new \in Drafts!Editors : new = opened + 1
    BY <1>9
  <1>1. /\ opened' = new /\ file[new] = Drafts!NoFile /\ opened \in Nat
    <2> HIDE DEF Drafts!NoSession, Drafts!NoFile
    <2> QED BY <1>0 DEF Drafts!OpenEditor, Fresh
  <1>2. \A m \in Drafts!Editors \ {new} : Kept(m)
    <2> SUFFICES ASSUME NEW m \in Drafts!Editors \ {new} PROVE Kept(m)
      OBVIOUS
    <2>1. file'[m] = file[m]
      BY DEF Drafts!OpenEditor, DraftInv, Drafts!TypeOK
    <2>2. session'[m] = IF m = attached THEN [session[m] EXCEPT !.cancelled = TRUE]
                                        ELSE session[m]
      BY DEF Drafts!OpenEditor
    <2>3. m > opened => m # attached
      BY <1>0
    <2> QED BY <2>1, <2>2, <2>3 DEF Kept
  <1>3. Fresh(new)' /\ Fits(new)'
    <2>1. session'[new].landed = FALSE /\ session'[new].at = "editing"
      BY <1>1 DEF Drafts!OpenEditor
    <2> QED BY <1>1, <2>1 DEF Fresh, Fits
  <1>4. \A m \in Drafts!Editors \ {new} : Fresh(m)' /\ Fits(m)'
    BY <1>1, <1>2, KeptFits DEF DraftInv, Drafts!OpenEditor
  <1>5. Drafts!WritingSurvives'
    BY <1>0, <1>1, <1>2, Survives DEF Drafts!OpenEditor, Kept, Drafts!Exists
  <1> QED BY <1>3, <1>4, <1>5 DEF DraftInv

(* A step of one editor, which says what becomes of that editor alone.     *)
LEMMA OneKeeps ==
  ASSUME DraftInv, Drafts!TypeOK', NEW n \in Drafts!Editors, Fits(n)', n <= opened,
         UNCHANGED opened, delivered \subseteq delivered', Drafts!WritingSurvives',
         \A m \in Drafts!Editors \ {n} : Kept(m)
  PROVE  DraftInv'
  <1>1. opened \in Nat
    BY DEF DraftInv, Drafts!TypeOK
  <1>2. Fresh(n)'
    BY <1>1 DEF Fresh
  <1>3. \A m \in Drafts!Editors \ {n} : Fresh(m)' /\ Fits(m)'
    BY <1>1, KeptFits DEF DraftInv
  <1> QED BY <1>2, <1>3 DEF DraftInv

LEMMA OpenedKnown ==
  ASSUME DraftInv, NEW n \in Drafts!Editors, session[n].at # "none" \/ Drafts!Exists(n)
  PROVE  n <= opened
  BY DEF DraftInv, Drafts!TypeOK, Fresh, Drafts!Exists

LEMMA RunEndsKeeps ==
  ASSUME DraftInv, NEW n \in Drafts!Editors, Drafts!RunEnds(n)
  PROVE  /\ session'[n] = Drafts!Over
         /\ \A m \in Drafts!Editors \ {n} :
              /\ session'[m] \in {session[m], [session[m] EXCEPT !.cancelled = TRUE]}
              /\ m > opened => session'[m] = session[m]
  <1>0. /\ session \in [Drafts!Editors -> Drafts!Sessions]
        /\ opened \in Nat /\ attached \in 0..opened
    BY DEF DraftInv, Drafts!TypeOK
  <1>1. CASE session[n].confirmed
    <2>1. session' = [session EXCEPT ![n] = Drafts!Over]
      BY <1>1 DEF Drafts!RunEnds
    <2> HIDE DEF Drafts!Over
    <2> QED BY <1>0, <2>1
  <1>2. CASE ~session[n].confirmed
    <2>1. Drafts!Clear(n, Drafts!Over)
      BY <1>2 DEF Drafts!RunEnds
    <2> HIDE DEF Drafts!Over
    <2> QED BY <1>0, <2>1 DEF Drafts!Clear
  <1> QED BY <1>1, <1>2

LEMMA OverFitsAll ==
  ASSUME NEW n \in Drafts!Editors, session'[n] = Drafts!Over
  PROVE  Fits(n)'
  <1>1. session'[n].landed = FALSE /\ session'[n].at = "over"
    OBVIOUS
  <1> QED BY <1>1 DEF Fits

LEMMA DraftStep ==
  ASSUME DraftInv, [Drafts!Next]_(Drafts!vars)
  PROVE  DraftInv'
  <1>0. /\ Drafts!TypeOK /\ Drafts!TypeOK' /\ Drafts!WritingSurvives
        /\ \A n \in Drafts!Editors : Fresh(n) /\ Fits(n)
    BY DraftTypeStep DEF DraftInv
  <1>a. session \in [Drafts!Editors -> Drafts!Sessions] /\ file \in [Drafts!Editors -> Files]
    BY <1>0 DEF Drafts!TypeOK, Files
  <1>1. ASSUME NEW kind \in Drafts!Kinds, Drafts!Compose(kind) PROVE DraftInv'
    BY <1>0, <1>1, OpenKeeps DEF Drafts!Compose
  <1>2. ASSUME NEW n \in Drafts!Editors, Drafts!ResumeDraft(n) PROVE DraftInv'
    BY <1>0, <1>2, OpenKeeps DEF Drafts!ResumeDraft
  <1>3. ASSUME NEW n \in Drafts!Editors, Drafts!DiscardDraft(n) PROVE DraftInv'
    <2>1. file'[n] = Drafts!NoFile /\ \A m \in Drafts!Editors \ {n} : Kept(m)
      BY <1>3, <1>a DEF Drafts!DiscardDraft, Kept
    <2>2. Fits(n)'
      BY <1>0, <1>3, <2>1 DEF Drafts!DiscardDraft, Fits, Drafts!Exists
    <2>3. Drafts!WritingSurvives'
      BY <1>0, <1>3, <2>1, Survives DEF Drafts!DiscardDraft, Kept
    <2>4. n <= opened
      BY <1>3, OpenedKnown DEF Drafts!DiscardDraft
    <2> QED BY <1>0, <1>3, <2>1, <2>2, <2>3, <2>4, OneKeeps DEF Drafts!DiscardDraft
  <1>4. ASSUME NEW n \in Drafts!Editors, Drafts!Save(n) PROVE DraftInv'
    <2>1. /\ file'[n].text = texts + 1 /\ file'[n] # Drafts!NoFile
          /\ \A m \in Drafts!Editors \ {n} : Kept(m)
      BY <1>0, <1>4, <1>a DEF Drafts!Save, Kept, Drafts!TypeOK, Files
    <2>2. Fits(n)'
      BY <1>0, <1>4 DEF Drafts!Save, Fits
    <2>3. Drafts!WritingSurvives'
      <3> SUFFICES ASSUME NEW t \in 1..texts'
                   PROVE  \/ t \in given'
                          \/ \E d \in delivered' : d.text = t
                          \/ \E m \in Drafts!Editors : Drafts!Exists(m)' /\ file'[m].text = t
        BY DEF Drafts!WritingSurvives
      <3>1. CASE t = texts + 1
        BY <2>1, <3>1 DEF Drafts!Exists
      <3>2. CASE t # texts + 1
        <4>1. t \in 1..texts
          BY <1>0, <1>4, <3>2 DEF Drafts!Save, Drafts!TypeOK
        <4>2. PICK m \in Drafts!Editors : \/ t \in given
                                          \/ \E d \in delivered : d.text = t
                                          \/ Drafts!Exists(m) /\ file[m].text = t
          BY <1>0, <4>1 DEF Drafts!WritingSurvives
        <4> QED BY <1>4, <2>1, <4>2 DEF Drafts!Save, Kept, Drafts!Exists
      <3> QED BY <3>1, <3>2
    <2>4. n <= opened
      BY <1>4, OpenedKnown DEF Drafts!Save
    <2> QED BY <1>0, <1>4, <2>1, <2>2, <2>3, <2>4, OneKeeps DEF Drafts!Save
  <1>5. ASSUME NEW n \in Drafts!Editors, UNCHANGED <<file, delivered, given, texts>>
        PROVE  Drafts!WritingSurvives'
    BY <1>0, <1>5, Survives
  <1>6. ASSUME NEW n \in Drafts!Editors, Drafts!ExitKept(n) PROVE DraftInv'
    <2>1. session'[n] = Drafts!Over /\ \A m \in Drafts!Editors \ {n} : Kept(m)
      BY <1>0, <1>6, ClearKeeps DEF Drafts!ExitKept
    <2>2. n <= opened
      BY <1>6, OpenedKnown DEF Drafts!ExitKept
    <2> QED BY <1>0, <1>5, <1>6, <2>1, <2>2, OverFitsAll, OneKeeps DEF Drafts!ExitKept
  <1>7. ASSUME NEW n \in Drafts!Editors, Drafts!ExitSends(n) PROVE DraftInv'
    <2>1. /\ session'[n].landed = session[n].landed /\ session'[n].at = "sending"
          /\ session'[n].text = file[n].text /\ \A m \in Drafts!Editors \ {n} : Kept(m)
      BY <1>7, <1>a DEF Drafts!ExitSends, Kept, Drafts!Sessions
    <2>2. Fits(n)'
      BY <1>0, <1>7, <2>1 DEF Drafts!ExitSends, Fits
    <2>3. n <= opened
      BY <1>7, OpenedKnown DEF Drafts!ExitSends
    <2> QED BY <1>0, <1>5, <1>7, <2>1, <2>2, <2>3, OneKeeps DEF Drafts!ExitSends
  <1>8. ASSUME NEW n \in Drafts!Editors, Drafts!ExitShown(n) PROVE DraftInv'
    <2> DEFINE shown == [session[n] EXCEPT !.at = "shown", !.text = file[n].text]
    <2>1. session'[n] = shown /\ \A m \in Drafts!Editors \ {n} : Kept(m)
      BY <1>0, <1>8, ClearKeeps DEF Drafts!ExitShown
    <2>2. shown.landed = session[n].landed /\ shown.text = file[n].text
      BY <1>a DEF Drafts!Sessions
    <2>3. Fits(n)'
      BY <1>0, <1>8, <2>1, <2>2 DEF Drafts!ExitShown, Fits
    <2>4. n <= opened
      BY <1>8, OpenedKnown DEF Drafts!ExitShown
    <2> QED BY <1>0, <1>5, <1>8, <2>1, <2>3, <2>4, OneKeeps DEF Drafts!ExitShown
  <1>9. ASSUME NEW n \in Drafts!Editors, Drafts!Confirm(n) PROVE DraftInv'
    <2>1. /\ session'[n].landed = session[n].landed /\ session'[n].at = "sending"
          /\ session'[n].text = session[n].text /\ \A m \in Drafts!Editors \ {n} : Kept(m)
      BY <1>9, <1>a DEF Drafts!Confirm, Kept, Drafts!Sessions
    <2>2. Fits(n)'
      BY <1>0, <1>9, <2>1 DEF Drafts!Confirm, Fits, Drafts!Exists
    <2>3. n <= opened
      BY <1>9, OpenedKnown DEF Drafts!Confirm
    <2> QED BY <1>0, <1>5, <1>9, <2>1, <2>2, <2>3, OneKeeps DEF Drafts!Confirm
  <1>10. ASSUME NEW n \in Drafts!Editors, Drafts!Decline(n) PROVE DraftInv'
    <2>1. session'[n] = Drafts!Over /\ \A m \in Drafts!Editors \ {n} : Kept(m)
      <3> HIDE DEF Drafts!Over
      <3> QED BY <1>10, <1>a DEF Drafts!Decline, Kept
    <2>2. n <= opened
      BY <1>10, OpenedKnown DEF Drafts!Decline
    <2> QED BY <1>0, <1>5, <1>10, <2>1, <2>2, OverFitsAll, OneKeeps DEF Drafts!Decline
  <1>11. ASSUME NEW n \in Drafts!Editors, Drafts!Lands(n) PROVE DraftInv'
    <2>1. /\ session'[n].at = "sending" /\ session'[n].text = session[n].text
          /\ \A m \in Drafts!Editors \ {n} : Kept(m)
      BY <1>11, <1>a DEF Drafts!Lands, Kept, Drafts!Sessions
    <2>2. /\ \E d \in delivered' : d.text = session[n].text
          /\ delivered \subseteq delivered'
      <3> DEFINE mail == [text |-> session[n].text, threaded |-> session[n].source,
                          reply |-> session[n].kind \in {"reply", "replyAll"}]
      <3>1. delivered' = delivered \cup {mail}
        BY <1>11 DEF Drafts!Lands
      <3>2. mail.text = session[n].text
        OBVIOUS
      <3> HIDE DEF mail
      <3> QED BY <3>1, <3>2
    <2>3. Fits(n)'
      BY <1>0, <1>11, <2>1, <2>2 DEF Drafts!Lands, Fits, Drafts!Exists
    <2>4. Drafts!WritingSurvives'
      BY <1>0, <1>11, <2>2, Survives DEF Drafts!Lands
    <2>5. n <= opened
      BY <1>11, OpenedKnown DEF Drafts!Lands
    <2> QED BY <1>0, <1>11, <2>1, <2>2, <2>3, <2>4, <2>5, OneKeeps DEF Drafts!Lands
  <1>12. ASSUME NEW n \in Drafts!Editors, Drafts!Answers(n) PROVE DraftInv'
    <2>1. /\ session'[n].at = "rm" /\ session'[n].text = session[n].text
          /\ \A m \in Drafts!Editors \ {n} : Kept(m)
      BY <1>12, <1>a DEF Drafts!Answers, Kept, Drafts!Sessions
    <2>2. Fits(n)'
      BY <1>0, <1>12, <2>1 DEF Drafts!Answers, Fits, Drafts!Exists
    <2>3. n <= opened
      BY <1>12, OpenedKnown DEF Drafts!Answers
    <2> QED BY <1>0, <1>5, <1>12, <2>1, <2>2, <2>3, OneKeeps DEF Drafts!Answers
  <1>13. ASSUME NEW n \in Drafts!Editors, Drafts!Fails(n) PROVE DraftInv'
    <2>1. session'[n] = Drafts!Over /\ \A m \in Drafts!Editors \ {n} : Kept(m)
      BY <1>13, RunEndsKeeps DEF Drafts!Fails, Kept
    <2>2. n <= opened
      BY <1>13, OpenedKnown DEF Drafts!Fails
    <2> QED BY <1>0, <1>5, <1>13, <2>1, <2>2, OverFitsAll, OneKeeps DEF Drafts!Fails
  <1>14. ASSUME NEW n \in Drafts!Editors, Drafts!Remove(n) PROVE DraftInv'
    <2>1. session'[n] = Drafts!Over /\ \A m \in Drafts!Editors \ {n} : Kept(m)
      BY <1>14, <1>a, RunEndsKeeps DEF Drafts!Remove, Kept
    <2>2. ~Drafts!Exists(n) \/ \E d \in delivered : d.text = file[n].text
      BY <1>0, <1>14 DEF Drafts!Remove, Fits, Drafts!TypeOK
    <2>3. Drafts!WritingSurvives'
      BY <1>0, <1>14, <2>1, <2>2, Survives DEF Drafts!Remove, Kept
    <2>4. n <= opened
      BY <1>14, OpenedKnown DEF Drafts!Remove
    <2> QED BY <1>0, <1>14, <2>1, <2>3, <2>4, OverFitsAll, OneKeeps DEF Drafts!Remove
  <1>15. ASSUME Drafts!Restart PROVE DraftInv'
    <2>1. /\ \A n \in Drafts!Editors : session'[n] \in {Drafts!NoSession, Drafts!Over}
          /\ \A n \in Drafts!Editors :
               session[n] = Drafts!NoSession => session'[n] = Drafts!NoSession
      <3> HIDE DEF Drafts!NoSession, Drafts!Over
      <3> QED BY <1>15 DEF Drafts!Restart
    <2>2. \A n \in Drafts!Editors : Fits(n)'
      <3>1. \A n \in Drafts!Editors : ~session'[n].landed /\ session'[n].at \in {"none", "over"}
        BY <2>1
      <3> QED BY <3>1 DEF Fits
    <2>3. \A n \in Drafts!Editors : Fresh(n)'
      BY <1>0, <1>15, <2>1 DEF Drafts!Restart, Fresh
    <2>4. Drafts!WritingSurvives'
      BY <1>0, <1>15, Survives DEF Drafts!Restart
    <2> QED BY <1>0, <2>2, <2>3, <2>4 DEF DraftInv
  <1>16. ASSUME UNCHANGED Drafts!vars PROVE DraftInv'
    <2>1. \A n \in Drafts!Editors : Fresh(n)' /\ Fits(n)'
      BY <1>0, <1>16 DEF Drafts!vars, Fresh, Fits, Drafts!Exists
    <2>2. Drafts!WritingSurvives'
      BY <1>0, <1>16, Survives DEF Drafts!vars
    <2> QED BY <1>0, <2>1, <2>2 DEF DraftInv
  <1> QED BY <1>1, <1>2, <1>3, <1>4, <1>6, <1>7, <1>8, <1>9, <1>10, <1>11, <1>12,
             <1>13, <1>14, <1>15, <1>16 DEF Drafts!Next

LEMMA DraftInit ==
  ASSUME Drafts!Init
  PROVE  DraftInv
  BY DraftTypeInit DEF Drafts!Init, DraftInv, Fresh, Fits, Drafts!WritingSurvives, Drafts!Exists

(* "WritingSurvives": whatever overlaps with whatever, and whenever the UI *)
(* dies, a saved text is on disk, in Gmail, or given up by its writer.     *)
THEOREM WritingIsKept == MailSpec => []WritingSurvives
  <1>1. MailInit => Drafts!Init
    BY DEF MailInit
  <1>2. [MailNext]_<<part, vars, threads, drafts>> => [Drafts!Next]_(Drafts!vars)
    BY DEF MailNext, drafts, Drafts!vars
  <1>3. DraftInv => WritingSurvives
    BY DEF DraftInv, WritingSurvives
  <1> QED BY <1>1, <1>2, <1>3, DraftInit, DraftStep, PTL DEF MailSpec
=============================================================================
