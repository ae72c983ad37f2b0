----------------------------- MODULE MailBatches -----------------------------
(***************************************************************************)
(* processBatches and the three tools that call it: a list of messages is  *)
(* worked off in chunks, and when a chunk fails its messages are tried     *)
(* again one by one.                                                       *)
(*                                                                         *)
(* modify and delete send one request per message of a chunk, all at once, *)
(* under a Promise.all: the first refusal fails the chunk while its other  *)
(* requests go on (the stragglers).  report_phishing sends one request per *)
(* chunk.  A continuation runs up to its next await in one action.  What   *)
(* Gmail does with a request, and when the answer comes, are actions of    *)
(* their own.  Messages of the list are named by their position.           *)
(***************************************************************************)
EXTENDS Naturals

CONSTANTS
  Messages,   \* message ids
  Missing,    \* those Gmail does not have
  MaxItems,   \* bound: the length of a list (BATCH_MESSAGE_IDS_MAX)
  BatchSizes, \* the batchSize arguments
  Ops,        \* the tools, of "modify", "delete" and "phishing"
  Faults      \* what else may befall a request: "refused", "lost"

ASSUME BatchAssumption ==
  /\ Missing \subseteq Messages
  /\ MaxItems \in Nat
  /\ BatchSizes \subseteq Nat \ {0}
  /\ Ops \subseteq {"modify", "delete", "phishing"}
  /\ Faults \subseteq {"refused", "lost"}

VARIABLES
  \* the call
  op, batchSize, count, items,
  aborted,    \* the signal: the host has cancelled the call
  \* processBatches
  phase,      \* what it awaits: "chunk", "retry"; "start", "returned"
  i,          \* the items before the current chunk
  at,         \* the first item without a verdict
  successes, failures, \* how often each item was pushed
  \* Gmail
  wire,       \* requests and answers under way
  done        \* the messages that were changed or deleted

input == <<op, batchSize, count, items>>
report == <<successes, failures>>
vars == <<input, aborted, phase, i, at, report, wire, done>>

Positions == 1..count
ChunkEnd(j) == IF j + batchSize < count THEN j + batchSize ELSE count
Chunk(j) == (j + 1)..ChunkEnd(j)

Call(try, about) == [try |-> try, about |-> about, state |-> "sent"]

(* The requests of one processFn(batch): one per message under a           *)
(* Promise.all, or one batchModify.                                        *)
MessageCalls(ps) == {Call("chunk", {p}) : p \in ps}
PhishingCall(ps) == {Call("chunk", ps)}
ChunkCalls(j) ==
  IF op = "phishing" THEN PhishingCall(Chunk(j)) ELSE MessageCalls(Chunk(j))

Init ==
  /\ op \in Ops /\ batchSize \in BatchSizes
  /\ count \in 0..MaxItems /\ items \in [Positions -> Messages]
  /\ aborted = FALSE
  /\ phase = "start" /\ i = 0 /\ at = 1
  /\ successes = [p \in Positions |-> 0]
  /\ failures = [p \in Positions |-> 0]
  /\ wire = {} /\ done = {}

-----------------------------------------------------------------------------
(* Gmail.                                                                  *)

Named(r) == {items[p] : p \in r.about}

(* A request that names a message which is not there, or no longer there,  *)
(* is refused as a whole.                                                  *)
Refused(r) ==
  \/ Named(r) \cap Missing # {}
  \/ op = "delete" /\ Named(r) \cap done # {}

Answered(r, state) == wire' = (wire \ {r}) \cup {[r EXCEPT !.state = state]}
Unsettled == <<input, aborted, phase, i, at, report>>

GmailDoes(r) ==
  /\ r.state = "sent" /\ ~Refused(r)
  /\ done' = done \cup Named(r) /\ Answered(r, "ok")
  /\ UNCHANGED Unsettled

GmailRefuses(r) ==
  /\ r.state = "sent" /\ (Refused(r) \/ "refused" \in Faults)
  /\ Answered(r, "err")
  /\ UNCHANGED <<Unsettled, done>>

(* It is done, and the connection breaks before the answer.                *)
AnswerIsLost(r) ==
  /\ r.state = "sent" /\ ~Refused(r) /\ "lost" \in Faults
  /\ done' = done \cup Named(r) /\ Answered(r, "err")
  /\ UNCHANGED Unsettled

-----------------------------------------------------------------------------
(* processBatches.  The operators give what a continuation leaves under    *)
(* way and on which await it stops; rest is what was under way before.     *)

(* The head of the loop over the chunks.                                   *)
LoopHead(j, rest) ==
  /\ i' = j
  /\ IF j >= count \/ aborted
     THEN phase' = "returned" /\ wire' = rest
     ELSE phase' = "chunk" /\ wire' = rest \cup ChunkCalls(j)

(* The head of the loop that tries the items of a failed chunk.            *)
RetryHead(p, rest) ==
  /\ at' = p
  /\ IF p \notin Chunk(i) \/ aborted
     THEN LoopHead(i + batchSize, rest)
     ELSE phase' = "retry" /\ wire' = rest \cup {Call("retry", {p})}
          /\ UNCHANGED i

Push(list, ps) == [p \in Positions |-> IF p \in ps THEN list[p] + 1 ELSE list[p]]

(* Answers that the current await is about.                                *)
Awaited(r) == r.try = phase /\ r.about \subseteq Chunk(i)
Outstanding(r) == {s \in wire \ {r} : Awaited(s)}

Begin ==
  /\ phase = "start"
  /\ LoopHead(0, wire)
  /\ UNCHANGED <<input, aborted, at, report, done>>

(* An answer under Promise.all: the last one of a chunk settles it.        *)
Settles(r) ==
  /\ phase = "chunk" /\ Awaited(r)
  /\ IF Outstanding(r) # {}
     THEN wire' = wire \ {r} /\ UNCHANGED <<phase, i, at, report>>
     ELSE /\ successes' = Push(successes, Chunk(i)) /\ UNCHANGED failures
          /\ at' = ChunkEnd(i) + 1
          /\ LoopHead(i + batchSize, wire \ {r})
  /\ UNCHANGED <<input, aborted, done>>

PartSucceeds(r) == r.state = "ok" /\ Settles(r)

(* As if it were Promise.allSettled.                                       *)
MutChunkFails(r) == r.state = "err" /\ Settles(r)

(* The first refusal fails the chunk; its other requests go on.            *)
ChunkFails(r) ==
  /\ r.state = "err" /\ phase = "chunk" /\ Awaited(r)
  /\ RetryHead(i + 1, wire \ {r})
  /\ UNCHANGED <<input, aborted, report, done>>

ItemAnswers(r) ==
  /\ r.state # "sent" /\ phase = "retry" /\ Awaited(r)
  /\ IF r.state = "ok"
     THEN successes' = Push(successes, {at}) /\ UNCHANGED failures
     ELSE failures' = Push(failures, {at}) /\ UNCHANGED successes
  /\ RetryHead(at + 1, wire \ {r})
  /\ UNCHANGED <<input, aborted, done>>

(* The answer to a request of a chunk that has failed: nobody listens.     *)
StragglerAnswers(r) ==
  /\ r.state # "sent" /\ ~Awaited(r)
  /\ wire' = wire \ {r}
  /\ UNCHANGED <<Unsettled, done>>

(* notifications/cancelled: only the loop heads look at it.                *)
Cancel ==
  /\ ~aborted /\ phase # "returned"
  /\ aborted' = TRUE
  /\ UNCHANGED <<input, phase, i, at, report, wire, done>>

Next ==
  \/ Begin \/ Cancel
  \/ \E r \in wire :
       \/ GmailDoes(r) \/ GmailRefuses(r) \/ AnswerIsLost(r)
       \/ PartSucceeds(r) \/ ChunkFails(r) \/ ItemAnswers(r)
       \/ StragglerAnswers(r)

Spec == Init /\ [][Next]_vars

-----------------------------------------------------------------------------
Requests == [try : {"chunk", "retry"}, about : SUBSET Positions,
             state : {"sent", "ok", "err"}]

(* Every variable has its type.                                            *)
TypeOK ==
  /\ op \in Ops /\ batchSize \in BatchSizes
  /\ count \in 0..MaxItems /\ items \in [Positions -> Messages]
  /\ aborted \in BOOLEAN
  /\ phase \in {"start", "chunk", "retry", "returned"}
  /\ i \in Nat /\ at \in 1..(count + 1)
  /\ successes \in [Positions -> Nat] /\ failures \in [Positions -> Nat]
  /\ wire \subseteq Requests /\ done \subseteq Messages \ Missing

(* What is reported as done was done, whatever answers of the chunk were   *)
(* still under way when it failed.                                         *)
SuccessIsDone ==
  \A p \in Positions : successes[p] > 0 => items[p] \in done

Verdicts(p) == successes[p] + failures[p]

(* The report accounts for a prefix of the list, each item once, and for   *)
(* all of it unless the call was cancelled.                                *)
OneVerdict ==
  /\ \E k \in 0..count :
       \A p \in Positions : Verdicts(p) = IF p <= k THEN 1 ELSE 0
  /\ phase = "returned" /\ ~aborted => \A p \in Positions : Verdicts(p) = 1

(* The report of a call is true and complete.                              *)
ReportIsTrue == SuccessIsDone /\ OneVerdict

(* "so partial success is still reported": a message reported as failed    *)
(* was left alone.                                                         *)
FailedMeansUndone ==
  \A p \in Positions :
    failures[p] > 0 /\ (\A q \in Positions \ {p} : items[q] # items[p])
      => items[p] \notin done
=============================================================================
