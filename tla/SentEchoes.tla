----------------------------- MODULE SentEchoes -----------------------------
(***************************************************************************)
(* imsg: send_message and wait_for_reply in one conversation.  A send goes *)
(* through osascript, with fallbacks; its row reaches chat.db some time    *)
(* later, and a wait must not take that row for an answer.  The registry   *)
(* of sent echoes and the confirm poll keep the two apart.                 *)
(*                                                                         *)
(* A message is its number in date order, a row its place in `landed`; the *)
(* two orders differ.  better-sqlite3 answers within the turn, so a read   *)
(* and what is done with it are one action; scripts and sleeps are not.    *)
(***************************************************************************)
EXTENDS Naturals, Sequences, FiniteSets

CONSTANTS
  Sends,        \* send_message calls
  Waits,        \* wait_for_reply calls
  Attachment,   \* the text of a message that is a file
  TextOf,       \* send -> its message
  WithFile,     \* sends that carry an attachment
  Others,       \* texts the user types on another device, or sends as a file
  MaxOthers,    \* bound: messages that are no sends
  MaxEntries,   \* maxEntries of the registry
  Outcomes,     \* what a script may come to
  Overlap       \* the agent sends while it waits

ASSUME EchoAssumption ==
  /\ Sends \cap {"them", "user"} = {}
  /\ DOMAIN TextOf = Sends /\ WithFile \subseteq Sends
  /\ Attachment \notin {TextOf[s] : s \in Sends}
  /\ MaxOthers \in Nat /\ MaxEntries \in Nat \ {0, 1}
  /\ Outcomes \subseteq {"sent", "refused", "lost"}
  /\ Overlap \in BOOLEAN

VARIABLES
  msgs,         \* the conversation in date order, in chat.db or on its way
  landed,       \* the rows of chat.db, in ROWID order
  send,         \* where a send_message stands
  file,         \* sends whose attachment was accepted
  last,         \* lastMessageId of a send, 0 for none
  entries,      \* the registry, oldest first
  lapsed,       \* sends that lost an entry to the window or the cap
  wait,         \* where a wait_for_reply stands
  self,         \* its includeSelf
  lastKnown,    \* its lastKnownId
  told,         \* the messages it returned
  silenced      \* the rows it took for echoes

app == <<send, file, last>>
registry == <<entries, lapsed>>
waiting == <<wait, self, lastKnown, told, silenced>>
vars == <<msgs, landed, app, registry, waiting>>

-----------------------------------------------------------------------------
Messages == DOMAIN msgs
Rows == {landed[i] : i \in DOMAIN landed}
FromMe(m) == msgs[m].by # "them"
Message(by, text) == [by |-> by, text |-> text]
MutNewest(S) == CHOOSE m \in S \cup {Len(msgs) + 1} : \A n \in S : n <= m
Newest(S) == IF S = {} THEN 0 ELSE CHOOSE m \in S : \A n \in S : n <= m

(* The scripts of a send: sendMessageReliable, sendMessageAlt, sendSMS.    *)
Script == {"idle", "alt", "sms"}
Busy(s) == send[s] \in {"alt", "sms", "file", "sent", "confirm"}

Init ==
  /\ msgs = <<>> /\ landed = <<>>
  /\ send = [s \in Sends |-> "idle"]
  /\ file = {}
  /\ last = [s \in Sends |-> 0]
  /\ entries = <<>> /\ lapsed = {}
  /\ wait = [w \in Waits |-> "idle"]
  /\ self = [w \in Waits |-> TRUE]
  /\ lastKnown = [w \in Waits |-> 0]
  /\ told = [w \in Waits |-> {}]
  /\ silenced = [w \in Waits |-> {}]

-----------------------------------------------------------------------------
(* Messages.app and chat.db.                                               *)

(* The other party answers, or the user writes on another device.          *)
Write(by, text) ==
  /\ Cardinality({m \in Messages : msgs[m].by \in {"them", "user"}}) < MaxOthers
  /\ msgs' = Append(msgs, Message(by, text))
  /\ UNCHANGED <<landed, app, registry, waiting>>

(* A row appears, not always in the order of the dates.                    *)
Land(m) ==
  /\ m \in Messages \ Rows
  /\ landed' = Append(landed, m)
  /\ UNCHANGED <<msgs, app, registry, waiting>>

-----------------------------------------------------------------------------
(* send_message.                                                           *)

Accepted(s) == IF s \in WithFile THEN "file" ELSE "sent"
NextTry(step) == CASE step = "idle" -> "alt"
                   [] step = "alt" -> "sms"
                   [] OTHER -> "failed"

(* Each script is tried when the one before it failed.  "lost": it is      *)
(* killed at its timeout with the message handed over.                     *)
RunScript(s, outcome) ==
  /\ send[s] \in Script
  /\ send[s] # "idle" \/ Overlap \/ \A w \in Waits : wait[w] \in {"idle", "done"}
  /\ msgs' = IF outcome = "refused" THEN msgs
             ELSE Append(msgs, Message(s, TextOf[s]))
  /\ send' = [send EXCEPT ![s] = IF outcome = "sent" THEN Accepted(s)
                                 ELSE NextTry(@)]
  /\ UNCHANGED <<landed, file, last, registry, waiting>>

(* sendAttachment; one that fails is reported and not tried again.         *)
SendAttachment(s, outcome) ==
  /\ send[s] = "file"
  /\ msgs' = IF outcome = "refused" THEN msgs
             ELSE Append(msgs, Message(s, Attachment))
  /\ file' = IF outcome = "sent" THEN file \cup {s} ELSE file
  /\ send' = [send EXCEPT ![s] = "sent"]
  /\ UNCHANGED <<landed, last, registry, waiting>>

(* findChatByHandle has nothing yet: a new conversation, no echo.          *)
NoChat(s) ==
  /\ send[s] = "sent" /\ landed = <<>>
  /\ send' = [send EXCEPT ![s] = "done"]
  /\ lapsed' = lapsed \cup {s}
  /\ UNCHANGED <<msgs, landed, file, last, entries, waiting>>

Entry(s, text, since) == [send |-> s, text |-> text, since |-> since, pin |-> 0]
Kept(seq) == IF Len(seq) <= MaxEntries THEN seq
             ELSE SubSeq(seq, Len(seq) - MaxEntries + 1, Len(seq))
Dropped(seq) == {seq[i].send : i \in 1..(Len(seq) - MaxEntries)}

MutRegister(s, since) ==
  LET all == Append(entries, Entry(s, TextOf[s], since)) IN
  /\ send[s] = "sent"
  /\ entries' = Kept(all)
  /\ lapsed' = lapsed \cup Dropped(all)
  /\ send' = [send EXCEPT ![s] = "confirm"]
  /\ UNCHANGED <<msgs, landed, file, last, waiting>>

(* register: the text's echo and its file's.  Messages from `since` on are *)
(* dated within the tolerance of an entry, which is stamped here, after    *)
(* the last script: a slow one leaves the send's own rows before it.  The  *)
(* cap is far: what it drops is confirmed.                                 *)
Register(s, since) ==
  LET all == entries \o <<Entry(s, TextOf[s], since)>>
               \o (IF s \in file THEN <<Entry(s, Attachment, since)>> ELSE <<>>) IN
  /\ send[s] = "sent"
  /\ \A r \in Dropped(all) : send[r] # "confirm"
  /\ entries' = Kept(all)
  /\ lapsed' = lapsed \cup Dropped(all)
  /\ send' = [send EXCEPT ![s] = "confirm"]
  /\ UNCHANGED <<msgs, landed, file, last, waiting>>

Own(s) == CHOOSE i \in DOMAIN entries :
            entries[i].send = s /\ entries[i].text = TextOf[s]

(* The rows the confirm poll takes for this send.                          *)
Matching(s) == {m \in Rows : /\ FromMe(m) /\ msgs[m].text = TextOf[s]
                             /\ m >= entries[Own(s)].since}

(* The confirm poll finds a row like the one sent, the newest first, and   *)
(* pins the echo to it, whatever it was pinned to.                         *)
Confirm(s) ==
  /\ send[s] = "confirm" /\ Matching(s) # {}
  /\ entries' = [entries EXCEPT ![Own(s)].pin = Newest(Matching(s))]
  /\ last' = [last EXCEPT ![s] = Newest(Matching(s))]
  /\ send' = [send EXCEPT ![s] = "done"]
  /\ UNCHANGED <<msgs, landed, file, lapsed, waiting>>

(* It has looked for five seconds: the newest row stands in.               *)
Unconfirmed(s) ==
  /\ send[s] = "confirm"
  /\ last' = [last EXCEPT ![s] = Newest(Rows)]
  /\ send' = [send EXCEPT ![s] = "done"]
  /\ UNCHANGED <<msgs, landed, file, registry, waiting>>

(* prune: the oldest entry has left the window.                            *)
Prune ==
  /\ entries # <<>>
  /\ send[Head(entries).send] # "confirm"
  /\ entries' = Tail(entries)
  /\ lapsed' = lapsed \cup {Head(entries).send}
  /\ UNCHANGED <<msgs, landed, app, waiting>>

-----------------------------------------------------------------------------
(* wait_for_reply.                                                         *)

Cursors == {0} \cup {last[s] : s \in Sends} \cup {Newest(told[w]) : w \in Waits}

(* afterMessageId is what a send or a wait returned, or the newest row.    *)
WaitForReply(w, after, includeSelf) ==
  /\ wait[w] = "idle" /\ landed # <<>>
  /\ Overlap \/ \A s \in Sends : ~Busy(s)
  /\ wait' = [wait EXCEPT ![w] = "reading"]
  /\ self' = [self EXCEPT ![w] = includeSelf]
  /\ lastKnown' = [lastKnown EXCEPT ![w] = IF after = 0 THEN Newest(Rows) ELSE after]
  /\ UNCHANGED <<msgs, landed, app, registry, told, silenced>>

MutMatches(e, m) == m >= e.since /\ e.text = msgs[m].text
Matches(e, m) == e.pin = 0 /\ m >= e.since /\ e.text = msgs[m].text

(* consume: a pinned row stays an echo, else the oldest free match takes it. *)
Consume(E, m) ==
  LET S == {i \in DOMAIN E : Matches(E[i], m)} IN
  IF S = {} \/ \E i \in DOMAIN E : E[i].pin = m THEN E
  ELSE [E EXCEPT ![CHOOSE i \in S : \A j \in S : i <= j].pin = m]

(* The registry after the rows of a round up to each date, oldest first.   *)
Taken(rows) ==
  LET E[m \in 0..Len(msgs)] ==
        IF m = 0 THEN entries
        ELSE IF m \in rows THEN Consume(E[m - 1], m) ELSE E[m - 1]
  IN E

(* getMessagesAfter.                                                       *)
After(w) == {m \in Rows : m > lastKnown[w] /\ (self[w] \/ ~FromMe(m))}

(* One round: what is left after the echoes is the answer; when nothing    *)
(* is, the cursor moves past the echoes and the wait sleeps.               *)
ReadReplies(w) ==
  LET new == After(w)
      mine == {m \in new : FromMe(m)}
      E == Taken(mine)[Len(msgs)]
      echoes == {m \in mine : \E i \in DOMAIN E : E[i].pin = m}
      visible == new \ echoes IN
  /\ wait[w] = "reading"
  /\ entries' = E
  /\ silenced' = [silenced EXCEPT ![w] = @ \cup echoes]
  /\ IF visible # {}
     THEN /\ told' = [told EXCEPT ![w] = visible]
          /\ wait' = [wait EXCEPT ![w] = "done"]
          /\ UNCHANGED lastKnown
     ELSE /\ lastKnown' = [lastKnown EXCEPT ![w] = IF new = {} THEN @ ELSE Newest(new)]
          /\ wait' = [wait EXCEPT ![w] = "sleeping"]
          /\ UNCHANGED told
  /\ UNCHANGED <<msgs, landed, app, lapsed, self>>

(* The bus, or the fallback tick.                                          *)
Wake(w) ==
  /\ wait[w] = "sleeping"
  /\ wait' = [wait EXCEPT ![w] = "reading"]
  /\ UNCHANGED <<msgs, landed, app, registry, self, lastKnown, told, silenced>>

(* The time is up, or the client has cancelled.                            *)
GiveUp(w) ==
  /\ wait[w] \in {"reading", "sleeping"}
  /\ wait' = [wait EXCEPT ![w] = "done"]
  /\ UNCHANGED <<msgs, landed, app, registry, self, lastKnown, told, silenced>>

Next ==
  \/ \E text \in Others : Write("user", text)
  \/ Write("them", "reply")
  \/ \E m \in Messages : Land(m)
  \/ \E s \in Sends :
       \/ NoChat(s) \/ Confirm(s) \/ Unconfirmed(s)
       \/ \E o \in Outcomes : RunScript(s, o) \/ SendAttachment(s, o)
       \/ \E since \in 1..(Len(msgs) + 1) : Register(s, since)
  \/ Prune
  \/ \E w \in Waits :
       \/ \E after \in Cursors, b \in BOOLEAN : WaitForReply(w, after, b)
       \/ ReadReplies(w) \/ Wake(w) \/ GiveUp(w)

Spec == Init /\ [][Next]_vars

-----------------------------------------------------------------------------
Texts == {TextOf[s] : s \in Sends} \cup Others \cup {Attachment, "reply"}
ByUser(text) == {m \in Messages : msgs[m].by = "user" /\ msgs[m].text = text}
BySend(text) == {m \in Messages : msgs[m].by \in Sends /\ msgs[m].text = text}
(* Every send of this text is in the registry.                             *)
Covered(text) == \A m \in BySend(text) :
  send[msgs[m].by] \in {"confirm", "done"} /\ msgs[m].by \notin lapsed

(* Every variable has its type.                                            *)
TypeOK ==
  /\ msgs \in Seq([by : Sends \cup {"them", "user"}, text : Texts])
  /\ landed \in Seq(Messages)
  /\ send \in [Sends -> Script \cup {"file", "sent", "confirm", "done", "failed"}]
  /\ file \subseteq Sends /\ lapsed \subseteq Sends
  /\ last \in [Sends -> Messages \cup {0}]
  /\ entries \in Seq([send : Sends, text : Texts, since : Nat, pin : Messages \cup {0}])
  /\ wait \in [Waits -> {"idle", "reading", "sleeping", "done"}]
  /\ self \in [Waits -> BOOLEAN]
  /\ lastKnown \in [Waits -> Messages \cup {0}]
  /\ told \in [Waits -> SUBSET Messages]
  /\ silenced \in [Waits -> SUBSET Messages]

(* What was sent of this text is not older than its entry tolerates.       *)
InTime(text) == \A m \in BySend(text), i \in DOMAIN entries :
  entries[i].send = msgs[m].by => entries[i].since <= m

(* Of a text all of whose sends are registered within the tolerance, a     *)
(* wait returns at most as many rows of this side as the user wrote: the   *)
(* agent's own messages do not come back as the user's. A message whose    *)
(* scripts ran longer than the tolerance is left out: its row is too old   *)
(* for its entry, and a wait returns it.                                   *)
NoPhantom ==
  [][\A w \in Waits : told'[w] # told[w] => \A text \in Texts :
       Covered(text) /\ InTime(text) =>
       Cardinality({m \in told'[w] : FromMe(m) /\ msgs[m].text = text})
         <= Cardinality(ByUser(text))]_vars

(* The user's own words are not taken for echoes beyond the sends: of a    *)
(* text no more rows are silenced than were sent.                          *)
NoSwallow ==
  \A text \in Texts :
    Cardinality({m \in UNION {silenced[w] : w \in Waits} : msgs[m].text = text})
      <= Cardinality(BySend(text))

(* The same without the exception, which no run checks: "Suppresses the    *)
(* agent's own just-sent messages from wait_for_reply results". It fails   *)
(* when an attachment's script outlasts the tolerance.                     *)
NoOwnMessage ==
  [][\A w \in Waits : told'[w] # told[w] => \A text \in Texts : Covered(text) =>
       Cardinality({m \in told'[w] : FromMe(m) /\ msgs[m].text = text})
         <= Cardinality(ByUser(text))]_vars

(* "concurrent wait_for_reply calls see consistent suppression": no row is *)
(* an echo to one wait and an answer to another.                           *)
Consistent ==
  [][\A v, w \in Waits : told'[w] # told[w] =>
       \A m \in told'[w] \cap silenced[v] : ~Covered(msgs[m].text)]_vars
=============================================================================
