----------------------------- MODULE EventFeed -----------------------------
(***************************************************************************)
(* How the events of a call reach those who follow it: the append-only     *)
(* event table, get_call_events (the long-poll through `serve`, plain and  *)
(* as a meeting member, and the read of the table without a wait), and the *)
(* global stream of `tel watch` with its cursor, replay and reconnect.     *)
(*                                                                         *)
(* An event is its global id; seq numbers the events of one call in the    *)
(* same order, so ids stand for both.  A request that waits is an action   *)
(* that reads and one that resumes; an answer or a stream is in flight     *)
(* until the client takes it, and may be lost there.                       *)
(***************************************************************************)
EXTENDS Naturals, Sequences, FiniteSets

CONSTANTS
  MaxEvents,    \* bound: events appended
  Audience,     \* event -> "all", the one member it is for, or "other":
                \* an event of another call
  Pollers,      \* clients of get_call_events
  As,           \* poller -> its `as`, or "host" without one
  Page,         \* limit of a poll
  Watchers,     \* clients of the global stream
  ReplayLimit,  \* events the stream replays (getGlobalEvents' limit)
  MaxFaults     \* bound: lost answers, ended streams and restarts

Events == 1..MaxEvents

ASSUME FeedAssumption ==
  /\ MaxEvents \in Nat /\ MaxFaults \in Nat
  /\ Page \in Nat \ {0} /\ ReplayLimit \in Nat \ {0}
  /\ DOMAIN Audience = Events /\ DOMAIN As = Pollers

VARIABLES
  up,         \* `serve` runs
  written,    \* events 1..written are in the table
  picked,     \* event -> pollers whose answer first carried it, if any
  \* get_call_events
  poll,       \* where the poll of a client stands
  at,         \* the cursor of its handler, while that waits
  answer,     \* the answer in flight
  cursor,     \* the client's cursor
  told,       \* poller -> event -> times the client was told
  \* streamEvents
  conn,       \* where a watcher's stream stands
  chan,       \* events on their way to it
  lastId,
  seen,       \* the events it yielded, in order
  overrun,    \* watchers that found more than a replay ahead of them
  faults

polls == <<poll, at, answer, cursor, told>>
streams == <<conn, chan, lastId, seen, overrun>>
vars == <<up, written, picked, polls, streams, faults>>

-----------------------------------------------------------------------------
OfCall(e) == Audience[e] # "other"
(* eventsForMember: addressed events go to their addressee and the host.   *)
For(p, e) == /\ OfCall(e)
             /\ As[p] = "host" \/ Audience[e] \in {"all", As[p]}

After(c) == {e \in (c + 1)..written : OfCall(e)}
Rank(c, e) == Cardinality({f \in After(c) : f <= e})
(* getEvents cuts what follows a cursor into pages.                        *)
PageNo(c, e) == (Rank(c, e) - 1) \div Page
PageOf(c, n) == {e \in After(c) : PageNo(c, e) = n}
Own(p, S) == {e \in S : For(p, e)}
Least(S) == CHOOSE e \in S : \A f \in S : e <= f
Last(S, c) == IF S = {} THEN c ELSE CHOOSE e \in S : \A f \in S : f <= e

NoAnswer == [upto |-> 0, events |-> {}]
Carry(S) == [e \in Events |-> IF e \in S THEN 1 ELSE 0]

Init ==
  /\ up = TRUE /\ written = 0 /\ picked = [e \in Events |-> {}]
  /\ poll = [p \in Pollers |-> "idle"]
  /\ at = [p \in Pollers |-> 0]
  /\ answer = [p \in Pollers |-> NoAnswer]
  /\ cursor = [p \in Pollers |-> 0]
  /\ told = [p \in Pollers |-> [e \in Events |-> 0]]
  /\ conn = [w \in Watchers |-> "idle"]
  /\ chan = [w \in Watchers |-> <<>>]
  /\ lastId = [w \in Watchers |-> 0]
  /\ seen = [w \in Watchers |-> <<>>]
  /\ overrun = {} /\ faults = 0

(* emit: the row, then every listener, the streams and the waiting polls.  *)
Emit ==
  /\ up /\ written < MaxEvents
  /\ written' = written + 1
  /\ chan' = [w \in Watchers |->
                IF conn[w] = "open" THEN Append(chan[w], written + 1)
                ELSE chan[w]]
  /\ poll' = [p \in Pollers |->
                IF poll[p] = "waiting" /\ OfCall(written + 1) THEN "woken"
                ELSE poll[p]]
  /\ UNCHANGED <<up, picked, at, answer, cursor, told, conn, lastId, seen,
                 overrun, faults>>

-----------------------------------------------------------------------------
(* get_call_events through `serve`.                                        *)

(* The answer leaves, and what it carries counts as picked up: the first   *)
(* hand-off of an event wins.                                              *)
Answer(p, upto, events) ==
  /\ answer' = [answer EXCEPT ![p] = [upto |-> upto, events |-> events]]
  /\ poll' = [poll EXCEPT ![p] = "answered"]
  /\ at' = [at EXCEPT ![p] = 0]
  /\ picked' = [e \in Events |->
                  IF e \in events /\ picked[e] = {} THEN {p} ELSE picked[e]]

MutReadPage(p, c) ==
  Answer(p, Last(After(c), c), Own(p, PageOf(c, 0)))

(* One read, answered with whatever it finds.                              *)
ReadPage(p, c) ==
  LET page == PageOf(c, 0) IN Answer(p, Last(page, c), Own(p, page))

Wait(p, c) ==
  /\ poll' = [poll EXCEPT ![p] = "waiting"]
  /\ at' = [at EXCEPT ![p] = c]
  /\ UNCHANGED <<answer, picked>>

MutReadOn(p, c) ==
  LET page == PageOf(c, 0)
      own == Own(p, page) IN
  IF own # {} THEN Answer(p, Last(page, c), own)
  ELSE Wait(p, Last(page, c))

(* A member reads past pages that hold nothing for it, and waits after the *)
(* last; the host waits only on an empty read.                             *)
ReadOn(p, c) ==
  LET own == Own(p, After(c)) IN
  IF own = {} THEN Wait(p, Last(After(c), c))
  ELSE LET page == PageOf(c, PageNo(c, Least(own))) IN
       Answer(p, Last(page, c), Own(p, page))

Poll(p) ==
  /\ up /\ poll[p] = "idle"
  /\ ReadOn(p, cursor[p])
  /\ UNCHANGED <<up, written, cursor, told, streams, faults>>

(* An event of the call came; the host's handler re-reads once.            *)
Resume(p) ==
  /\ poll[p] = "woken"
  /\ IF As[p] = "host" THEN ReadPage(p, at[p]) ELSE ReadOn(p, at[p])
  /\ UNCHANGED <<up, written, cursor, told, streams, faults>>

(* waitMs is over: a last read.                                            *)
Expire(p) ==
  /\ poll[p] \in {"waiting", "woken"}
  /\ ReadPage(p, at[p])
  /\ UNCHANGED <<up, written, cursor, told, streams, faults>>

(* The client takes events and nextCursor.                                 *)
Receive(p) ==
  /\ poll[p] = "answered"
  /\ cursor' = [cursor EXCEPT ![p] = answer[p].upto]
  /\ told' = [told EXCEPT ![p] = [e \in Events |->
                @[e] + Carry(answer[p].events)[e]]]
  /\ poll' = [poll EXCEPT ![p] = "idle"]
  /\ answer' = [answer EXCEPT ![p] = NoAnswer]
  /\ UNCHANGED <<up, written, picked, at, streams, faults>>

(* The client is gone, or its answer is: it asks again from its cursor.    *)
Lose(p) ==
  /\ poll[p] = "answered" /\ faults < MaxFaults
  /\ poll' = [poll EXCEPT ![p] = "idle"]
  /\ answer' = [answer EXCEPT ![p] = NoAnswer]
  /\ faults' = faults + 1
  /\ UNCHANGED <<up, written, picked, at, cursor, told, streams>>

(* Without waitMs the client reads the table itself; no mark is left.      *)
ReadStore(p) ==
  LET page == PageOf(cursor[p], 0) IN
  /\ poll[p] = "idle"
  /\ cursor' = [cursor EXCEPT ![p] = Last(page, @)]
  /\ told' = [told EXCEPT ![p] = [e \in Events |->
                @[e] + Carry(Own(p, page))[e]]]
  /\ UNCHANGED <<up, written, picked, poll, at, answer, streams, faults>>

-----------------------------------------------------------------------------
(* streamEvents.                                                           *)

Missed(w) == written - lastId[w]
Replay(w) == IF Missed(w) > ReplayLimit THEN lastId[w] + ReplayLimit ELSE written
Ids(from, to) == [i \in 1..(to - from) |-> from + i]

MutConnect(w) ==
  /\ up /\ conn[w] = "idle"
  /\ conn' = [conn EXCEPT ![w] = "open"]
  /\ chan' = [chan EXCEPT ![w] = Ids(0, IF written > ReplayLimit
                                        THEN ReplayLimit ELSE written)]
  /\ overrun' = IF Missed(w) > ReplayLimit THEN overrun \cup {w} ELSE overrun
  /\ UNCHANGED <<up, written, picked, polls, lastId, seen, faults>>

(* GET /events?after=lastId: the replay, then the listener, in one go.     *)
Connect(w) ==
  /\ up /\ conn[w] = "idle"
  /\ conn' = [conn EXCEPT ![w] = "open"]
  /\ chan' = [chan EXCEPT ![w] = Ids(lastId[w], Replay(w))]
  /\ overrun' = IF Missed(w) > ReplayLimit THEN overrun \cup {w} ELSE overrun
  /\ UNCHANGED <<up, written, picked, polls, lastId, seen, faults>>

(* Without a body to stream: one batch, and again after the backoff.       *)
PollOnce(w) ==
  /\ up /\ conn[w] = "idle"
  /\ seen' = [seen EXCEPT ![w] = @ \o Ids(lastId[w], Replay(w))]
  /\ lastId' = [lastId EXCEPT ![w] = Replay(w)]
  /\ UNCHANGED <<up, written, picked, polls, conn, chan, overrun, faults>>

(* The connection is refused: GatewayUnavailableError ends the feed.       *)
Refuse(w) ==
  /\ ~up /\ conn[w] = "idle"
  /\ conn' = [conn EXCEPT ![w] = "refused"]
  /\ UNCHANGED <<up, written, picked, polls, chan, lastId, seen, overrun,
                 faults>>

MutDeliver(w) ==
  /\ conn[w] = "open" /\ chan[w] # <<>>
  /\ chan' = [chan EXCEPT ![w] = Tail(@)]
  /\ IF Head(chan[w]) <= lastId[w] + 1 THEN UNCHANGED <<lastId, seen>>
     ELSE /\ lastId' = [lastId EXCEPT ![w] = Head(chan[w])]
          /\ seen' = [seen EXCEPT ![w] = Append(@, Head(chan[w]))]
  /\ UNCHANGED <<up, written, picked, polls, conn, overrun, faults>>

(* A frame arrives; one that is not beyond lastId is skipped.              *)
Deliver(w) ==
  /\ conn[w] = "open" /\ chan[w] # <<>>
  /\ chan' = [chan EXCEPT ![w] = Tail(@)]
  /\ IF Head(chan[w]) <= lastId[w] THEN UNCHANGED <<lastId, seen>>
     ELSE /\ lastId' = [lastId EXCEPT ![w] = Head(chan[w])]
          /\ seen' = [seen EXCEPT ![w] = Append(@, Head(chan[w]))]
  /\ UNCHANGED <<up, written, picked, polls, conn, overrun, faults>>

(* The stream ends or breaks, with what it still carried.                  *)
EndStream(w) ==
  /\ conn[w] = "open" /\ faults < MaxFaults
  /\ conn' = [conn EXCEPT ![w] = "idle"]
  /\ chan' = [chan EXCEPT ![w] = <<>>]
  /\ faults' = faults + 1
  /\ UNCHANGED <<up, written, picked, polls, lastId, seen, overrun>>

(* `serve` goes down with its listeners and requests; the table stays.     *)
Stop ==
  /\ up /\ faults < MaxFaults
  /\ up' = FALSE /\ faults' = faults + 1
  /\ poll' = [p \in Pollers |-> "idle"]
  /\ answer' = [p \in Pollers |-> NoAnswer]
  /\ at' = [p \in Pollers |-> 0]
  /\ conn' = [w \in Watchers |-> IF conn[w] = "open" THEN "idle" ELSE conn[w]]
  /\ chan' = [w \in Watchers |-> <<>>]
  /\ UNCHANGED <<written, picked, cursor, told, lastId, seen, overrun>>

Start ==
  /\ ~up /\ up' = TRUE
  /\ UNCHANGED <<written, picked, polls, streams, faults>>

Next ==
  \/ Emit \/ Stop \/ Start
  \/ \E p \in Pollers :
       \/ Poll(p) \/ Resume(p) \/ Expire(p) \/ Receive(p) \/ Lose(p)
       \/ ReadStore(p)
  \/ \E w \in Watchers :
       \/ Connect(w) \/ PollOnce(w) \/ Refuse(w) \/ Deliver(w) \/ EndStream(w)

Spec == Init /\ [][Next]_vars

(* The poll's timer fires; a feed that is not connected sleeps its backoff *)
(* and tries again, and an open stream delivers.                           *)
Fairness ==
  /\ \A p \in Pollers : WF_vars(Resume(p) \/ Expire(p)) /\ WF_vars(Receive(p))
  /\ \A w \in Watchers : /\ WF_vars(Connect(w) \/ PollOnce(w) \/ Refuse(w))
                         /\ WF_vars(Deliver(w))
FairSpec == Spec /\ Fairness

-----------------------------------------------------------------------------
(* Every variable has its type.                                            *)
TypeOK ==
  /\ up \in BOOLEAN /\ written \in 0..MaxEvents /\ faults \in 0..MaxFaults
  /\ picked \in [Events -> SUBSET Pollers]
  /\ poll \in [Pollers -> {"idle", "waiting", "woken", "answered"}]
  /\ at \in [Pollers -> 0..MaxEvents]
  /\ answer \in [Pollers -> [upto : 0..MaxEvents, events : SUBSET Events]]
  /\ cursor \in [Pollers -> 0..MaxEvents]
  /\ told \in [Pollers -> [Events -> Nat]]
  /\ conn \in [Watchers -> {"idle", "open", "refused"}]
  /\ chan \in [Watchers -> Seq(Events)]
  /\ lastId \in [Watchers -> 0..MaxEvents]
  /\ seen \in [Watchers -> Seq(Events)]
  /\ overrun \subseteq Watchers

(* A poll sleeps only when there is nothing for it: no event slips in      *)
(* between the read and the listener, and none hides behind a page of      *)
(* other members' questions.                                               *)
NoLostWakeup ==
  \A p \in Pollers : poll[p] = "waiting" => Own(p, After(at[p])) = {}

(* A watcher that never fell more than one replay behind has yielded every *)
(* event up to its cursor, each once and in id order.                      *)
NoGapBelowLimit ==
  \A w \in Watchers \ overrun : seen[w] = Ids(0, lastId[w])

(* Whatever happens to its streams, a watcher yields ids in order and      *)
(* never one twice.                                                        *)
InOrderOnce ==
  \A w \in Watchers : \A i, j \in DOMAIN seen[w] :
    i < j => seen[w][i] < seen[w][j]

(* A watcher within the replay limit misses nothing, and no watcher ever   *)
(* goes back.                                                              *)
ReplayFaithful == NoGapBelowLimit /\ InOrderOnce

(* Every event reaches every watcher whose feed goes on and that was not   *)
(* overrun.                                                                *)
WatcherCatchesUp ==
  \A w \in Watchers : \A e \in Events :
    written >= e ~> lastId[w] >= e \/ conn[w] = "refused" \/ w \in overrun

(* What get_call_events promises: seen from one client, its cursor passes  *)
(* over the table, and what it passes that is for this client was told     *)
(* once, whatever was lost, repeated, paged or restarted.                  *)
Feed(p) == INSTANCE RowFeed WITH
  MaxRows <- MaxEvents, Hidden <- {e \in Events : ~For(p, e)},
  written <- written, cursor <- cursor[p], told <- told[p]
ImplementsRowFeed ==
  /\ \A p \in Pollers : Feed(p)!FeedInit
  /\ [][\A p \in Pollers : [Feed(p)!FeedNext]_(Feed(p)!feedVars)]_vars
=============================================================================
