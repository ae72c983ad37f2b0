---------------------------- MODULE ChangeStream ----------------------------
(***************************************************************************)
(* Live messages in the iMessage TUI: the change watcher that turns writes *)
(* of chat.db into batches (ChangeWatcher), the store that gathers batches *)
(* until React has processed them (createChangeStream over EventBus), and  *)
(* the effect of App that handles a snapshot, with the message cache its   *)
(* thread view reads through.                                              *)
(*                                                                         *)
(* The watcher awaits its database, so a drain is an action that reads and *)
(* one that resumes.  The loads of the view are one action: better-sqlite3 *)
(* answers in the same turn of the event loop.  Rows are numbered from the *)
(* seed of the watcher on, in ROWID order, which is the order of arrival   *)
(* everywhere, so a batch is a set.  Of the sidebar only its cursor is     *)
(* modelled.                                                               *)
(***************************************************************************)
EXTENDS Naturals, FiniteSets

CONSTANTS
  MaxRows,      \* bound: rows written after the seed
  Hidden,       \* rows with an item_type: renames, joins and leaves
  Threads,      \* the threads the user opens
  none,         \* no thread
  ThreadOf,     \* row -> the thread its chat belongs to
  MaxBatch,     \* rows per delta page
  MaxPending    \* MAX_PENDING_EVENTS

Rows == 1..MaxRows

ASSUME StreamAssumption ==
  /\ MaxRows \in Nat /\ MaxBatch \in Nat \ {0} /\ MaxPending \in Nat
  /\ Hidden \subseteq Rows
  /\ DOMAIN ThreadOf = Rows
  /\ none \notin Threads

VARIABLES
  top,        \* rows 1..top are in chat.db
  \* ChangeWatcher
  mode,       \* what drives it: "fs" (and the safety poll), "poll", "off"
  debounce,   \* debounceTimer is set
  highWater,  \* highWaterRowid
  draining, rearm,
  page,       \* what the read in flight returns
  \* the store of createChangeStream
  version, pending, overflowed,
  \* App
  captured,   \* the snapshot of the last render
  due,        \* its effect has not run yet
  lastLive,   \* lastLiveVersionRef
  selected,   \* the thread under the sidebar cursor
  moving,     \* the thread moveDebounceRef will load, or none
  shown,      \* the thread loaded last
  view,       \* messages on the screen, of those after the seed
  fresh,      \* threads with an entry of messageCache young enough to serve
  cache,      \* thread -> the messages of that entry
  \* history
  emissions,  \* row -> batches that carried it
  asked,      \* rows 1..asked existed when a drain was last asked for
  accounted   \* rows App handled, or reloaded after a loss

watcher == <<mode, debounce, highWater, draining, rearm, page, emissions, asked>>
stream == <<version, pending, overflowed>>
thread == <<selected, moving, shown, view, fresh, cache>>
app == <<captured, due, lastLive, accounted>>
vars == <<top, watcher, stream, thread, app>>

Visible == Rows \ Hidden
InDb == {r \in Visible : r <= top}
Emitted == {r \in Visible : emissions[r] > 0}

(* getMessagesAfterRowid: LIMIT counts the rows the query reads; hidden    *)
(* ones are dropped afterwards.                                            *)
MutPage(h) == {r \in InDb : r > h + 1 /\ r <= h + MaxBatch}
Page(h) == {r \in InDb : r > h /\ r <= h + MaxBatch}

Last(S) == CHOOSE r \in S : \A s \in S : s <= r
Newest(S) == {r \in S : Cardinality({s \in S : s > r}) < MaxPending}

-----------------------------------------------------------------------------
(* The first load is behind us: history is on the screen, and the watcher  *)
(* is seeded, with or without a working fs.watch.                          *)
Init ==
  /\ top = 0
  /\ mode \in {"fs", "poll"}
  /\ debounce = FALSE
  /\ highWater = 0
  /\ draining = FALSE /\ rearm = FALSE
  /\ page = {}
  /\ version = 0 /\ pending = {} /\ overflowed = FALSE
  /\ captured = [version |-> 0, batch |-> {}, overflowed |-> FALSE]
  /\ due = FALSE
  /\ lastLive = 0
  /\ selected \in Threads /\ moving = none /\ shown = selected
  /\ view = {}
  /\ fresh = {selected}
  /\ cache = [t \in Threads |-> {}]
  /\ emissions = [r \in Rows |-> 0]
  /\ asked = 0
  /\ accounted = {}

(* Messages.app appends a row.                                             *)
RowWritten ==
  /\ top < MaxRows
  /\ top' = top + 1
  /\ UNCHANGED <<watcher, stream, thread, app>>

-----------------------------------------------------------------------------
(* drain up to its await; called in the middle of another one, it only     *)
(* asks for one more round.                                                *)
MutDrain ==
  /\ asked' = top
  /\ IF draining
       THEN UNCHANGED <<draining, page, rearm>>
       ELSE /\ draining' = TRUE
            /\ page' = Page(highWater)
            /\ UNCHANGED rearm
drain ==
  /\ asked' = top
  /\ IF draining
       THEN rearm' = TRUE /\ UNCHANGED <<draining, page>>
       ELSE /\ draining' = TRUE
            /\ page' = Page(highWater)
            /\ UNCHANGED rearm

(* A file event, told or made up by the file system, starts the debounce   *)
(* over; nothing says one follows every write.                             *)
FileEvent ==
  /\ mode = "fs" /\ ~debounce
  /\ debounce' = TRUE
  /\ UNCHANGED <<top, mode, highWater, draining, rearm, page, emissions, asked,
                 stream, thread, app>>

DebounceFires ==
  /\ debounce
  /\ debounce' = FALSE
  /\ drain
  /\ UNCHANGED <<top, mode, highWater, emissions, stream, thread, app>>

(* The safety poll beside a working watch, the fallback poll without one.  *)
PollFires ==
  /\ mode # "off"
  /\ drain
  /\ UNCHANGED <<top, mode, debounce, highWater, emissions, stream, thread, app>>

(* The watch breaks: only polls are left.                                  *)
WatchFails ==
  /\ mode = "fs"
  /\ mode' = "poll"
  /\ UNCHANGED <<top, debounce, highWater, draining, rearm, page, emissions,
                 asked, stream, thread, app>>

(* The finally of drain, with the cursor at h.                             *)
Finish(h) ==
  IF rearm
    THEN rearm' = FALSE /\ page' = Page(h) /\ UNCHANGED draining
    ELSE draining' = FALSE /\ page' = {} /\ UNCHANGED rearm

(* onBusBatch: gather, drop the oldest past the cap, and say so.           *)
MutOnBusBatch(S) ==
  /\ pending' = Newest(pending \cup S)
  /\ UNCHANGED overflowed
onBusBatch(S) ==
  /\ pending' = Newest(pending \cup S)
  /\ overflowed' = (overflowed \/ Cardinality(pending \cup S) > MaxPending)

(* EventBus.emit, to the stream while App is mounted.                      *)
emit(S) ==
  /\ emissions' = [r \in Rows |-> IF r \in S THEN emissions[r] + 1 ELSE emissions[r]]
  /\ IF S # {} /\ mode # "off"
       THEN version' = version + 1 /\ onBusBatch(S)
       ELSE UNCHANGED stream

(* The read returns: the cursor moves, the page is emitted, and a full     *)
(* page asks for the next.                                                 *)
DrainPage ==
  /\ draining
  /\ highWater' = IF page = {} THEN highWater ELSE Last(page)
  /\ emit(page)
  /\ IF Cardinality(page) = MaxBatch
       THEN page' = Page(highWater') /\ UNCHANGED <<draining, rearm>>
       ELSE Finish(highWater')
  /\ UNCHANGED <<top, mode, debounce, asked, thread, app>>

(* The read throws: the drain is given up, unless one more is asked for.   *)
DrainFails ==
  /\ draining
  /\ Finish(highWater)
  /\ asked' = IF rearm THEN asked ELSE 0
  /\ UNCHANGED <<top, mode, debounce, highWater, emissions, stream, thread, app>>

-----------------------------------------------------------------------------
(* React renders what getSnapshot returns, and runs the effect later.      *)
Render ==
  /\ mode # "off" /\ ~due
  /\ captured' = [version |-> version, batch |-> pending, overflowed |-> overflowed]
  /\ due' = TRUE
  /\ UNCHANGED <<top, watcher, stream, thread, lastLive, accounted>>

MutAck(v) ==
  /\ pending' = {} /\ overflowed' = FALSE
  /\ UNCHANGED version
ack(v) ==
  /\ IF v < version THEN UNCHANGED <<pending, overflowed>>
                    ELSE pending' = {} /\ overflowed' = FALSE
  /\ UNCHANGED version

(* useImsg.loadMessages: a fresh entry is returned without a query.        *)
Loaded(t) == IF t \in fresh THEN cache[t]
             ELSE {r \in InDb : ThreadOf[r] = t}
Open(t) ==
  /\ shown' = t
  /\ view' = Loaded(t)
  /\ cache' = [cache EXCEPT ![t] = Loaded(t)]
  /\ fresh' = fresh \cup {t}

(* handleLiveEvents and appendCached, of the selected thread only.         *)
MutHandleLiveEvents(S) ==
  /\ view' = view \cup {r \in S : ThreadOf[r] = selected}
  /\ UNCHANGED <<selected, moving, shown, fresh, cache>>
handleLiveEvents(S) ==
  LET mine == {r \in S : ThreadOf[r] = selected} IN
  /\ view' = view \cup mine
  /\ cache' = IF selected \notin fresh THEN cache
              ELSE [cache EXCEPT ![selected] = @ \cup mine]
  /\ UNCHANGED <<selected, moving, shown, fresh>>

(* The effect of App for the rendered snapshot.                            *)
Effect ==
  /\ due /\ due' = FALSE
  /\ \/ /\ captured.version <= lastLive
        /\ UNCHANGED <<stream, thread, lastLive, accounted>>
     \/ /\ captured.version > lastLive /\ ~captured.overflowed
        /\ lastLive' = captured.version
        /\ handleLiveEvents(captured.batch)
        /\ accounted' = accounted \cup captured.batch
        /\ ack(captured.version)
     \/ /\ captured.version > lastLive /\ captured.overflowed
        /\ lastLive' = captured.version
        /\ ack(captured.version)
        /\ Open(selected) /\ UNCHANGED <<selected, moving>>
        /\ accounted' = accounted \cup InDb
  /\ UNCHANGED <<top, watcher, captured>>

(* The cursor moves in the sidebar; the thread is loaded when it rests.    *)
(* React runs a pending effect before it renders a choice.                 *)
Select(t) ==
  /\ mode # "off" /\ ~due
  /\ selected' = t /\ moving' = t
  /\ UNCHANGED <<top, watcher, stream, shown, view, fresh, cache, app>>

MoveRests ==
  /\ moving \in Threads
  /\ Open(moving)
  /\ moving' = none
  /\ UNCHANGED <<top, watcher, stream, selected, app>>

(* The filter takes the cursor to the first thread and back, and loads     *)
(* nothing until a match is committed.  A refresh is a commit of the       *)
(* thread under the cursor.                                                *)
Filter(t) ==
  /\ mode # "off" /\ ~due
  /\ selected' = t
  /\ UNCHANGED <<top, watcher, stream, moving, shown, view, fresh, cache, app>>

Commit(t) ==
  /\ mode # "off" /\ ~due
  /\ selected' = t
  /\ Open(t)
  /\ UNCHANGED <<top, watcher, stream, moving, app>>

(* An entry is thirty seconds old, or goes with a sweep, the byte budget   *)
(* or memory pressure, the open thread's too: its copy is not served any   *)
(* more, and what is still appended to it is never read.                   *)
EntryLapses(t) ==
  /\ t \in fresh
  /\ fresh' = fresh \ {t}
  /\ cache' = [cache EXCEPT ![t] = {}]
  /\ UNCHANGED <<top, watcher, stream, selected, moving, shown, view, app>>

(* App unmounts: stop, and the last listener detaches the stream.  A drain *)
(* that is under way goes on.                                              *)
stop ==
  /\ mode # "off"
  /\ mode' = "off" /\ debounce' = FALSE /\ due' = FALSE /\ moving' = none
  /\ UNCHANGED <<top, highWater, draining, rearm, page, emissions, asked, stream,
                 selected, shown, view, fresh, cache, captured, lastLive, accounted>>

-----------------------------------------------------------------------------
Next ==
  \/ RowWritten \/ FileEvent \/ DebounceFires \/ PollFires \/ WatchFails
  \/ DrainPage \/ DrainFails \/ Render \/ Effect \/ MoveRests \/ stop
  \/ \E t \in Threads : Select(t) \/ Filter(t) \/ Commit(t) \/ EntryLapses(t)

Spec == Init /\ [][Next]_vars

(* Intervals tick, React renders and runs its effects, and reads that are  *)
(* tried again and again succeed now and then.  Nothing is asked of file   *)
(* events or of the user.                                                  *)
Fairness ==
  /\ WF_vars(PollFires) /\ SF_vars(DrainPage)
  /\ WF_vars(Render) /\ WF_vars(Effect)

FairSpec == Spec /\ Fairness

-----------------------------------------------------------------------------
(* Types: every variable keeps the shape the classes declare.              *)
TypeOK ==
  /\ top \in 0..MaxRows
  /\ mode \in {"fs", "poll", "off"}
  /\ debounce \in BOOLEAN
  /\ highWater \in 0..MaxRows
  /\ draining \in BOOLEAN /\ rearm \in BOOLEAN
  /\ page \subseteq Visible
  /\ version \in Nat /\ pending \subseteq Visible /\ overflowed \in BOOLEAN
  /\ captured \in [version : Nat, batch : SUBSET Visible, overflowed : BOOLEAN]
  /\ due \in BOOLEAN /\ lastLive \in Nat
  /\ selected \in Threads /\ moving \in Threads \cup {none} /\ shown \in Threads
  /\ view \subseteq Visible
  /\ fresh \subseteq Threads
  /\ cache \in [Threads -> SUBSET Visible]
  /\ emissions \in [Rows -> Nat]
  /\ asked \in 0..MaxRows
  /\ accounted \subseteq Visible

(* Each row behind the cursor was emitted exactly once and none before it, *)
(* however drains, pages, failures and signals fall together               *)
(* ("overlapping reads would emit duplicate rows").                        *)
EachRowOnce ==
  \A r \in Visible : emissions[r] = IF r <= highWater THEN 1 ELSE 0

(* While App is mounted, every emitted row was handled, waits in the       *)
(* store, or the store says that it lost something: no batch disappears    *)
(* between two renders, with a stale ack, or at the cap.                   *)
NoSilentLoss ==
  mode # "off" => \/ overflowed
                  \/ Emitted \subseteq accounted \cup pending

(* An idle watcher whose last read did not fail has emitted every row that *)
(* existed when it was last signalled, also when the signal came in the    *)
(* middle of a drain.  Excepted: rows behind a hidden one, which makes a   *)
(* full page look like the last.                                           *)
IdleMeansCaughtUp ==
  ~draining => \A r \in Visible :
                 r <= asked /\ (\A h \in Hidden : h > r) => emissions[r] > 0

(* A message on the screen stays until another thread is loaded, wherever  *)
(* the cursor, the filter and the cache have been meanwhile: no load of a  *)
(* thread serves a copy older than what the stream has appended.           *)
ViewKeeps ==
  [][shown' = shown => {r \in view : ThreadOf[r] = shown} \subseteq view']_vars

(* App catches up again and again, by event or by poll, unless it is       *)
(* unmounted: every row in the table was handled, or reloaded ("the safety *)
(* poll covers the meantime").                                             *)
AppCatchesUp == []<>(InDb \subseteq accounted \/ mode = "off")

-----------------------------------------------------------------------------
Feed == INSTANCE RowFeed
          WITH written <- top, cursor <- highWater, told <- emissions

(* Drains, pages, re-armed rounds and failed reads add up to a cursor that *)
(* passes every row once and tells what it passes.                         *)
ImplementsFeed == Feed!FeedSpec
=============================================================================
