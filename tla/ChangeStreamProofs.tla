------------------------- MODULE ChangeStreamProofs -------------------------
(***************************************************************************)
(* Proofs about ChangeStream for any number of rows, of threads and of     *)
(* hidden rows, and any page size and cap.                                 *)
(***************************************************************************)
EXTENDS ChangeStream, FiniteSetTheorems, WellFoundedInduction, TLAPS

USE StreamAssumption

(* Sets of rows are finite and have a last element.                        *)
LEMMA RowsFinite ==
  ASSUME NEW S \in SUBSET Rows
  PROVE  IsFiniteSet(S) /\ Cardinality(S) \in Nat
  <1>1. IsFiniteSet(Rows)
    BY FS_Interval DEF Rows
  <1> QED BY <1>1, FS_Subset, FS_CardinalityType

LEMMA LastExists ==
  ASSUME NEW S \in SUBSET Rows, S # {}
  PROVE  Last(S) \in S /\ \A s \in S : s <= Last(S)
  <1> DEFINE Above(r) == {s \in S : s > r}
             T == {Above(r) : r \in S}
  <1>1. IsWellFoundedOn(StrictSubsetOrdering(S), FiniteSubsetsOf(S))
    BY FS_StrictSubsetOrderingWellFounded
  <1>2. T \subseteq FiniteSubsetsOf(S) /\ T # {}
    <2>1. \A r \in S : Above(r) \in SUBSET S /\ IsFiniteSet(Above(r))
      BY RowsFinite
    <2> QED BY <2>1 DEF FiniteSubsetsOf
  <1> HIDE DEF T
  <1>3. PICK X \in T : \A Y \in T : <<Y, X>> \notin StrictSubsetOrdering(S)
    BY <1>1, <1>2, WFMin
  <1>4. PICK r \in S : X = Above(r)
    BY <1>3 DEF T
  <1>5. \A s \in S : s <= r
    <2> SUFFICES ASSUME NEW q \in S, ~(q <= r) PROVE FALSE
      OBVIOUS
    <2>1. q > r /\ q \in Nat /\ r \in Nat
      BY DEF Rows
    <2>2. \A s \in S : s \in Nat /\ (s > q => s > r)
      BY <2>1 DEF Rows
    <2>4. q \in Above(r) /\ q \notin Above(q)
      BY <2>1
    <2>5. Above(q) \subseteq Above(r) /\ Above(r) \subseteq S
      BY <2>2
    <2>3. <<Above(q), Above(r)>> \in StrictSubsetOrdering(S)
      BY <2>4, <2>5 DEF StrictSubsetOrdering
    <2> QED BY <2>3, <1>3, <1>4 DEF T
  <1> QED BY <1>5 DEF Last

(* What a page and the newest events are made of.                          *)
LEMMA PageRows ==
  ASSUME NEW h \in Nat
  PROVE  /\ Page(h) \subseteq InDb
         /\ \A r \in Page(h) : r > h /\ \A s \in InDb : s > h /\ s < r => s \in Page(h)
  BY DEF Page, InDb, Visible, Rows

LEMMA NewestKeeps ==
  ASSUME NEW S \in SUBSET Rows
  PROVE  /\ Newest(S) \subseteq S
         /\ Cardinality(S) <= MaxPending => Newest(S) = S
  <1>1. ASSUME NEW r \in S, Cardinality(S) <= MaxPending
        PROVE  Cardinality({s \in S : s > r}) < MaxPending
    <2> DEFINE A == {s \in S : s > r}
    <2>1. A \in SUBSET S /\ r \notin A
      BY DEF Rows
    <2>2. Cardinality(A) <= Cardinality(S) /\ Cardinality(A) # Cardinality(S)
      BY <2>1, RowsFinite, FS_Subset
    <2>3. Cardinality(A) \in Nat /\ Cardinality(S) \in Nat
      BY <2>1, RowsFinite
    <2> QED BY <2>2, <2>3, <1>1
  <1> QED BY <1>1 DEF Newest

-----------------------------------------------------------------------------
(* Types.                                                                  *)
LEMMA LoadedType ==
  ASSUME TypeOK, NEW t \in Threads
  PROVE  Loaded(t) \subseteq Visible
  BY DEF TypeOK, Loaded, InDb

LEMMA OpenType ==
  ASSUME TypeOK, NEW t \in Threads, Open(t)
  PROVE  /\ shown' \in Threads /\ view' \subseteq Visible
         /\ fresh' \subseteq Threads
         /\ cache' \in [Threads -> SUBSET Visible]
  BY LoadedType DEF TypeOK, Open

LEMMA EmitType ==
  ASSUME TypeOK, NEW S \in SUBSET Visible, emit(S)
  PROVE  /\ emissions' \in [Rows -> Nat] /\ version' \in Nat
         /\ pending' \subseteq Visible /\ overflowed' \in BOOLEAN
  <1>1. Newest(pending \cup S) \subseteq pending \cup S
    BY NewestKeeps DEF TypeOK, Visible
  <1>2. emissions' \in [Rows -> Nat]
    BY DEF TypeOK, emit
  <1>3. version' \in Nat /\ pending' \subseteq Visible /\ overflowed' \in BOOLEAN
    <2>1. CASE S # {} /\ mode # "off"
      <3>1. version' = version + 1 /\ onBusBatch(S)
        BY <2>1 DEF emit
      <3>2. version' \in Nat
        BY <3>1 DEF TypeOK
      <3>3. pending' \subseteq Visible
        BY <3>1, <1>1 DEF TypeOK, onBusBatch
      <3>4. overflowed' \in BOOLEAN
        BY <3>1, Zenon DEF onBusBatch
      <3> QED BY <3>2, <3>3, <3>4
    <2>2. CASE ~(S # {} /\ mode # "off")
      BY <2>2 DEF TypeOK, emit, stream
    <2> QED BY <2>1, <2>2
  <1> QED BY <1>2, <1>3

LEMMA TypeStep ==
  ASSUME TypeOK, [Next]_vars
  PROVE  TypeOK'
  <1> USE DEF TypeOK
  <1>p. \A h \in Nat : Page(h) \subseteq Visible /\ Page(h)' \subseteq Visible
    BY DEF Page, InDb
  <1>1. CASE RowWritten
    BY <1>1 DEF RowWritten, watcher, stream, thread, app
  <1>2. CASE FileEvent
    BY <1>2 DEF FileEvent, stream, thread, app
  <1>3. ASSUME drain
        PROVE  /\ asked' \in 0..MaxRows /\ draining' \in BOOLEAN
               /\ rearm' \in BOOLEAN /\ page' \subseteq Visible
    <2>1. asked' \in 0..MaxRows
      BY <1>3 DEF drain
    <2>2. CASE draining
      BY <1>3, <2>1, <2>2 DEF drain
    <2>3. CASE ~draining
      <3>1. highWater \in Nat
        OBVIOUS
      <3>2. page' = Page(highWater) /\ draining' = TRUE /\ rearm' = rearm
        BY <1>3, <2>3 DEF drain
      <3> QED BY <3>1, <3>2, <2>1, <1>p
    <2> QED BY <2>2, <2>3
  <1>4. CASE DebounceFires
    BY <1>3, <1>4 DEF DebounceFires, stream, thread, app
  <1>5. CASE PollFires
    BY <1>3, <1>5 DEF PollFires, stream, thread, app
  <1>6. CASE WatchFails
    BY <1>6 DEF WatchFails, stream, thread, app
  <1>7. ASSUME NEW h \in Nat, Finish(h)
        PROVE  draining' \in BOOLEAN /\ rearm' \in BOOLEAN /\ page' \subseteq Visible
    BY <1>7, <1>p DEF Finish
  <1>8. CASE DrainPage
    <2>1. highWater' \in 0..MaxRows
      BY <1>8, LastExists DEF DrainPage, Visible, Rows
    <2>2. highWater' \in Nat
      BY <2>1
    <2>3. draining' \in BOOLEAN /\ rearm' \in BOOLEAN /\ page' \subseteq Visible
      <3>1. CASE Cardinality(page) = MaxBatch
        BY <3>1, <1>8, <2>2, <1>p DEF DrainPage
      <3>2. CASE Cardinality(page) # MaxBatch
        <4>1. Finish(highWater')
          BY <3>2, <1>8 DEF DrainPage
        <4> QED BY <4>1, <2>2, <1>7
      <3> QED BY <3>1, <3>2
    <2>4. emit(page) /\ page \in SUBSET Visible
      BY <1>8 DEF DrainPage
    <2>5. /\ emissions' \in [Rows -> Nat] /\ version' \in Nat
          /\ pending' \subseteq Visible /\ overflowed' \in BOOLEAN
      BY <2>4, EmitType
    <2> QED BY <1>8, <2>1, <2>3, <2>5 DEF DrainPage, thread, app
  <1>9. CASE DrainFails
    BY <1>9, <1>7 DEF DrainFails, stream, thread, app
  <1>10. CASE Render
    BY <1>10 DEF Render, watcher, stream, thread
  <1>11. CASE Effect
    <2>1. CASE captured.version <= lastLive
      <3>1. ~(captured.version > lastLive)
        BY <2>1
      <3>2. /\ due' = FALSE
            /\ UNCHANGED <<stream, thread, lastLive, accounted, top, watcher, captured>>
        BY <1>11, <3>1, Zenon DEF Effect
      <3> QED BY <3>2 DEF watcher, stream, thread
    <2>2. CASE captured.version > lastLive
      <3>1. /\ version' \in Nat /\ pending' \subseteq Visible /\ overflowed' \in BOOLEAN
            /\ lastLive' \in Nat /\ due' \in BOOLEAN /\ accounted' \subseteq Visible
        BY <1>11, <2>2 DEF Effect, ack, InDb, stream
      <3>2. /\ selected' \in Threads /\ moving' \in Threads \cup {none}
            /\ shown' \in Threads /\ view' \subseteq Visible
            /\ fresh' \subseteq Threads
            /\ cache' \in [Threads -> SUBSET Visible]
        <4>1. CASE captured.overflowed
          BY <4>1, <2>2, <1>11, OpenType DEF Effect
        <4>2. CASE ~captured.overflowed
          BY <4>2, <2>2, <1>11 DEF Effect, handleLiveEvents
        <4> QED BY <4>1, <4>2
      <3> QED BY <1>11, <3>1, <3>2 DEF Effect, watcher
    <2> QED BY <2>1, <2>2
  <1>12. ASSUME NEW t \in Threads, Select(t) \/ Filter(t) PROVE TypeOK'
    BY <1>12 DEF Select, Filter, watcher, stream, app
  <1>16. ASSUME NEW t \in Threads, Commit(t) PROVE TypeOK'
    BY <1>16, OpenType DEF Commit, watcher, stream, app
  <1>17. CASE MoveRests
    BY <1>17, OpenType DEF MoveRests, watcher, stream, app
  <1>13. ASSUME NEW t \in Threads, EntryLapses(t) PROVE TypeOK'
    BY <1>13 DEF EntryLapses, watcher, stream, app
  <1>14. CASE stop
    BY <1>14 DEF stop, stream, thread
  <1>15. CASE UNCHANGED vars
    BY <1>15 DEF vars, watcher, stream, thread, app
  <1> QED BY <1>1, <1>2, <1>4, <1>5, <1>6, <1>8, <1>9, <1>10, <1>11, <1>12,
             <1>13, <1>14, <1>15, <1>16, <1>17 DEF Next

LEMMA TypeInit == Init => TypeOK
  <1>1. 0 \in 0..MaxRows /\ 0 \in Nat
    BY StreamAssumption
  <1> SUFFICES ASSUME Init PROVE TypeOK
    OBVIOUS
  <1>2. /\ top \in 0..MaxRows /\ highWater \in 0..MaxRows /\ asked \in 0..MaxRows
        /\ version \in Nat /\ lastLive \in Nat
    BY <1>1 DEF Init
  <1>3. /\ page \subseteq Visible /\ pending \subseteq Visible
        /\ view \subseteq Visible /\ accounted \subseteq Visible
        /\ captured \in [version : Nat, batch : SUBSET Visible, overflowed : BOOLEAN]
    BY <1>1 DEF Init
  <1>4. /\ selected \in Threads /\ cache \in [Threads -> SUBSET Visible]
        /\ moving \in Threads \cup {none} /\ shown \in Threads
        /\ fresh \subseteq Threads
        /\ emissions \in [Rows -> Nat]
    BY <1>1 DEF Init
  <1>5. /\ mode \in {"fs", "poll", "off"} /\ debounce \in BOOLEAN
        /\ draining \in BOOLEAN /\ rearm \in BOOLEAN /\ overflowed \in BOOLEAN
        /\ due \in BOOLEAN
    BY DEF Init
  <1> QED BY <1>2, <1>3, <1>4, <1>5 DEF TypeOK

(* Types: every variable keeps its shape, for any table and page size.     *)
THEOREM TypeCorrect == Spec => []TypeOK
  <1> QED BY TypeInit, TypeStep, PTL DEF Spec

-----------------------------------------------------------------------------
(* The cursor.  The read in flight holds the rows just behind the cursor,  *)
(* which stays where the last emitted row is.                              *)
PageFits ==
  /\ page \subseteq InDb
  /\ \A r \in page :
       /\ r > highWater
       /\ \A s \in Visible : s > highWater /\ s < r => s \in page

CursorInv ==
  /\ highWater <= top
  /\ rearm => draining
  /\ ~draining => page = {}
  /\ PageFits
  /\ EachRowOnce

(* A page read at the cursor fits it.                                      *)
LEMMA PageAtCursor ==
  ASSUME TypeOK, TypeOK', page' = Page(highWater)', UNCHANGED top
  PROVE  PageFits'
  <1>1. highWater' \in Nat /\ top \in Nat /\ \A r \in Visible : r \in Nat
    BY StreamAssumption DEF TypeOK, Visible, Rows
  <1>2. page' = {r \in Visible : r <= top /\ r > highWater' /\ r <= highWater' + MaxBatch}
    BY DEF Page, InDb
  <1>3. MaxBatch \in Nat
    BY StreamAssumption
  <1>4. page' \subseteq InDb'
    BY <1>2 DEF InDb
  <1>5. ASSUME NEW r \in page', NEW s \in Visible, s > highWater', s < r
        PROVE  s \in page'
    BY <1>1, <1>2, <1>3, <1>5
  <1>6. \A r \in page' : r > highWater'
    BY <1>2
  <1> QED BY <1>4, <1>5, <1>6 DEF PageFits

(* What one resumed drain does to the cursor and to what was emitted.      *)
LEMMA CursorMoves ==
  ASSUME TypeOK, CursorInv, DrainPage
  PROVE  \/ UNCHANGED <<highWater, emissions>>
         \/ /\ highWater' \in (highWater + 1)..top
            /\ page = {r \in Visible : r > highWater /\ r <= highWater'}
            /\ emissions' = [r \in Rows |-> IF r \in page THEN emissions[r] + 1
                                                          ELSE emissions[r]]
  <1>1. emissions' = [r \in Rows |-> IF r \in page THEN emissions[r] + 1
                                                   ELSE emissions[r]]
    BY DEF DrainPage, emit
  <1>2. CASE page = {}
    <2>1. highWater' = highWater
      BY <1>2 DEF DrainPage
    <2>2. emissions' = emissions
      BY <1>1, <1>2 DEF TypeOK
    <2> QED BY <2>1, <2>2
  <1>3. CASE page # {}
    <2>1. highWater' = Last(page)
      BY <1>3 DEF DrainPage
    <2>2. page \in SUBSET Rows
      BY DEF TypeOK, Visible
    <2>3. highWater' \in page /\ \A s \in page : s <= highWater'
      BY <1>3, <2>1, <2>2, LastExists
    <2>4. highWater' \in Nat /\ highWater \in Nat /\ top \in Nat
      BY <2>3, StreamAssumption DEF TypeOK, Visible, Rows
    <2>5. highWater' > highWater /\ highWater' <= top
      BY <2>3 DEF CursorInv, PageFits, InDb
    <2>6. ASSUME NEW r \in Visible, r > highWater, r <= highWater'
          PROVE  r \in page
      <3>1. r \in Nat
        BY DEF Visible, Rows
      <3>2. r = highWater' \/ r < highWater'
        BY <2>6, <2>4, <3>1
      <3> QED BY <2>6, <3>2, <2>3 DEF CursorInv, PageFits
    <2>7. \A r \in page : r \in Visible /\ r > highWater /\ r <= highWater'
      BY <2>3 DEF CursorInv, PageFits, TypeOK
    <2> QED BY <1>1, <2>4, <2>5, <2>6, <2>7
  <1> QED BY <1>2, <1>3

LEMMA PageBehind ==
  ASSUME TypeOK, CursorInv, DrainPage
  PROVE  /\ highWater' \in Nat /\ highWater <= highWater'
         /\ \A r \in page : r <= highWater'
  <1>1. highWater \in Nat /\ top \in Nat
    BY StreamAssumption DEF TypeOK
  <1>2. CASE page = {}
    BY <1>1, <1>2 DEF DrainPage
  <1>3. CASE page # {}
    <2>1. page \in SUBSET Rows /\ highWater' = Last(page)
      BY <1>3 DEF TypeOK, Visible, DrainPage
    <2>2. highWater' \in page /\ \A r \in page : r <= highWater'
      BY <1>3, <2>1, LastExists
    <2>3. highWater' > highWater /\ highWater' \in Nat
      BY <2>1, <2>2 DEF CursorInv, PageFits, Rows
    <2> QED BY <1>1, <2>2, <2>3
  <1> QED BY <1>2, <1>3

LEMMA CursorStep ==
  ASSUME TypeOK, TypeOK', CursorInv, [Next]_vars
  PROVE  CursorInv'
  <1>0. /\ highWater \in Nat /\ top \in Nat /\ highWater' \in Nat /\ top' \in Nat
        /\ \A r \in Visible : r \in Nat
    BY StreamAssumption DEF TypeOK, Visible, Rows
  <1>1. ASSUME UNCHANGED <<highWater, draining, rearm, page, emissions>>,
               top' = top \/ top' = top + 1
        PROVE  CursorInv'
    <2>1. highWater' <= top' /\ top <= top'
      BY <1>0, <1>1 DEF CursorInv
    <2>2. page' \subseteq InDb'
      BY <1>0, <1>1, <2>1 DEF CursorInv, PageFits, InDb
    <2>3. PageFits'
      BY <2>2, <1>1 DEF CursorInv, PageFits
    <2>4. EachRowOnce'
      BY <1>1 DEF CursorInv, EachRowOnce
    <2> QED BY <1>1, <2>1, <2>3, <2>4 DEF CursorInv
  <1>2. ASSUME UNCHANGED <<top, highWater, emissions>>, PageFits',
               rearm' => draining', ~draining' => page' = {}
        PROVE  CursorInv'
    <2>1. EachRowOnce'
      BY <1>2 DEF CursorInv, EachRowOnce
    <2> QED BY <1>2, <2>1 DEF CursorInv
  <1>3. ASSUME drain, UNCHANGED <<top, highWater, emissions>> PROVE CursorInv'
    <2>1. CASE draining
      <3>1. draining' /\ page' = page
        BY <1>3, <2>1 DEF drain
      <3>2. PageFits'
        BY <1>3, <3>1 DEF CursorInv, PageFits, InDb
      <3> QED BY <1>2, <1>3, <3>1, <3>2
    <2>2. CASE ~draining
      <3>1. draining' /\ page' = Page(highWater)
        BY <1>3, <2>2 DEF drain
      <3>2. page' = Page(highWater)'
        BY <1>3, <3>1 DEF Page, InDb
      <3> QED BY <1>2, <1>3, <3>1, <3>2, PageAtCursor
    <2> QED BY <2>1, <2>2
  <1>4. ASSUME draining, Finish(highWater'), UNCHANGED top
        PROVE  /\ PageFits'
               /\ rearm' => draining'
               /\ ~draining' => page' = {}
    <2>1. CASE rearm
      <3>1. page' = Page(highWater') /\ ~rearm' /\ draining' = draining
        BY <1>4, <2>1 DEF Finish
      <3>2. page' = Page(highWater)'
        BY <1>4, <3>1 DEF Page, InDb
      <3> QED BY <1>4, <3>1, <3>2, PageAtCursor
    <2>2. CASE ~rearm
      <3>1. ~draining' /\ page' = {} /\ ~rearm'
        BY <1>4, <2>2 DEF Finish
      <3> QED BY <3>1 DEF PageFits
    <2> QED BY <2>1, <2>2
  <1>5. CASE DrainPage
    <2>1. /\ PageFits'
          /\ rearm' => draining'
          /\ ~draining' => page' = {}
      <3>1. draining /\ UNCHANGED top
        BY <1>5 DEF DrainPage
      <3>2. CASE Cardinality(page) = MaxBatch
        <4>1. page' = Page(highWater') /\ draining' = draining
          BY <1>5, <3>2 DEF DrainPage
        <4>2. page' = Page(highWater)'
          BY <3>1, <4>1 DEF Page, InDb
        <4> QED BY <3>1, <4>1, <4>2, PageAtCursor
      <3>3. CASE Cardinality(page) # MaxBatch
        <4>1. Finish(highWater')
          BY <1>5, <3>3 DEF DrainPage
        <4> QED BY <3>1, <4>1, <1>4
      <3> QED BY <3>2, <3>3
    <2>2. UNCHANGED top
      BY <1>5 DEF DrainPage
    <2>3. CASE UNCHANGED <<highWater, emissions>>
      BY <1>2, <2>1, <2>2, <2>3
    <2>4. CASE /\ highWater' \in (highWater + 1)..top
               /\ page = {r \in Visible : r > highWater /\ r <= highWater'}
               /\ emissions' = [r \in Rows |-> IF r \in page THEN emissions[r] + 1
                                                             ELSE emissions[r]]
      <3>1. highWater' > highWater /\ highWater' <= top'
        BY <2>4, <2>2, <1>0
      <3>2. ASSUME NEW r \in Visible
            PROVE  emissions'[r] = IF r <= highWater' THEN 1 ELSE 0
        <4>1. emissions'[r] = IF r \in page THEN emissions[r] + 1 ELSE emissions[r]
          BY <2>4 DEF Visible
        <4>2. emissions[r] = IF r <= highWater THEN 1 ELSE 0
          BY DEF CursorInv, EachRowOnce
        <4>3. r \in page <=> r > highWater /\ r <= highWater'
          BY <2>4
        <4> QED BY <4>1, <4>2, <4>3, <3>1, <1>0
      <3> QED BY <3>1, <3>2, <2>1 DEF CursorInv, EachRowOnce
    <2> QED BY <1>5, CursorMoves, <2>3, <2>4
  <1>6. CASE DrainFails
    <2>1. draining /\ Finish(highWater') /\ UNCHANGED <<top, highWater, emissions>>
      BY <1>6 DEF DrainFails
    <2> QED BY <2>1, <1>2, <1>4
  <1>7. CASE DebounceFires \/ PollFires
    BY <1>7, <1>3 DEF DebounceFires, PollFires
  <1>8. CASE RowWritten
    BY <1>8, <1>1 DEF RowWritten, watcher
  <1>9. CASE FileEvent \/ WatchFails \/ Render \/ Effect \/ MoveRests \/ stop
    BY <1>9, <1>1 DEF FileEvent, WatchFails, Render, Effect, MoveRests, stop, watcher
  <1>10. ASSUME NEW t \in Threads, Select(t) \/ Filter(t) \/ Commit(t) \/ EntryLapses(t)
         PROVE  CursorInv'
    BY <1>10, <1>1 DEF Select, Filter, Commit, EntryLapses, watcher
  <1>11. CASE UNCHANGED vars
    BY <1>11, <1>1 DEF vars, watcher
  <1> QED BY <1>5, <1>6, <1>7, <1>8, <1>9, <1>10, <1>11 DEF Next

LEMMA CursorInit == Init => CursorInv
  <1> SUFFICES ASSUME Init PROVE CursorInv
    OBVIOUS
  <1>1. \A r \in Visible : r \in Nat /\ r > 0
    BY DEF Visible, Rows
  <1>2. EachRowOnce
    BY <1>1 DEF Init, EachRowOnce, Visible
  <1>3. PageFits
    BY DEF Init, PageFits
  <1> QED BY <1>2, <1>3 DEF Init, CursorInv

(* Every row behind the cursor was emitted exactly once, whatever signals, *)
(* pages, failed reads and re-armed rounds fall together.                  *)
THEOREM EmittedOnce == Spec => []EachRowOnce
  <1>1. TypeOK /\ CursorInv /\ [Next]_vars => TypeOK' /\ CursorInv'
    BY TypeStep, CursorStep
  <1>2. CursorInv => EachRowOnce
    BY DEF CursorInv
  <1>3. Init => TypeOK
    BY TypeInit
  <1> QED BY <1>1, <1>2, <1>3, CursorInit, PTL DEF Spec

(* The watcher implements the feed: each step of it is an appended row, an *)
(* advance of the cursor that tells what it passes once, or nothing.       *)
THEOREM RefinesFeed == Spec => ImplementsFeed
  <1>1. Init => Feed!FeedInit
    BY DEF Init, Feed!FeedInit, Rows
  <1>2. ASSUME TypeOK, CursorInv, [Next]_vars
        PROVE  [Feed!FeedNext]_(Feed!feedVars)
    <2>1. CASE DrainPage
      <3>1. UNCHANGED top
        BY <2>1 DEF DrainPage
      <3>2. CASE UNCHANGED <<highWater, emissions>>
        BY <3>1, <3>2 DEF Feed!feedVars
      <3>3. CASE /\ highWater' \in (highWater + 1)..top
                 /\ page = {r \in Visible : r > highWater /\ r <= highWater'}
                 /\ emissions' = [r \in Rows |-> IF r \in page THEN emissions[r] + 1
                                                               ELSE emissions[r]]
        <4>1. highWater \in Nat /\ top \in Nat /\ highWater' \in Nat
          BY <1>2, <3>3, StreamAssumption DEF TypeOK
        <4>2. \A r \in Rows : r \in page <=> r \in (highWater + 1)..highWater' /\ r \notin Hidden
          BY <4>1, <3>3 DEF Visible, Rows
        <4>3. emissions' = [r \in 1..MaxRows |->
                              IF r \in (highWater + 1)..highWater' /\ r \notin Hidden
                              THEN emissions[r] + 1 ELSE emissions[r]]
          BY <4>2, <3>3 DEF Rows
        <4>4. highWater' \in 1..MaxRows
          BY <1>2, <4>1, <3>3, StreamAssumption DEF TypeOK
        <4>5. Feed!Advance(highWater')
          BY <4>3, <3>3, <3>1 DEF Feed!Advance
        <4> QED BY <4>4, <4>5 DEF Feed!FeedNext
      <3> QED BY <2>1, <1>2, CursorMoves, <3>2, <3>3
    <2>2. CASE RowWritten
      BY <2>2 DEF RowWritten, watcher, Feed!FeedNext, Feed!AppendRow
    <2>3. ASSUME UNCHANGED <<top, highWater, emissions>>
          PROVE  [Feed!FeedNext]_(Feed!feedVars)
      BY <2>3 DEF Feed!feedVars
    <2>4. CASE \/ FileEvent \/ DebounceFires \/ PollFires \/ WatchFails
               \/ DrainFails \/ Render \/ Effect \/ MoveRests \/ stop
      BY <2>3, <2>4 DEF FileEvent, DebounceFires, PollFires, WatchFails,
                        DrainFails, Render, Effect, MoveRests, stop, watcher
    <2>5. ASSUME NEW t \in Threads, Select(t) \/ Filter(t) \/ Commit(t) \/ EntryLapses(t)
          PROVE  [Feed!FeedNext]_(Feed!feedVars)
      BY <2>3, <2>5 DEF Select, Filter, Commit, EntryLapses, watcher
    <2>6. CASE UNCHANGED vars
      BY <2>3, <2>6 DEF vars, watcher
    <2> QED BY <1>2, <2>1, <2>2, <2>4, <2>5, <2>6 DEF Next
  <1>3. TypeOK /\ CursorInv /\ [Next]_vars => TypeOK' /\ CursorInv'
    BY TypeStep, CursorStep
  <1>4. Init => TypeOK
    BY TypeInit
  <1> QED BY <1>1, <1>2, <1>3, <1>4, CursorInit, PTL DEF Spec, ImplementsFeed, Feed!FeedSpec
-----------------------------------------------------------------------------
(* The store.  A snapshot no older than the store holds all the store      *)
(* holds, so that an ack for it drops nothing unhandled.                   *)
StoreInv ==
  /\ captured.version <= version
  /\ captured.version = version => /\ pending \subseteq captured.batch
                                   /\ overflowed => captured.overflowed
  /\ NoSilentLoss

LEMMA EmittedInDb ==
  ASSUME TypeOK, CursorInv
  PROVE  Emitted \subseteq InDb
  <1>1. \A r \in Visible : emissions[r] > 0 => r <= highWater
    BY DEF CursorInv, EachRowOnce
  <1>2. highWater \in Nat /\ top \in Nat /\ highWater <= top /\ \A r \in Visible : r \in Nat
    BY StreamAssumption DEF TypeOK, CursorInv, Visible, Rows
  <1> QED BY <1>1, <1>2 DEF Emitted, InDb

LEMMA StoreStep ==
  ASSUME TypeOK, CursorInv, StoreInv, [Next]_vars
  PROVE  StoreInv'
  <1>t. /\ version \in Nat /\ captured.version \in Nat /\ lastLive \in Nat
        /\ pending \subseteq Visible /\ captured.batch \subseteq Visible
    BY DEF TypeOK
  <1>1. ASSUME UNCHANGED <<stream, captured, accounted, emissions>>,
               mode' # "off" => mode # "off"
        PROVE  StoreInv'
    BY <1>1 DEF StoreInv, NoSilentLoss, Emitted, stream
  <1>2. CASE DrainPage
    <2>1. UNCHANGED <<mode, captured, accounted>> /\ emit(page)
      BY <1>2 DEF DrainPage, app
    <2>2. page \subseteq Visible
      BY DEF TypeOK
    <2>3. CASE page # {} /\ mode # "off"
      <3> DEFINE All == pending \cup page
      <3>1. version' = version + 1 /\ onBusBatch(page)
        BY <2>1, <2>3 DEF emit
      <3>2. Emitted' \subseteq Emitted \cup page
        BY <2>1 DEF emit, Emitted, Visible
      <3>3. All \in SUBSET Rows
        BY <2>2, <1>t DEF Visible
      <3>4. overflowed' \/ (Cardinality(All) <= MaxPending /\ ~overflowed)
        <4>1. overflowed' = (overflowed \/ Cardinality(All) > MaxPending)
          BY <3>1 DEF onBusBatch
        <4>2. Cardinality(All) > MaxPending \/ Cardinality(All) <= MaxPending
          BY <3>3, RowsFinite, StreamAssumption
        <4> QED BY <4>1, <4>2, Zenon
      <3>5. ~overflowed' => pending' = All
        BY <3>1, <3>3, <3>4, NewestKeeps DEF onBusBatch
      <3>6. NoSilentLoss'
        BY <2>1, <2>3, <3>2, <3>4, <3>5 DEF StoreInv, NoSilentLoss
      <3>7. captured'.version <= version' /\ captured'.version # version'
        BY <2>1, <3>1, <1>t DEF StoreInv
      <3> QED BY <3>6, <3>7 DEF StoreInv
    <2>4. CASE page = {}
      <3>1. Emitted' = Emitted /\ UNCHANGED stream
        BY <2>1, <2>4 DEF emit, Emitted, Visible, TypeOK
      <3> QED BY <2>1, <3>1 DEF StoreInv, NoSilentLoss, stream
    <2>5. CASE mode = "off"
      <3>1. UNCHANGED stream
        BY <2>1, <2>5 DEF emit
      <3> QED BY <2>1, <2>5, <3>1 DEF StoreInv, NoSilentLoss, stream
    <2> QED BY <2>3, <2>4, <2>5
  <1>3. CASE Render
    <2>1. /\ captured'.version = version /\ captured'.batch = pending
          /\ captured'.overflowed = overflowed
      BY <1>3 DEF Render
    <2>2. UNCHANGED <<version, pending, overflowed, accounted, emissions, mode>>
      BY <1>3 DEF Render, watcher, stream
    <2> QED BY <2>1, <2>2, <1>t DEF StoreInv, NoSilentLoss, Emitted
  <1>4. CASE Effect
    <2>1. UNCHANGED <<mode, emissions, captured>>
      BY <1>4 DEF Effect, watcher
    <2>2. CASE captured.version <= lastLive
      <3>1. ~(captured.version > lastLive)
        BY <2>2, <1>t
      <3>2. UNCHANGED <<stream, accounted>>
        BY <1>4, <3>1, Zenon DEF Effect
      <3> QED BY <1>1, <2>1, <3>2
    <2>3. CASE captured.version > lastLive
      <3>1. /\ ack(captured.version)
            /\ accounted \subseteq accounted'
            /\ IF captured.overflowed THEN InDb \subseteq accounted'
                                      ELSE captured.batch \subseteq accounted'
        BY <1>4, <2>3, <1>t DEF Effect
      <3>2. Emitted' = Emitted /\ UNCHANGED version
        BY <2>1, <3>1 DEF Emitted, ack
      <3>3. CASE captured.version < version
        BY <2>1, <3>1, <3>2, <3>3, <1>t DEF StoreInv, NoSilentLoss, ack
      <3>4. CASE captured.version = version
        <4>1. pending' = {} /\ overflowed' = FALSE
          BY <3>1, <3>4, <1>t DEF ack
        <4>2. mode # "off" => Emitted \subseteq accounted'
          <5>1. CASE captured.overflowed
            BY <5>1, <3>1, EmittedInDb
          <5>2. CASE ~captured.overflowed
            BY <5>2, <3>1, <3>4 DEF StoreInv, NoSilentLoss
          <5> QED BY <5>1, <5>2
        <4> QED BY <4>1, <4>2, <3>2, <2>1 DEF StoreInv, NoSilentLoss
      <3> QED BY <3>3, <3>4, <1>t DEF StoreInv
    <2> QED BY <2>2, <2>3, <1>t
  <1>5. CASE RowWritten \/ FileEvent \/ DebounceFires \/ PollFires \/ WatchFails
    BY <1>1, <1>5 DEF RowWritten, FileEvent, DebounceFires, PollFires, WatchFails,
                      watcher, app
  <1>6. CASE DrainFails \/ MoveRests \/ stop
    BY <1>1, <1>6 DEF DrainFails, MoveRests, stop, watcher, app
  <1>7. ASSUME NEW t \in Threads, Select(t) \/ Filter(t) \/ Commit(t) \/ EntryLapses(t)
        PROVE  StoreInv'
    BY <1>1, <1>7 DEF Select, Filter, Commit, EntryLapses, watcher, app
  <1>8. CASE UNCHANGED vars
    BY <1>1, <1>8 DEF vars, watcher, app
  <1> QED BY <1>2, <1>3, <1>4, <1>5, <1>6, <1>7, <1>8 DEF Next

LEMMA StoreInit == Init => StoreInv
  <1> SUFFICES ASSUME Init PROVE StoreInv
    OBVIOUS
  <1>1. Emitted = {}
    BY DEF Init, Emitted, Visible
  <1>2. captured.version = 0 /\ version = 0 /\ pending = {} /\ overflowed = FALSE
    BY DEF Init
  <1> QED BY <1>1, <1>2 DEF StoreInv, NoSilentLoss

(* No batch disappears between the store and App: while App is mounted,    *)
(* what was emitted was handled, is pending, or is known to be lost.       *)
THEOREM NothingLostSilently == Spec => []NoSilentLoss
  <1>1. TypeOK /\ CursorInv /\ StoreInv /\ [Next]_vars
          => TypeOK' /\ CursorInv' /\ StoreInv'
    BY TypeStep, CursorStep, StoreStep
  <1>2. StoreInv => NoSilentLoss
    BY DEF StoreInv
  <1>3. Init => TypeOK /\ CursorInv /\ StoreInv
    BY TypeInit, CursorInit, StoreInit
  <1> QED BY <1>1, <1>2, <1>3, PTL DEF Spec

-----------------------------------------------------------------------------
(* The view.  What is on the screen is in the table, and in the copy of    *)
(* its thread that a load would serve.                                     *)
Written(t) == {r \in InDb : ThreadOf[r] = t}

ViewInv ==
  /\ pending \subseteq InDb /\ captured.batch \subseteq InDb
  /\ view \subseteq InDb
  /\ \A t \in Threads : cache[t] \subseteq Written(t)
  /\ \A t \in fresh : view \cap Written(t) \subseteq cache[t]

ViewKept == shown' = shown => {r \in view : ThreadOf[r] = shown} \subseteq view'

LEMMA ViewStep ==
  ASSUME TypeOK, CursorInv, ViewInv, [Next]_vars
  PROVE  ViewInv' /\ ViewKept
  <1>t. /\ selected \in Threads /\ shown \in Threads /\ fresh \subseteq Threads
        /\ cache \in [Threads -> SUBSET Visible]
        /\ top \in Nat /\ \A r \in Visible : r \in Nat
    BY StreamAssumption DEF TypeOK, Visible, Rows
  <1>w. ASSUME UNCHANGED top
        PROVE  InDb' = InDb /\ \A u : Written(u)' = Written(u)
    BY <1>w DEF InDb, Written
  <1>1. ASSUME UNCHANGED <<pending, captured, shown, view, fresh, cache, top>>
        PROVE  ViewInv' /\ ViewKept
    BY <1>1, <1>w DEF ViewInv, ViewKept
  <1>2. CASE RowWritten
    <2>1. UNCHANGED <<pending, captured, thread>> /\ top' = top + 1
      BY <1>2 DEF RowWritten, stream, app
    <2>2. InDb \subseteq InDb'
      BY <2>1, <1>t DEF InDb
    <2>3. \A t : Written(t) \subseteq Written(t)'
      BY <2>2 DEF Written
    <2>4. ASSUME NEW t \in Threads
          PROVE  view \cap Written(t)' \subseteq view \cap Written(t)
      BY DEF ViewInv, Written
    <2> QED BY <2>1, <2>2, <2>3, <2>4, <1>t DEF ViewInv, ViewKept, thread
  <1>3. ASSUME NEW t \in Threads, Open(t), UNCHANGED top,
               pending' \subseteq pending, UNCHANGED captured
        PROVE  ViewInv' /\ ViewKept
    <2>1. Loaded(t) \subseteq Written(t)
      BY <1>3 DEF Loaded, Written, ViewInv
    <2>2. /\ shown' = t /\ view' = Loaded(t) /\ cache'[t] = Loaded(t)
          /\ fresh' = fresh \cup {t}
          /\ \A u \in Threads : u # t => cache'[u] = cache[u]
      BY <1>3, <1>t DEF Open
    <2>3. ViewKept
      BY <2>2 DEF ViewKept, ViewInv, Loaded, Written
    <2>4. \A u \in Threads : cache'[u] \subseteq Written(u)
      BY <2>1, <2>2 DEF ViewInv
    <2>5. ASSUME NEW u \in Threads, u # t PROVE view' \cap Written(u) = {}
      BY <2>1, <2>2, <2>5 DEF Written
    <2>6. \A u \in fresh' : view' \cap Written(u) \subseteq cache'[u]
      BY <2>2, <2>5, <1>t
    <2>7. view' \subseteq InDb
      BY <2>1, <2>2 DEF Written
    <2> QED BY <1>3, <1>w, <2>3, <2>4, <2>6, <2>7 DEF ViewInv
  <1>4. CASE DrainPage
    <2>1. UNCHANGED <<top, captured, thread>> /\ emit(page)
      BY <1>4 DEF DrainPage, app
    <2>2. page \subseteq InDb /\ pending \cup page \in SUBSET Rows
      BY DEF CursorInv, PageFits, TypeOK, Visible
    <2>3. pending' \subseteq InDb
      <3>1. Newest(pending \cup page) \subseteq pending \cup page
        BY <2>2, NewestKeeps
      <3>2. pending' = Newest(pending \cup page) \/ pending' = pending
        BY <2>1 DEF emit, onBusBatch, stream
      <3> QED BY <2>2, <3>1, <3>2 DEF ViewInv
    <2> QED BY <2>1, <2>3, <1>w DEF ViewInv, ViewKept, thread
  <1>5. CASE Render
    <2>1. UNCHANGED <<top, pending, thread>> /\ captured'.batch = pending
      BY <1>5 DEF Render, stream
    <2> QED BY <2>1, <1>w DEF ViewInv, ViewKept, thread
  <1>6. CASE Effect
    <2>1. UNCHANGED <<top, captured>>
      BY <1>6 DEF Effect
    <2>2. ASSUME ack(captured.version) PROVE pending' \subseteq pending
      BY <2>2 DEF ack
    <2>3. CASE UNCHANGED <<stream, thread>>
      BY <1>1, <2>1, <2>3 DEF stream, thread
    <2>4. CASE handleLiveEvents(captured.batch) /\ ack(captured.version)
      <3> DEFINE mine == {r \in captured.batch : ThreadOf[r] = selected}
      <3>1. mine \subseteq Written(selected)
        BY DEF ViewInv, Written
      <3>2. /\ UNCHANGED <<shown, fresh>> /\ view' = view \cup mine
            /\ cache' = IF selected \notin fresh THEN cache
                        ELSE [cache EXCEPT ![selected] = @ \cup mine]
        BY <2>4 DEF handleLiveEvents
      <3>3. \A u : u # selected => mine \cap Written(u) = {}
        BY DEF Written
      <3>4. mine \subseteq InDb
        BY <3>1 DEF Written
      <3> HIDE DEF mine
      <3>5. /\ \A u \in Threads : cache'[u] \subseteq Written(u)
            /\ \A u \in Threads : cache[u] \subseteq cache'[u]
            /\ selected \in fresh => mine \subseteq cache'[selected]
        BY <3>1, <3>2, <1>t DEF ViewInv
      <3>6. ASSUME NEW u \in fresh
            PROVE  view' \cap Written(u) \subseteq cache'[u]
        <4>1. view \cap Written(u) \subseteq cache'[u]
          BY <3>5, <1>t DEF ViewInv
        <4>2. mine \cap Written(u) \subseteq cache'[u]
          BY <3>3, <3>5
        <4> QED BY <4>1, <4>2, <3>2
      <3>7. pending' \subseteq pending
        BY <2>2, <2>4
      <3> QED BY <3>2, <3>4, <3>5, <3>6, <3>7, <2>1, <1>w DEF ViewInv, ViewKept
    <2>5. CASE Open(selected) /\ ack(captured.version)
      BY <1>3, <1>t, <2>1, <2>2, <2>5
    <2> QED BY <1>6, <2>3, <2>4, <2>5 DEF Effect
  <1>7. CASE MoveRests
    BY <1>3, <1>7 DEF MoveRests, stream, app
  <1>8. ASSUME NEW t \in Threads, Commit(t) PROVE ViewInv' /\ ViewKept
    BY <1>3, <1>8 DEF Commit, stream, app
  <1>9. ASSUME NEW t \in Threads, EntryLapses(t) PROVE ViewInv' /\ ViewKept
    <2>1. UNCHANGED <<top, pending, captured, shown, view>>
      BY <1>9 DEF EntryLapses, stream, app
    <2>2. \A u \in Threads : IF u = t THEN cache'[u] = {} /\ u \notin fresh'
                                      ELSE cache'[u] = cache[u] /\ (u \in fresh' => u \in fresh)
      BY <1>9, <1>t DEF EntryLapses
    <2>3. fresh' \subseteq fresh
      BY <1>9 DEF EntryLapses
    <2> QED BY <2>1, <2>2, <2>3, <1>t, <1>w DEF ViewInv, ViewKept
  <1>10. ASSUME NEW t \in Threads, Select(t) \/ Filter(t) PROVE ViewInv' /\ ViewKept
    BY <1>1, <1>10 DEF Select, Filter, stream, app
  <1>11. CASE FileEvent \/ DebounceFires \/ PollFires \/ WatchFails
    BY <1>1, <1>11 DEF FileEvent, DebounceFires, PollFires, WatchFails, stream, thread, app
  <1>12. CASE DrainFails \/ stop
    BY <1>1, <1>12 DEF DrainFails, stop, stream, thread, app
  <1>13. CASE UNCHANGED vars
    BY <1>1, <1>13 DEF vars, stream, thread, app
  <1> QED BY <1>2, <1>4, <1>5, <1>6, <1>7, <1>8, <1>9, <1>10, <1>11, <1>12, <1>13 DEF Next

(* No message of the thread on the screen leaves it before another thread  *)
(* is loaded: whatever the cache drops, a reload shows no less than the    *)
(* stream had shown.                                                       *)
THEOREM ViewNeverShrinks == Spec => ViewKeeps
  <1>1. Init => ViewInv
    BY DEF Init, ViewInv
  <1>2. TypeOK /\ CursorInv /\ ViewInv /\ [Next]_vars
          => /\ TypeOK' /\ CursorInv' /\ ViewInv'
             /\ [ViewKept]_vars
    BY TypeStep, CursorStep, ViewStep
  <1>3. Init => TypeOK /\ CursorInv
    BY TypeInit, CursorInit
  <1> QED BY <1>1, <1>2, <1>3, PTL DEF Spec, ViewKeeps, ViewKept
-----------------------------------------------------------------------------
(* The idle watcher.  Until the drain ends, a row that was there when it   *)
(* was asked for is behind the cursor, in the read in flight or behind a   *)
(* full page, or a further round is due.                                   *)
Plain(r) == \A h \in Hidden : h > r

DrainInv ==
  /\ asked <= top
  /\ rearm \/ \A r \in Visible : r <= asked /\ Plain(r)
                => \/ r <= highWater
                   \/ r \in page
                   \/ Cardinality(page) = MaxBatch

(* A page that leaves out a row with nothing hidden before it is full.     *)
LEMMA PageFull ==
  ASSUME NEW h \in Nat, top \in 0..MaxRows,
         NEW r \in Visible, r <= top, Plain(r), r > h, r \notin Page(h)
  PROVE  Cardinality(Page(h)) = MaxBatch
  <1>1. /\ r \in Nat /\ MaxBatch \in Nat \ {0} /\ MaxRows \in Nat /\ top \in Nat
        /\ top <= MaxRows
        /\ Hidden \subseteq Rows
    BY StreamAssumption DEF Visible, Rows
  <1>2. r > h + MaxBatch
    BY <1>1 DEF Page, InDb
  <1>3. ASSUME NEW s \in (h + 1)..(h + MaxBatch)
        PROVE  s \in Page(h)
    <2>1. s \in Nat /\ s < r /\ s >= 1 /\ s <= MaxRows /\ s <= top
      BY <1>1, <1>2
    <2>2. s \notin Hidden
      BY <2>1, <1>1 DEF Plain, Rows
    <2>3. s \in Visible
      BY <2>1, <2>2, <1>1 DEF Visible, Rows
    <2> QED BY <2>1, <2>3, <1>1 DEF Page, InDb
  <1>4. Page(h) \subseteq (h + 1)..(h + MaxBatch)
    BY <1>1 DEF Page, InDb, Visible, Rows
  <1>5. Page(h) = (h + 1)..(h + MaxBatch)
    BY <1>3, <1>4
  <1>6. Cardinality((h + 1)..(h + MaxBatch)) = (h + MaxBatch) - (h + 1) + 1
    BY <1>1, FS_Interval
  <1>7. (h + MaxBatch) - (h + 1) + 1 = MaxBatch
    BY <1>1
  <1> QED BY <1>5, <1>6, <1>7

(* A read that starts at the cursor covers every row there is.             *)
LEMMA ReadCovers ==
  ASSUME TypeOK, TypeOK', DrainInv, page' = Page(highWater)', UNCHANGED top,
         asked' <= top
  PROVE  DrainInv'
  <1>1. /\ highWater' \in Nat /\ top \in 0..MaxRows /\ asked' \in Nat /\ top \in Nat
        /\ \A r \in Visible : r \in Nat
    BY StreamAssumption DEF TypeOK, Visible, Rows
  <1>2. page' = Page(highWater')
    BY DEF Page, InDb
  <1>3. ASSUME NEW r \in Visible, r <= asked', Plain(r),
               ~(r <= highWater'), r \notin Page(highWater')
        PROVE  Cardinality(Page(highWater')) = MaxBatch
    <2>1. r <= top /\ r > highWater'
      BY <1>1, <1>3
    <2> QED BY <1>1, <1>3, <2>1, PageFull
  <1> QED BY <1>2, <1>3 DEF DrainInv, Plain

LEMMA DrainStep ==
  ASSUME TypeOK, TypeOK', CursorInv, DrainInv, [Next]_vars
  PROVE  DrainInv'
  <1>t. /\ top \in Nat /\ asked \in Nat /\ highWater \in Nat /\ 0 \in Nat
        /\ \A r \in Visible : r \in Nat
        /\ MaxBatch \in Nat \ {0}
    BY StreamAssumption DEF TypeOK, Visible, Rows
  <1>1. ASSUME UNCHANGED <<highWater, rearm, page, asked>>,
               top' = top \/ top' = top + 1
        PROVE  DrainInv'
    BY <1>1, <1>t DEF DrainInv, Plain
  <1>2. ASSUME drain, UNCHANGED <<top, highWater>> PROVE DrainInv'
    <2>1. asked' = top /\ top <= top
      BY <1>2, <1>t DEF drain
    <2>2. CASE draining
      BY <1>2, <2>1, <2>2 DEF drain, DrainInv
    <2>3. CASE ~draining
      <3>1. page' = Page(highWater)'
        BY <1>2, <2>3 DEF drain, Page, InDb
      <3> QED BY <1>2, <2>1, <3>1, ReadCovers
    <2> QED BY <2>2, <2>3
  <1>3. CASE DebounceFires \/ PollFires
    BY <1>2, <1>3 DEF DebounceFires, PollFires
  <1>4. CASE DrainFails
    <2>1. draining /\ Finish(highWater) /\ UNCHANGED <<top, highWater>>
      BY <1>4 DEF DrainFails
    <2>2. CASE rearm
      <3>1. page' = Page(highWater)' /\ asked' = asked
        BY <1>4, <2>1, <2>2 DEF DrainFails, Finish, Page, InDb
      <3> QED BY <2>1, <3>1, ReadCovers DEF DrainInv
    <2>3. CASE ~rearm
      <3>1. asked' = 0
        BY <1>4, <2>3 DEF DrainFails
      <3>2. \A r \in Visible : ~(r <= 0)
        BY StreamAssumption DEF Visible, Rows
      <3>3. 0 <= top
        BY <1>t
      <3> QED BY <2>1, <3>1, <3>2, <3>3 DEF DrainInv
    <2> QED BY <2>2, <2>3
  <1>5. CASE DrainPage
    <2>1. UNCHANGED <<top, asked>> /\ draining
      BY <1>5 DEF DrainPage
    <2>2. CASE Cardinality(page) = MaxBatch
      <3>1. page' = Page(highWater)'
        BY <1>5, <2>2, <2>1 DEF DrainPage, Page, InDb
      <3> QED BY <2>1, <3>1, ReadCovers DEF DrainInv
    <2>3. CASE Cardinality(page) # MaxBatch /\ rearm
      <3>1. page' = Page(highWater)'
        BY <1>5, <2>3, <2>1 DEF DrainPage, Finish, Page, InDb
      <3> QED BY <2>1, <3>1, ReadCovers DEF DrainInv
    <2>4. CASE Cardinality(page) # MaxBatch /\ ~rearm
      <3>1. \A r \in Visible : r <= asked /\ Plain(r) => r <= highWater \/ r \in page
        BY <2>4 DEF DrainInv
      <3>2. /\ highWater' \in Nat /\ highWater <= highWater'
            /\ \A r \in page : r <= highWater'
        BY <1>5, PageBehind
      <3>3. \A r \in Visible : r <= asked /\ Plain(r) => r <= highWater'
        BY <3>1, <3>2, <1>t
      <3> QED BY <2>1, <3>3 DEF DrainInv, Plain
    <2> QED BY <2>2, <2>3, <2>4
  <1>6. CASE RowWritten \/ FileEvent \/ WatchFails \/ Render \/ Effect \/ MoveRests \/ stop
    BY <1>1, <1>6 DEF RowWritten, FileEvent, WatchFails, Render, Effect, MoveRests, stop, watcher
  <1>7. ASSUME NEW t \in Threads, Select(t) \/ Filter(t) \/ Commit(t) \/ EntryLapses(t)
        PROVE  DrainInv'
    BY <1>1, <1>7 DEF Select, Filter, Commit, EntryLapses, watcher
  <1>8. CASE UNCHANGED vars
    BY <1>1, <1>8 DEF vars, watcher
  <1> QED BY <1>3, <1>4, <1>5, <1>6, <1>7, <1>8 DEF Next

(* An idle watcher whose last read did not fail owes nothing: a signal in  *)
(* the middle of a drain is never forgotten.                               *)
THEOREM IdleOwesNothing == Spec => []IdleMeansCaughtUp
  <1>1. Init => DrainInv
    <2> SUFFICES ASSUME Init PROVE DrainInv
      OBVIOUS
    <2>1. \A r \in Visible : ~(r <= 0)
      BY StreamAssumption DEF Visible, Rows
    <2>2. 0 <= 0
      OBVIOUS
    <2> QED BY <2>1, <2>2 DEF Init, DrainInv
  <1>2. TypeOK /\ CursorInv /\ DrainInv /\ [Next]_vars
          => TypeOK' /\ CursorInv' /\ DrainInv'
    BY TypeStep, CursorStep, DrainStep
  <1>3. ASSUME TypeOK, CursorInv, DrainInv
        PROVE  IdleMeansCaughtUp
    <2> SUFFICES ASSUME ~draining, NEW r \in Visible, r <= asked, Plain(r)
                 PROVE  emissions[r] > 0
      BY DEF IdleMeansCaughtUp, Plain
    <2>1. page = {} /\ ~rearm
      BY <1>3 DEF CursorInv
    <2>2. Cardinality(page) # MaxBatch
      BY <2>1, FS_EmptySet, StreamAssumption
    <2>3. r <= highWater
      BY <1>3, <2>1, <2>2 DEF DrainInv
    <2> QED BY <1>3, <2>3 DEF CursorInv, EachRowOnce
  <1>4. Init => TypeOK /\ CursorInv
    BY TypeInit, CursorInit
  <1> QED BY <1>1, <1>2, <1>3, <1>4, PTL DEF Spec
=============================================================================
