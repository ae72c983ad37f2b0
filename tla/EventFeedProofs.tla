-------------------------- MODULE EventFeedProofs --------------------------
(***************************************************************************)
(* Proofs about EventFeed for any number of events, of clients and of      *)
(* faults, any audience of an event and any page and replay limit.         *)
(***************************************************************************)
EXTENDS EventFeed, FiniteSetTheorems, SequenceTheorems, WellFoundedInduction,
        TLAPS

USE FeedAssumption

-----------------------------------------------------------------------------
(* Sets of events have a first and a last element.                         *)
LEMMA LeastExists ==
  ASSUME NEW S \in SUBSET Nat, S # {}
  PROVE  \E e \in S : \A f \in S : e <= f
  <1>1. PICK e \in S : \A f \in S : <<f, e>> \notin OpToRel(<, Nat)
    BY NatLessThanWellFounded, WFMin
  <1>2. ASSUME NEW f \in S
        PROVE  ~(f < e)
    <2>1. <<f, e>> \in Nat \X Nat /\ <<f, e>>[1] = f /\ <<f, e>>[2] = e
      OBVIOUS
    <2> QED BY <1>1, <2>1 DEF OpToRel
  <1>3. ASSUME NEW f \in S
        PROVE  e <= f
    <2>1. e \in Nat /\ f \in Nat
      OBVIOUS
    <2> QED BY <1>2, <2>1
  <1> QED BY <1>3

LEMMA MostExists ==
  ASSUME NEW n \in Nat, NEW S \in SUBSET (0..n), S # {}
  PROVE  \E e \in S : \A f \in S : f <= e
  <1> DEFINE T == {n - e : e \in S}
  <1>1. T \in SUBSET Nat /\ T # {}
    <2>1. \A e \in S : n - e \in Nat
      OBVIOUS
    <2> QED BY <2>1
  <1> HIDE DEF T
  <1>2. PICK t \in T : \A u \in T : t <= u
    BY <1>1, LeastExists
  <1>3. PICK e \in S : t = n - e
    BY <1>2 DEF T
  <1>4. ASSUME NEW f \in S
        PROVE  f <= e
    <2>1. n - e <= n - f
      BY <1>2, <1>3, <1>4 DEF T
    <2> QED BY <2>1
  <1> QED BY <1>4

LEMMA LeastIs ==
  ASSUME NEW S \in SUBSET Events, S # {}
  PROVE  Least(S) \in S /\ \A f \in S : Least(S) <= f
  <1>1. S \in SUBSET Nat
    BY DEF Events
  <1> QED BY <1>1, LeastExists DEF Least

LEMMA LastIs ==
  ASSUME NEW S \in SUBSET Events, NEW c
  PROVE  /\ S = {} => Last(S, c) = c
         /\ S # {} => Last(S, c) \in S /\ \A f \in S : f <= Last(S, c)
  <1>1. S \in SUBSET (0..MaxEvents)
    BY DEF Events
  <1> QED BY <1>1, MostExists DEF Last

LEMMA DivGrows ==
  ASSUME NEW a \in Nat, NEW b \in Nat, a <= b
  PROVE  a \div Page \in Nat /\ a \div Page <= b \div Page
  OBVIOUS

-----------------------------------------------------------------------------
(* Pages.                                                                  *)
LEMMA AfterType ==
  ASSUME TypeOK, NEW c \in 0..MaxEvents
  PROVE  After(c) \in SUBSET Events
  BY DEF After, Events, TypeOK

LEMMA RankGrows ==
  ASSUME TypeOK, NEW c \in 0..MaxEvents, NEW e \in After(c), NEW f \in After(c),
         e <= f
  PROVE  PageNo(c, e) \in Nat /\ PageNo(c, e) <= PageNo(c, f)
  <1> DEFINE Upto(x) == {g \in After(c) : g <= x}
  <1>1. After(c) \in SUBSET Events /\ IsFiniteSet(Events)
    BY AfterType, FS_Interval DEF Events
  <1>2. Upto(e) \subseteq Upto(f) /\ IsFiniteSet(Upto(e)) /\ IsFiniteSet(Upto(f))
    <2>1. \A g \in After(c) : g <= e => g <= f
      BY <1>1 DEF Events
    <2>2. Upto(e) \subseteq Events /\ Upto(f) \subseteq Events
      BY <1>1
    <2> QED BY <2>1, <2>2, <1>1, FS_Subset
  <1>3. e \in Upto(e)
    BY <1>1 DEF Events
  <1> DEFINE a == Cardinality(Upto(e))
             b == Cardinality(Upto(f))
  <1>4. a \in Nat /\ b \in Nat /\ a # 0 /\ a <= b
    <2>1. a \in Nat /\ b \in Nat
      BY <1>2, FS_CardinalityType
    <2>2. a <= b
      BY <1>2, FS_Subset
    <2>3. a # 0
      BY <1>2, <1>3, FS_EmptySet
    <2> QED BY <2>1, <2>2, <2>3
  <1>5. PageNo(c, e) = (a - 1) \div Page /\ PageNo(c, f) = (b - 1) \div Page
    BY DEF PageNo, Rank
  <1> HIDE DEF a, b
  <1>6. a - 1 \in Nat /\ b - 1 \in Nat /\ a - 1 <= b - 1
    BY <1>4
  <1> QED BY <1>5, <1>6, DivGrows

(* What a read that started at c and ends at u hands to p.                 *)
Covers(p, c, u, S) ==
  /\ u \in c..written
  /\ S = {e \in (c + 1)..u : For(p, e)}

LEMMA ForOfCall ==
  ASSUME TypeOK, NEW p, NEW c \in 0..MaxEvents, NEW e \in (c + 1)..written,
         For(p, e)
  PROVE  e \in After(c)
  BY DEF For, After

(* A page that holds everything for p up to its own last event covers it.  *)
LEMMA PageCovers ==
  ASSUME TypeOK, NEW p, NEW c \in 0..written, NEW S \in SUBSET After(c),
         \A e \in After(c) : For(p, e) /\ (\E g \in S : e <= g) => e \in S
  PROVE  Covers(p, c, Last(S, c), Own(p, S))
  <1>1. c \in 0..MaxEvents /\ After(c) \in SUBSET Events /\ written \in Nat /\ c \in Nat
    BY AfterType DEF TypeOK
  <1>2. CASE S = {}
    <2>1. Last(S, c) = c /\ Own(p, S) = {}
      BY <1>2, LastIs DEF Own
    <2> QED BY <1>1, <2>1 DEF Covers
  <1>3. CASE S # {}
    <2> DEFINE u == Last(S, c)
    <2>1. u \in S /\ \A f \in S : f <= u
      BY <1>1, <1>3, LastIs
    <2> HIDE DEF u
    <2>2. u \in c..written /\ \A f \in S : f \in (c + 1)..u
      BY <1>1, <2>1 DEF After
    <2>3. ASSUME NEW e \in (c + 1)..u, For(p, e)
          PROVE  e \in S
      <3>1. e \in (c + 1)..written /\ e <= u
        BY <1>1, <2>2
      <3>2. e \in After(c)
        BY <1>1, <2>3, <3>1, ForOfCall
      <3> QED BY <2>1, <2>3, <3>1, <3>2
    <2>4. Own(p, S) = {e \in (c + 1)..u : For(p, e)}
      BY <2>2, <2>3 DEF Own
    <2> QED BY <2>2, <2>4 DEF Covers, u
  <1> QED BY <1>2, <1>3

LEMMA FirstPageCovers ==
  ASSUME TypeOK, NEW p, NEW c \in 0..written
  PROVE  Covers(p, c, Last(PageOf(c, 0), c), Own(p, PageOf(c, 0)))
  <1>1. c \in 0..MaxEvents /\ After(c) \in SUBSET Nat
    BY AfterType DEF TypeOK, Events
  <1>2. ASSUME NEW e \in After(c), NEW g \in PageOf(c, 0), e <= g
        PROVE  e \in PageOf(c, 0)
    <2>1. g \in After(c) /\ PageNo(c, g) = 0
      BY DEF PageOf
    <2>2. PageNo(c, e) \in Nat /\ PageNo(c, e) <= 0
      BY <1>1, <1>2, <2>1, RankGrows
    <2> QED BY <2>2 DEF PageOf
  <1>3. PageOf(c, 0) \in SUBSET After(c)
    BY DEF PageOf
  <1> QED BY <1>2, <1>3, PageCovers

LEMMA OwnPageCovers ==
  ASSUME TypeOK, NEW p, NEW c \in 0..written,
         NEW own, own = Own(p, After(c)), own # {},
         NEW page, page = PageOf(c, PageNo(c, Least(own)))
  PROVE  Covers(p, c, Last(page, c), Own(p, page))
  <1>1. c \in 0..MaxEvents /\ After(c) \in SUBSET Events /\ After(c) \in SUBSET Nat
    BY AfterType DEF TypeOK, Events
  <1> DEFINE l == Least(own)
  <1>2. l \in After(c) /\ \A e \in own : l <= e
    BY <1>1, LeastIs DEF Own
  <1> HIDE DEF l
  <1>3. ASSUME NEW e \in After(c), For(p, e), NEW g \in page, e <= g
        PROVE  e \in page
    <2>1. g \in After(c) /\ PageNo(c, g) = PageNo(c, l)
      BY DEF PageOf, l
    <2>2. l <= e
      BY <1>2, <1>3 DEF Own
    <2>3. PageNo(c, e) \in Nat /\ PageNo(c, e) <= PageNo(c, g)
      BY <1>1, <1>3, <2>1, RankGrows
    <2>4. PageNo(c, l) \in Nat /\ PageNo(c, l) <= PageNo(c, e)
      BY <1>1, <1>2, <2>2, RankGrows
    <2>5. PageNo(c, e) = PageNo(c, l)
      BY <2>1, <2>3, <2>4
    <2> QED BY <2>5 DEF PageOf, l
  <1>4. page \in SUBSET After(c)
    BY DEF PageOf
  <1> QED BY <1>3, <1>4, PageCovers

-----------------------------------------------------------------------------
(* What the handler and the client of a poll agree on: up to the cursor of *)
(* either there is nothing untold, and an answer carries what lies between *)
(* the client's cursor and its own.                                        *)
PollInv(p) ==
  /\ cursor[p] <= written
  /\ poll[p] \in {"waiting", "woken"} => Covers(p, cursor[p], at[p], {})
  /\ poll[p] = "waiting" => Own(p, After(at[p])) = {}
  /\ poll[p] = "answered" =>
       Covers(p, cursor[p], answer[p].upto, answer[p].events)

PollsInv == \A p \in Pollers : PollInv(p)

LEMMA CoversOn ==
  ASSUME NEW p, NEW c \in Nat, NEW d, NEW u, NEW S, written \in Nat,
         Covers(p, c, d, {}), Covers(p, d, u, S)
  PROVE  Covers(p, c, u, S)
  <1>1. d \in Nat /\ u \in Nat /\ c <= d /\ d <= u /\ u <= written
    BY DEF Covers
  <1>2. ASSUME NEW e \in (c + 1)..u, For(p, e)
        PROVE  e \in (d + 1)..u
    <2>1. e \notin (c + 1)..d
      BY <1>2 DEF Covers
    <2> QED BY <1>1, <2>1
  <1>3. (d + 1)..u \subseteq (c + 1)..u
    BY <1>1
  <1> QED BY <1>1, <1>2, <1>3 DEF Covers

(* The handler's two ways to go on.                                        *)
LEMMA ReadPageGives ==
  ASSUME TypeOK, NEW p \in Pollers, NEW c \in 0..written, ReadPage(p, c)
  PROVE  \E u, S : Covers(p, c, u, S) /\ Answer(p, u, S)
  BY FirstPageCovers DEF ReadPage

LEMMA ReadOnGives ==
  ASSUME TypeOK, NEW p \in Pollers, NEW c \in 0..written, ReadOn(p, c)
  PROVE  \/ \E u, S : Covers(p, c, u, S) /\ Answer(p, u, S)
         \/ \E d : Covers(p, c, d, {}) /\ Own(p, After(d)) = {} /\ Wait(p, d)
  <1>1. CASE Own(p, After(c)) = {}
    <2> DEFINE d == Last(After(c), c)
    <2>1. Wait(p, d)
      BY <1>1 DEF ReadOn
    <2>2. Covers(p, c, d, {})
      BY <1>1, PageCovers
    <2>3. Own(p, After(d)) = {}
      <3>1. d \in c..written
        BY <2>2 DEF Covers
      <3>2. After(d) \subseteq After(c)
        <4>1. c \in Nat /\ d \in Nat /\ written \in Nat /\ c <= d
          BY <3>1 DEF TypeOK
        <4> HIDE DEF d
        <4>2. (d + 1)..written \subseteq (c + 1)..written
          BY <4>1
        <4> QED BY <4>2 DEF After
      <3> QED BY <1>1, <3>2 DEF Own
    <2> QED BY <2>1, <2>2, <2>3
  <1>2. CASE Own(p, After(c)) # {}
    <2> DEFINE own == Own(p, After(c))
               page == PageOf(c, PageNo(c, Least(own)))
    <2>1. Answer(p, Last(page, c), Own(p, page))
      BY <1>2 DEF ReadOn
    <2>2. Covers(p, c, Last(page, c), Own(p, page))
      BY <1>2, OwnPageCovers
    <2> QED BY <2>1, <2>2
  <1> QED BY <1>1, <1>2

(* So does every resumed, new or expired poll.                             *)
LEMMA HandlerGives ==
  ASSUME TypeOK, PollsInv, NEW p \in Pollers, Poll(p) \/ Resume(p) \/ Expire(p)
  PROVE  /\ UNCHANGED <<up, written, cursor, told, streams, faults>>
         /\ \/ \E u, S : Covers(p, cursor[p], u, S) /\ Answer(p, u, S)
            \/ \E d : /\ Covers(p, cursor[p], d, {})
                      /\ Own(p, After(d)) = {} /\ Wait(p, d)
  <1> USE DEF PollsInv, PollInv
  <1>t. cursor[p] \in 0..written /\ cursor[p] \in Nat /\ written \in Nat
    BY DEF TypeOK
  <1>1. UNCHANGED <<up, written, cursor, told, streams, faults>>
    BY DEF Poll, Resume, Expire
  <1>2. CASE Poll(p)
    <2>1. ReadOn(p, cursor[p])
      BY <1>2 DEF Poll
    <2> QED BY <1>1, <1>t, <2>1, ReadOnGives
  <1>3. CASE Resume(p) \/ Expire(p)
    <2>1. Covers(p, cursor[p], at[p], {})
      BY <1>3 DEF Resume, Expire
    <2>2. at[p] \in 0..written
      BY <1>t, <2>1 DEF Covers
    <2>3. ReadPage(p, at[p]) \/ ReadOn(p, at[p])
      BY <1>3 DEF Resume, Expire
    <2> QED BY <1>1, <1>t, <2>1, <2>2, <2>3, ReadPageGives, ReadOnGives, CoversOn
  <1> QED BY <1>2, <1>3

LEMMA CoversType ==
  ASSUME TypeOK, NEW p, NEW c \in Nat, NEW u, NEW S, Covers(p, c, u, S)
  PROVE  u \in 0..MaxEvents /\ S \in SUBSET Events /\ c <= u
  BY DEF Covers, TypeOK, Events

-----------------------------------------------------------------------------
(* Types, in two halves: the polls and the streams.                        *)
PollTypes ==
  /\ picked \in [Events -> SUBSET Pollers]
  /\ poll \in [Pollers -> {"idle", "waiting", "woken", "answered"}]
  /\ at \in [Pollers -> 0..MaxEvents]
  /\ answer \in [Pollers -> [upto : 0..MaxEvents, events : SUBSET Events]]
  /\ cursor \in [Pollers -> 0..MaxEvents]
  /\ told \in [Pollers -> [Events -> Nat]]
StreamTypes ==
  /\ conn \in [Watchers -> {"idle", "open", "refused"}]
  /\ chan \in [Watchers -> Seq(Events)]
  /\ lastId \in [Watchers -> 0..MaxEvents]
  /\ seen \in [Watchers -> Seq(Events)]
  /\ overrun \subseteq Watchers
TableTypes == up \in BOOLEAN /\ written \in 0..MaxEvents /\ faults \in 0..MaxFaults

LEMMA TypeParts ==
  /\ TypeOK <=> TableTypes /\ PollTypes /\ StreamTypes
  /\ TypeOK' <=> TableTypes' /\ PollTypes' /\ StreamTypes'
  <1>1. TypeOK <=> TableTypes /\ PollTypes /\ StreamTypes
    BY Zenon DEF TypeOK, TableTypes, PollTypes, StreamTypes
  <1>2. TypeOK' <=> TableTypes' /\ PollTypes' /\ StreamTypes'
    BY Zenon DEF TypeOK, TableTypes, PollTypes, StreamTypes
  <1> QED BY <1>1, <1>2

LEMMA TableStep ==
  ASSUME TypeOK, [Next]_vars
  PROVE  TableTypes'
  <1>t. TableTypes
    BY TypeParts
  <1>1. CASE Emit
    BY <1>1, <1>t DEF Emit, TableTypes
  <1>2. CASE Stop
    <2>1. faults < MaxFaults /\ faults' = faults + 1 /\ up' = FALSE
      BY <1>2 DEF Stop
    <2>2. written' = written
      BY <1>2 DEF Stop
    <2>3. faults' \in 0..MaxFaults
      BY <1>t, <2>1 DEF TableTypes
    <2> QED BY <1>t, <2>1, <2>2, <2>3 DEF TableTypes
  <1>3. CASE Start
    BY <1>3, <1>t DEF Start, TableTypes
  <1>4. CASE UNCHANGED vars
    BY <1>4, <1>t DEF vars, TableTypes
  <1>5. ASSUME NEW p \in Pollers,
               Poll(p) \/ Resume(p) \/ Expire(p) \/ Receive(p) \/ ReadStore(p)
        PROVE  TableTypes'
    <2>1. up' = up /\ written' = written /\ faults' = faults
      BY <1>5 DEF Poll, Resume, Expire, Receive, ReadStore
    <2> QED BY <1>t, <2>1 DEF TableTypes
  <1>6. ASSUME NEW p \in Pollers, Lose(p)
        PROVE  TableTypes'
    BY <1>6, <1>t DEF Lose, TableTypes
  <1>7. ASSUME NEW w \in Watchers,
               Connect(w) \/ PollOnce(w) \/ Refuse(w) \/ Deliver(w)
        PROVE  TableTypes'
    <2>1. up' = up /\ written' = written /\ faults' = faults
      BY <1>7 DEF Connect, PollOnce, Refuse, Deliver
    <2> QED BY <1>t, <2>1 DEF TableTypes
  <1>8. ASSUME NEW w \in Watchers, EndStream(w)
        PROVE  TableTypes'
    BY <1>8, <1>t DEF EndStream, TableTypes
  <1> QED BY <1>1, <1>2, <1>3, <1>4, <1>5, <1>6, <1>7, <1>8 DEF Next

LEMMA AnswerType ==
  ASSUME TypeOK, NEW p \in Pollers, NEW u \in 0..MaxEvents,
         NEW S \in SUBSET Events, Answer(p, u, S), UNCHANGED <<cursor, told>>
  PROVE  PollTypes'
  <1> USE DEF Answer, PollTypes
  <1>t. PollTypes
    BY TypeParts
  <1>1. answer' \in [Pollers -> [upto : 0..MaxEvents, events : SUBSET Events]]
    BY <1>t
  <1>2. poll' \in [Pollers -> {"idle", "waiting", "woken", "answered"}]
    BY <1>t
  <1>3. at' \in [Pollers -> 0..MaxEvents]
    BY <1>t
  <1>4. picked' \in [Events -> SUBSET Pollers]
    BY <1>t
  <1> QED BY <1>t, <1>1, <1>2, <1>3, <1>4

LEMMA TakeType ==
  ASSUME TypeOK, NEW p \in Pollers, NEW u \in 0..MaxEvents, NEW S,
         cursor' = [cursor EXCEPT ![p] = u],
         told' = [told EXCEPT ![p] = [e \in Events |-> @[e] + Carry(S)[e]]]
  PROVE  /\ cursor' \in [Pollers -> 0..MaxEvents]
         /\ told' \in [Pollers -> [Events -> Nat]]
  <1>t. PollTypes
    BY TypeParts
  <1>1. \A e \in Events : told[p][e] + Carry(S)[e] \in Nat
    BY <1>t DEF PollTypes, Carry
  <1>2. [e \in Events |-> told[p][e] + Carry(S)[e]] \in [Events -> Nat]
    BY <1>1
  <1>3. told' = [told EXCEPT ![p] = [e \in Events |-> told[p][e] + Carry(S)[e]]]
    BY <1>t DEF PollTypes
  <1> QED BY <1>t, <1>2, <1>3 DEF PollTypes

LEMMA PollTypeStep ==
  ASSUME TypeOK, PollsInv, [Next]_vars
  PROVE  PollTypes'
  <1>t. PollTypes /\ TableTypes
    BY TypeParts
  <1>n. NoAnswer \in [upto : 0..MaxEvents, events : SUBSET Events]
    BY DEF NoAnswer
  <1>1. CASE Emit
    BY <1>1, <1>t DEF Emit, PollTypes
  <1>2. CASE Stop
    BY <1>2, <1>t, <1>n DEF Stop, PollTypes
  <1>3. CASE Start \/ UNCHANGED vars
    BY <1>3, <1>t DEF Start, vars, polls, PollTypes
  <1>4. ASSUME NEW p \in Pollers, Poll(p) \/ Resume(p) \/ Expire(p)
        PROVE  PollTypes'
    <2>t. cursor[p] \in Nat
      BY <1>t DEF PollTypes
    <2>1. UNCHANGED <<cursor, told>>
      BY <1>4, HandlerGives
    <2>2. CASE \E u, S : Covers(p, cursor[p], u, S) /\ Answer(p, u, S)
      BY <2>t, <2>1, <2>2, CoversType, AnswerType
    <2>3. ASSUME NEW d, Covers(p, cursor[p], d, {}), Wait(p, d)
          PROVE  PollTypes'
      <3>1. d \in 0..MaxEvents
        BY <2>t, <2>3, CoversType
      <3> QED BY <1>t, <2>1, <2>3, <3>1 DEF Wait, PollTypes
    <2> QED BY <1>4, <2>2, <2>3, HandlerGives
  <1>5. ASSUME NEW p \in Pollers, Receive(p)
        PROVE  PollTypes'
    <2>1. answer[p].upto \in 0..MaxEvents
      BY <1>t DEF PollTypes
    <2>2. /\ cursor' \in [Pollers -> 0..MaxEvents]
          /\ told' \in [Pollers -> [Events -> Nat]]
      BY <1>5, <2>1, TakeType DEF Receive
    <2> QED BY <1>5, <1>t, <1>n, <2>2 DEF Receive, PollTypes
  <1>6. ASSUME NEW p \in Pollers, Lose(p)
        PROVE  PollTypes'
    BY <1>6, <1>t, <1>n DEF Lose, PollTypes
  <1>7. ASSUME NEW p \in Pollers, ReadStore(p)
        PROVE  PollTypes'
    <2> DEFINE page == PageOf(cursor[p], 0)
               u == Last(page, cursor[p])
    <2>1. cursor[p] \in 0..written /\ cursor[p] \in Nat
      BY <1>t DEF PollsInv, PollInv, PollTypes, TableTypes
    <2>2. u \in 0..MaxEvents
      BY <2>1, FirstPageCovers, CoversType
    <2>3. /\ cursor' = [cursor EXCEPT ![p] = u]
          /\ told' = [told EXCEPT ![p] = [e \in Events |-> @[e] + Carry(Own(p, page))[e]]]
      BY <1>7 DEF ReadStore
    <2> HIDE DEF u, page
    <2>4. /\ cursor' \in [Pollers -> 0..MaxEvents]
          /\ told' \in [Pollers -> [Events -> Nat]]
      BY <2>2, <2>3, TakeType
    <2> QED BY <1>7, <1>t, <2>4 DEF ReadStore, PollTypes
  <1>8. ASSUME NEW w \in Watchers,
               Connect(w) \/ PollOnce(w) \/ Refuse(w) \/ Deliver(w) \/ EndStream(w)
        PROVE  PollTypes'
    BY <1>8, <1>t DEF Connect, PollOnce, Refuse, Deliver, EndStream, polls, PollTypes
  <1> QED BY <1>1, <1>2, <1>3, <1>4, <1>5, <1>6, <1>7, <1>8 DEF Next

-----------------------------------------------------------------------------
(* The streams.                                                            *)
LEMMA IdsType ==
  ASSUME NEW l \in Nat, NEW m \in Nat, l <= m
  PROVE  /\ Ids(l, m) \in Seq(Nat)
         /\ Len(Ids(l, m)) = m - l
         /\ \A i \in 1..(m - l) : Ids(l, m)[i] = l + i
         /\ m <= MaxEvents => Ids(l, m) \in Seq(Events)
  <1>1. m - l \in Nat
    OBVIOUS
  <1>2. \A i \in 1..(m - l) : l + i \in Nat /\ (m <= MaxEvents => l + i \in Events)
    BY DEF Events
  <1> QED BY <1>1, <1>2 DEF Ids

(* Ids grow at the end, are taken from the front, and join.                *)
LEMMA IdsSame ==
  ASSUME NEW l \in Nat, NEW m \in Nat, l <= m, NEW s \in Seq(Nat),
         Len(s) = m - l, \A i \in 1..(m - l) : s[i] = l + i
  PROVE  s = Ids(l, m)
  <1>1. Len(Ids(l, m)) = Len(s) /\ Ids(l, m) \in Seq(Nat)
    BY IdsType
  <1>2. \A i \in 1..Len(s) : s[i] = Ids(l, m)[i]
    BY IdsType
  <1> QED BY <1>1, <1>2, SeqEqual

LEMMA IdsAppend ==
  ASSUME NEW l \in Nat, NEW m \in Nat, l <= m
  PROVE  Append(Ids(l, m), m + 1) = Ids(l, m + 1)
  <1> DEFINE s == Append(Ids(l, m), m + 1)
  <1>1. Ids(l, m) \in Seq(Nat) /\ Len(Ids(l, m)) = m - l
    BY IdsType
  <1>2. s \in Seq(Nat) /\ Len(s) = (m + 1) - l
    BY <1>1
  <1>3. ASSUME NEW i \in 1..((m + 1) - l)
        PROVE  s[i] = l + i
    <2>1. CASE i \in 1..(m - l)
      BY <1>1, <2>1, IdsType
    <2>2. CASE i = (m + 1) - l
      BY <1>1, <2>2
    <2>3. i \in 1..(m - l) \/ i = (m + 1) - l
      OBVIOUS
    <2> QED BY <2>1, <2>2, <2>3
  <1> HIDE DEF s
  <1>4. s = Ids(l, m + 1)
    BY <1>2, <1>3, IdsSame
  <1> QED BY <1>4 DEF s

LEMMA IdsTail ==
  ASSUME NEW l \in Nat, NEW m \in Nat, l < m
  PROVE  /\ Ids(l, m) # <<>> /\ Head(Ids(l, m)) = l + 1
         /\ Tail(Ids(l, m)) = Ids(l + 1, m)
  <1> DEFINE s == Ids(l, m)
  <1>1. s \in Seq(Nat) /\ Len(s) = m - l /\ s[1] = l + 1
    BY IdsType
  <1>2. \A i \in 1..(m - (l + 1)) : s[i + 1] = (l + 1) + i
    BY IdsType
  <1> HIDE DEF s
  <1>3. s # <<>> /\ Head(s) = l + 1
    BY <1>1
  <1>4. Tail(s) \in Seq(Nat) /\ Len(Tail(s)) = m - (l + 1)
    BY <1>1, <1>3
  <1>5. \A i \in 1..(m - (l + 1)) : Tail(s)[i] = (l + 1) + i
    BY <1>1, <1>2, <1>3
  <1>6. Tail(s) = Ids(l + 1, m)
    <2>1. l + 1 \in Nat /\ l + 1 <= m
      OBVIOUS
    <2> QED BY <1>4, <1>5, <2>1, IdsSame
  <1> QED BY <1>3, <1>6 DEF s

LEMMA IdsJoin ==
  ASSUME NEW l \in Nat, NEW m \in Nat, l <= m
  PROVE  Ids(0, l) \o Ids(l, m) = Ids(0, m)
  <1> DEFINE a == Ids(0, l)
             b == Ids(l, m)
             s == a \o b
  <1>z. 0 \in Nat /\ 0 <= l /\ l - 0 = l /\ \A i \in 1..l : 0 + i = i
    OBVIOUS
  <1>a. /\ Ids(0, l) \in Seq(Nat) /\ Len(Ids(0, l)) = l - 0
        /\ \A i \in 1..(l - 0) : Ids(0, l)[i] = 0 + i
    BY <1>z, IdsType
  <1>b. /\ Ids(l, m) \in Seq(Nat) /\ Len(Ids(l, m)) = m - l
        /\ \A i \in 1..(m - l) : Ids(l, m)[i] = l + i
    BY IdsType
  <1>1. a \in Seq(Nat) /\ b \in Seq(Nat) /\ Len(a) = l /\ Len(b) = m - l
    BY <1>a, <1>b, <1>z
  <1>2. /\ \A i \in 1..l : a[i] = i
        /\ \A i \in 1..(m - l) : b[i] = l + i
    BY <1>a, <1>b, <1>z
  <1> HIDE DEF a, b
  <1>3. s \in Seq(Nat) /\ Len(s) = m
    BY <1>1
  <1>4. ASSUME NEW i \in 1..m
        PROVE  s[i] = i
    <2>1. CASE i <= l
      BY <1>1, <1>2, <2>1
    <2>2. CASE i > l
      <3>1. i - l \in 1..(m - l)
        BY <2>2
      <3>2. s[i] = b[i - l]
        BY <1>1, <2>2
      <3>3. b[i - l] = l + (i - l) /\ l + (i - l) = i
        BY <1>2, <3>1
      <3> QED BY <3>2, <3>3
    <2>3. i <= l \/ i > l
      OBVIOUS
    <2> QED BY ONLY <2>1, <2>2, <2>3
  <1> HIDE DEF s
  <1>5. s = Ids(0, m)
    <2>1. Len(s) = m - 0 /\ \A i \in 1..(m - 0) : s[i] = 0 + i
      BY <1>3, <1>4
    <2> QED BY <1>3, <2>1, IdsSame
  <1> QED BY <1>5 DEF s, a, b

(* What a stream and its watcher agree on: the watcher never is ahead of   *)
(* the table; below the replay limit what it yielded and what is on its    *)
(* way are the table, cut at lastId.                                       *)
Ahead(w) ==
  /\ lastId[w] <= written
  /\ \A i \in DOMAIN chan[w] : chan[w][i] <= written
Contiguous(w) ==
  w \notin overrun =>
    /\ seen[w] = Ids(0, lastId[w])
    /\ conn[w] = "open" => chan[w] = Ids(lastId[w], written)
Ascending(w) ==
  /\ \A i \in DOMAIN seen[w] : seen[w][i] <= lastId[w]
  /\ \A i, j \in DOMAIN seen[w] : i < j => seen[w][i] < seen[w][j]
StreamsInv == \A w \in Watchers : Ahead(w) /\ Contiguous(w) /\ Ascending(w)

LEMMA ReplayIs ==
  ASSUME TypeOK, StreamsInv, NEW w \in Watchers
  PROVE  /\ lastId[w] \in Nat /\ written \in Nat /\ Replay(w) \in 0..MaxEvents
         /\ lastId[w] <= Replay(w) /\ Replay(w) <= written
         /\ Missed(w) <= ReplayLimit => Replay(w) = written
         /\ Ids(lastId[w], Replay(w)) \in Seq(Events)
  <1>1. lastId[w] \in 0..MaxEvents /\ written \in 0..MaxEvents /\ lastId[w] <= written
    BY DEF TypeOK, StreamsInv, Ahead
  <1>2. /\ Replay(w) \in 0..MaxEvents
        /\ lastId[w] <= Replay(w) /\ Replay(w) <= written
        /\ Missed(w) <= ReplayLimit => Replay(w) = written
    BY <1>1 DEF Replay, Missed
  <1>3. Ids(lastId[w], Replay(w)) \in Seq(Events)
    <2> DEFINE l == lastId[w]
               r == Replay(w)
    <2>1. l \in Nat /\ r \in Nat /\ l <= r /\ r <= MaxEvents
      BY <1>1, <1>2
    <2> HIDE DEF l, r
    <2>2. Ids(l, r) \in Seq(Events)
      BY <2>1, IdsType
    <2> QED BY <2>2 DEF l, r
  <1> QED BY <1>1, <1>2, <1>3

LEMMA StreamTypeStep ==
  ASSUME TypeOK, StreamsInv, [Next]_vars
  PROVE  StreamTypes'
  <1>t. StreamTypes /\ TableTypes
    BY TypeParts
  <1>1. CASE Emit
    <2>1. written + 1 \in Events
      BY <1>1, <1>t DEF Emit, TableTypes, Events
    <2>2. chan' \in [Watchers -> Seq(Events)]
      <3>1. \A w \in Watchers :
              (IF conn[w] = "open" THEN Append(chan[w], written + 1) ELSE chan[w])
                \in Seq(Events)
        BY <1>t, <2>1 DEF StreamTypes
      <3> QED BY <1>1, <3>1 DEF Emit
    <2> QED BY <1>1, <1>t, <2>2 DEF Emit, StreamTypes
  <1>2. CASE Stop
    <2>1. chan' \in [Watchers -> Seq(Events)]
      BY <1>2 DEF Stop
    <2>2. conn' \in [Watchers -> {"idle", "open", "refused"}]
      BY <1>2, <1>t DEF Stop, StreamTypes
    <2> QED BY <1>2, <1>t, <2>1, <2>2 DEF Stop, StreamTypes
  <1>3. CASE Start \/ UNCHANGED vars
    BY <1>3, <1>t DEF Start, vars, streams, StreamTypes
  <1>4. ASSUME NEW p \in Pollers,
               Poll(p) \/ Resume(p) \/ Expire(p) \/ Receive(p) \/ Lose(p) \/ ReadStore(p)
        PROVE  StreamTypes'
    <2>1. UNCHANGED streams
      BY <1>4 DEF Poll, Resume, Expire, Receive, Lose, ReadStore
    <2> QED BY <1>t, <2>1 DEF streams, StreamTypes
  <1>5. ASSUME NEW w \in Watchers, Connect(w) \/ PollOnce(w)
        PROVE  StreamTypes'
    <2> DEFINE new == Ids(lastId[w], Replay(w))
    <2>1. Replay(w) \in 0..MaxEvents /\ new \in Seq(Events)
      BY ReplayIs
    <2> HIDE DEF new
    <2>2. CASE Connect(w)
      <3>1. /\ conn' = [conn EXCEPT ![w] = "open"]
            /\ chan' = [chan EXCEPT ![w] = new]
            /\ overrun' \subseteq overrun \cup {w}
            /\ UNCHANGED <<lastId, seen>>
        BY <2>2 DEF Connect, new
      <3> QED BY <1>t, <2>1, <3>1 DEF StreamTypes
    <2>3. CASE PollOnce(w)
      <3>1. /\ seen' = [seen EXCEPT ![w] = @ \o new]
            /\ lastId' = [lastId EXCEPT ![w] = Replay(w)]
            /\ UNCHANGED <<conn, chan, overrun>>
        BY <2>3 DEF PollOnce, new
      <3>2. seen[w] \o new \in Seq(Events)
        BY <1>t, <2>1 DEF StreamTypes
      <3> QED BY <1>t, <2>1, <3>1, <3>2 DEF StreamTypes
    <2> QED BY <1>5, <2>2, <2>3
  <1>6. ASSUME NEW w \in Watchers, Refuse(w) \/ EndStream(w)
        PROVE  StreamTypes'
    <2>1. CASE Refuse(w)
      BY <1>t, <2>1 DEF Refuse, StreamTypes
    <2>2. CASE EndStream(w)
      BY <1>t, <2>2 DEF EndStream, StreamTypes
    <2> QED BY <1>6, <2>1, <2>2
  <1>7. ASSUME NEW w \in Watchers, Deliver(w)
        PROVE  StreamTypes'
    <2>1. chan[w] \in Seq(Events) /\ chan[w] # <<>>
      BY <1>7, <1>t DEF Deliver, StreamTypes
    <2>2. Head(chan[w]) \in Events /\ Tail(chan[w]) \in Seq(Events)
      BY <2>1
    <2>3. Head(chan[w]) \in 0..MaxEvents
      BY <2>2 DEF Events
    <2>4. Append(seen[w], Head(chan[w])) \in Seq(Events)
      BY <1>t, <2>2 DEF StreamTypes
    <2>5. chan' \in [Watchers -> Seq(Events)] /\ UNCHANGED <<conn, overrun>>
      BY <1>7, <1>t, <2>2 DEF Deliver, StreamTypes
    <2>6. lastId' \in [Watchers -> 0..MaxEvents] /\ seen' \in [Watchers -> Seq(Events)]
      BY <1>7, <1>t, <2>3, <2>4 DEF Deliver, StreamTypes
    <2> QED BY <1>t, <2>5, <2>6 DEF StreamTypes
  <1> QED BY <1>1, <1>2, <1>3, <1>4, <1>5, <1>6, <1>7 DEF Next

(* What a watcher's own step and everybody else's do to its stream.        *)
LEMMA AheadStep ==
  ASSUME TypeOK, StreamsInv, [Next]_vars, NEW v \in Watchers
  PROVE  Ahead(v)'
  <1>t. /\ lastId[v] \in Nat /\ written \in Nat /\ chan[v] \in Seq(Events)
        /\ conn \in [Watchers -> {"idle", "open", "refused"}]
        /\ chan \in [Watchers -> Seq(Events)]
        /\ lastId \in [Watchers -> 0..MaxEvents]
    BY DEF TypeOK
  <1>i. lastId[v] <= written /\ \A i \in DOMAIN chan[v] : chan[v][i] <= written
    BY DEF StreamsInv, Ahead
  <1>n. \A i \in DOMAIN chan[v] : chan[v][i] \in Nat
    BY <1>t DEF Events
  <1>1. CASE Emit
    <2>1. written' = written + 1 /\ lastId'[v] = lastId[v]
      BY <1>1 DEF Emit
    <2>2. chan'[v] = chan[v] \/ chan'[v] = Append(chan[v], written + 1)
      BY <1>1 DEF Emit
    <2>3. ASSUME NEW i \in DOMAIN chan'[v]
          PROVE  chan'[v][i] <= written + 1
      <3>1. CASE i \in DOMAIN chan[v] /\ chan'[v][i] = chan[v][i]
        BY <1>t, <1>i, <1>n, <3>1
      <3>2. CASE chan'[v][i] = written + 1
        BY <1>t, <3>2
      <3>3. CASE chan'[v] = Append(chan[v], written + 1)
        <4>1. \/ i \in DOMAIN chan[v] /\ Append(chan[v], written + 1)[i] = chan[v][i]
              \/ Append(chan[v], written + 1)[i] = written + 1
          BY <1>t, <2>3, <3>3
        <4> QED BY <3>1, <3>2, <3>3, <4>1
      <3> QED BY <2>2, <2>3, <3>1, <3>3
    <2>4. lastId[v] <= written + 1
      BY <1>t, <1>i
    <2> QED BY <2>1, <2>3, <2>4 DEF Ahead
  <1>2. CASE Stop
    <2>1. written' = written /\ lastId' = lastId /\ chan'[v] = <<>>
      BY <1>2 DEF Stop
    <2> QED BY <1>i, <2>1 DEF Ahead
  <1>3. CASE UNCHANGED <<written, lastId, chan>>
    BY <1>3, <1>i DEF Ahead
  <1>4. ASSUME NEW p \in Pollers,
               Poll(p) \/ Resume(p) \/ Expire(p) \/ Receive(p) \/ Lose(p) \/ ReadStore(p)
        PROVE  UNCHANGED <<written, lastId, chan>>
    BY <1>4 DEF Poll, Resume, Expire, Receive, Lose, ReadStore, streams
  <1>5. ASSUME NEW w \in Watchers, Connect(w)
        PROVE  Ahead(v)'
    <2>1. CASE w # v
      BY <1>5, <1>i, <1>t, <2>1 DEF Connect, Ahead
    <2>2. CASE w = v
      <3> DEFINE l == lastId[v]
                 r == Replay(v)
      <3>1. l \in Nat /\ r \in Nat /\ l <= r /\ r <= written
        BY ReplayIs
      <3>2. chan'[v] = Ids(l, r) /\ lastId' = lastId /\ written' = written
        BY <1>5, <1>t, <2>2 DEF Connect
      <3> HIDE DEF l, r
      <3>3. \A i \in DOMAIN Ids(l, r) : Ids(l, r)[i] <= written
        BY <1>t, <3>1 DEF Ids
      <3> QED BY <1>i, <3>2, <3>3 DEF Ahead
    <2> QED BY <2>1, <2>2
  <1>6. ASSUME NEW w \in Watchers, PollOnce(w)
        PROVE  Ahead(v)'
    <2>1. UNCHANGED <<written, chan>> /\ lastId' = [lastId EXCEPT ![w] = Replay(w)]
      BY <1>6 DEF PollOnce
    <2>2. Replay(w) <= written
      BY ReplayIs
    <2>3. lastId'[v] <= written
      BY <1>t, <1>i, <2>1, <2>2
    <2> QED BY <1>i, <2>1, <2>3 DEF Ahead
  <1>7. ASSUME NEW w \in Watchers, Deliver(w)
        PROVE  Ahead(v)'
    <2>1. CASE w # v
      BY <1>7, <1>i, <1>t, <2>1 DEF Deliver, Ahead
    <2>2. CASE w = v
      <3>1. chan[v] # <<>> /\ chan'[v] = Tail(chan[v]) /\ written' = written
        BY <1>7, <1>t, <2>2 DEF Deliver
      <3>2. lastId'[v] \in {lastId[v], Head(chan[v])}
        BY <1>7, <1>t, <2>2 DEF Deliver
      <3>3. Head(chan[v]) = chan[v][1] /\ 1 \in DOMAIN chan[v]
        BY <1>t, <3>1
      <3>4. lastId'[v] <= written
        BY <1>i, <3>2, <3>3
      <3>5. \A i \in DOMAIN Tail(chan[v]) :
              i + 1 \in DOMAIN chan[v] /\ Tail(chan[v])[i] = chan[v][i + 1]
        BY <1>t, <3>1
      <3> QED BY <1>i, <3>1, <3>4, <3>5 DEF Ahead
    <2> QED BY <2>1, <2>2
  <1>8. ASSUME NEW w \in Watchers, EndStream(w)
        PROVE  Ahead(v)'
    <2>1. UNCHANGED <<written, lastId>> /\ chan'[v] \in {chan[v], <<>>}
      BY <1>8, <1>t DEF EndStream
    <2> QED BY <1>i, <2>1 DEF Ahead
  <1>9. CASE Start \/ UNCHANGED vars \/ (\E w \in Watchers : Refuse(w))
    BY <1>9, <1>3 DEF Start, vars, streams, Refuse
  <1> QED BY <1>1, <1>2, <1>3, <1>4, <1>5, <1>6, <1>7, <1>8, <1>9 DEF Next

LEMMA ContiguousStep ==
  ASSUME TypeOK, StreamsInv, [Next]_vars, NEW v \in Watchers
  PROVE  Contiguous(v)'
  <1> DEFINE l == lastId[v]
  <1>t. /\ l \in Nat /\ written \in Nat /\ l <= written /\ Replay(v) \in Nat
        /\ l <= Replay(v)
        /\ conn \in [Watchers -> {"idle", "open", "refused"}]
        /\ chan \in [Watchers -> Seq(Events)] /\ overrun \subseteq Watchers
        /\ lastId \in [Watchers -> 0..MaxEvents]
        /\ seen \in [Watchers -> Seq(Events)]
    BY ReplayIs DEF TypeOK
  <1>i. v \notin overrun =>
          /\ seen[v] = Ids(0, l)
          /\ conn[v] = "open" => chan[v] = Ids(l, written)
    BY DEF StreamsInv, Contiguous
  <1>1. CASE Emit
    <2>1. /\ lastId' = lastId /\ seen' = seen /\ conn' = conn /\ overrun' = overrun
          /\ written' = written + 1
          /\ conn[v] = "open" => chan'[v] = Append(chan[v], written + 1)
      BY <1>1 DEF Emit
    <2>2. Append(Ids(l, written), written + 1) = Ids(l, written + 1)
      BY <1>t, IdsAppend
    <2> QED BY <1>i, <2>1, <2>2 DEF Contiguous
  <1>2. CASE Stop
    <2>1. /\ lastId' = lastId /\ seen' = seen /\ overrun' = overrun
          /\ conn'[v] # "open"
      BY <1>2 DEF Stop
    <2> QED BY <1>i, <2>1 DEF Contiguous
  <1>3. CASE UNCHANGED <<written, streams>>
    BY <1>3, <1>i DEF Contiguous, streams
  <1>4. ASSUME NEW p \in Pollers,
               Poll(p) \/ Resume(p) \/ Expire(p) \/ Receive(p) \/ Lose(p) \/ ReadStore(p)
        PROVE  UNCHANGED <<written, streams>>
    BY <1>4 DEF Poll, Resume, Expire, Receive, Lose, ReadStore
  <1>5. CASE Connect(v)
    <2>1. /\ lastId' = lastId /\ seen' = seen /\ written' = written
          /\ chan'[v] = Ids(l, Replay(v))
          /\ overrun' = IF Missed(v) > ReplayLimit THEN overrun \cup {v} ELSE overrun
      BY <1>5, <1>t DEF Connect
    <2>2. Missed(v) \in Nat /\ (Missed(v) > ReplayLimit \/ Replay(v) = written)
      BY <1>t, ReplayIs DEF Missed
    <2>3. v \notin overrun' => v \notin overrun /\ Replay(v) = written
      BY <2>1, <2>2
    <2> QED BY <1>i, <2>1, <2>3 DEF Contiguous
  <1>6. CASE PollOnce(v)
    <2>1. /\ written' = written /\ overrun' = overrun /\ conn'[v] = "idle"
          /\ lastId'[v] = Replay(v)
          /\ seen'[v] = seen[v] \o Ids(l, Replay(v))
      BY <1>6, <1>t DEF PollOnce
    <2>2. Ids(0, l) \o Ids(l, Replay(v)) = Ids(0, Replay(v))
      BY <1>t, IdsJoin
    <2> QED BY <1>i, <2>1, <2>2 DEF Contiguous
  <1>7. CASE Deliver(v)
    <2>1. /\ written' = written /\ overrun' = overrun /\ conn' = conn
          /\ conn[v] = "open" /\ chan[v] # <<>> /\ chan'[v] = Tail(chan[v])
      BY <1>7, <1>t DEF Deliver
    <2>2. SUFFICES ASSUME v \notin overrun
                   PROVE  Contiguous(v)'
      BY <2>1 DEF Contiguous
    <2>3. seen[v] = Ids(0, l) /\ chan[v] = Ids(l, written)
      BY <1>i, <2>1, <2>2
    <2>4. l < written
      <3>1. l = written => Len(Ids(l, written)) = 0 /\ Ids(l, written) \in Seq(Nat)
        BY <1>t, IdsType
      <3>2. l # written
        BY <2>1, <2>3, <3>1
      <3> QED BY <1>t, <3>2
    <2>5. Head(chan[v]) = l + 1 /\ Tail(chan[v]) = Ids(l + 1, written)
      BY <1>t, <2>3, <2>4, IdsTail
    <2>6. ~(Head(chan[v]) <= lastId[v])
      BY <1>t, <2>5
    <2>7. lastId'[v] = l + 1 /\ seen'[v] = Append(seen[v], l + 1)
      BY <1>7, <1>t, <2>5, <2>6 DEF Deliver
    <2>8. Append(Ids(0, l), l + 1) = Ids(0, l + 1)
      <3>1. 0 \in Nat /\ 0 <= l
        BY <1>t
      <3> QED BY <1>t, <3>1, IdsAppend
    <2> HIDE DEF l
    <2> QED BY <2>1, <2>3, <2>5, <2>7, <2>8 DEF Contiguous
  <1>8. CASE Refuse(v) \/ EndStream(v)
    <2>1. /\ written' = written /\ overrun' = overrun
          /\ lastId' = lastId /\ seen' = seen /\ conn'[v] # "open"
      BY <1>8, <1>t DEF Refuse, EndStream
    <2> QED BY <1>i, <2>1 DEF Contiguous
  <1>9. ASSUME NEW w \in Watchers, w # v,
               Connect(w) \/ PollOnce(w) \/ Refuse(w) \/ Deliver(w) \/ EndStream(w)
        PROVE  Contiguous(v)'
    <2>1. /\ written' = written /\ lastId'[v] = lastId[v] /\ seen'[v] = seen[v]
          /\ chan'[v] = chan[v] /\ conn'[v] = conn[v]
      BY <1>9, <1>t DEF Connect, PollOnce, Refuse, Deliver, EndStream
    <2>2. v \in overrun' <=> v \in overrun
      BY <1>9 DEF Connect, PollOnce, Refuse, Deliver, EndStream
    <2> QED BY <1>i, <2>1, <2>2 DEF Contiguous
  <1>10. CASE Start \/ UNCHANGED vars
    BY <1>10, <1>3 DEF Start, vars
  <1> QED BY <1>1, <1>2, <1>3, <1>4, <1>5, <1>6, <1>7, <1>8, <1>9, <1>10 DEF Next

LEMMA AscendingStep ==
  ASSUME TypeOK, StreamsInv, [Next]_vars, NEW v \in Watchers
  PROVE  Ascending(v)'
  <1> DEFINE l == lastId[v]
             r == Replay(v)
  <1>t. /\ l \in Nat /\ r \in Nat /\ l <= r
        /\ lastId \in [Watchers -> 0..MaxEvents]
        /\ seen \in [Watchers -> Seq(Events)] /\ seen[v] \in Seq(Nat)
        /\ chan \in [Watchers -> Seq(Events)]
    BY ReplayIs DEF TypeOK, Events
  <1>i. /\ \A i \in DOMAIN seen[v] : seen[v][i] <= l
        /\ \A i, j \in DOMAIN seen[v] : i < j => seen[v][i] < seen[v][j]
    BY DEF StreamsInv, Ascending
  <1>1. CASE lastId'[v] = lastId[v] /\ seen'[v] = seen[v]
    BY <1>1, <1>i DEF Ascending
  <1>2. CASE PollOnce(v)
    <2>1. lastId'[v] = r /\ seen'[v] = seen[v] \o Ids(l, r)
      BY <1>2, <1>t DEF PollOnce
    <2> DEFINE s == seen[v]
               b == Ids(l, r)
               c == s \o b
    <2>2. /\ b \in Seq(Nat) /\ Len(b) = r - l
          /\ \A i \in 1..(r - l) : b[i] = l + i
      BY <1>t, IdsType
    <2>3. s \in Seq(Nat) /\ DOMAIN s = 1..Len(s) /\ Len(s) \in Nat
      BY <1>t
    <2> HIDE DEF s, b, l, r
    <2>4. c \in Seq(Nat) /\ Len(c) = Len(s) + (r - l) /\ DOMAIN c = 1..Len(c)
      <3>1. c \in Seq(Nat) /\ Len(c) = Len(s) + Len(b)
        BY <2>2, <2>3, ConcatProperties
      <3> HIDE DEF c
      <3> QED BY <2>2, <3>1
    <2>5. ASSUME NEW i \in 1..Len(c)
          PROVE  \/ i <= Len(s) /\ i \in DOMAIN s /\ c[i] = s[i]
                 \/ i > Len(s) /\ i - Len(s) \in 1..(r - l)
                               /\ c[i] = l + (i - Len(s))
      <3>1. CASE i <= Len(s)
        BY <2>2, <2>3, <3>1
      <3>2. CASE i > Len(s)
        <4>1. i - Len(s) \in 1..(r - l)
          BY <1>t, <2>3, <2>4, <3>2
        <4>2. c[i] = b[i - Len(s)]
          BY <2>2, <2>3, <2>4, <3>2
        <4> QED BY <2>2, <3>2, <4>1, <4>2
      <3>3. i <= Len(s) \/ i > Len(s)
        BY <2>3
      <3> QED BY <3>1, <3>2, <3>3
    <2>6. \A i \in DOMAIN s : s[i] <= l /\ s[i] \in Nat
      BY <1>i, <2>3 DEF s
    <2>7. \A i, j \in DOMAIN s : i < j => s[i] < s[j]
      BY <1>i DEF s
    <2>8. ASSUME NEW i \in DOMAIN c
          PROVE  c[i] <= r
      <3> HIDE DEF c
      <3>1. i \in 1..Len(c) /\ i \in Nat
        BY <2>4
      <3>2. CASE i \in DOMAIN s /\ c[i] = s[i]
        BY <1>t, <2>6, <3>2
      <3>3. CASE i - Len(s) \in 1..(r - l) /\ c[i] = l + (i - Len(s))
        BY <1>t, <2>3, <3>1, <3>3
      <3> QED BY <2>5, <3>1, <3>2, <3>3
    <2>9. ASSUME NEW i \in DOMAIN c, NEW j \in DOMAIN c, i < j
          PROVE  c[i] < c[j]
      <3> HIDE DEF c
      <3>1. i \in 1..Len(c) /\ j \in 1..Len(c) /\ i \in Nat /\ j \in Nat
        BY <2>4
      <3>2. CASE j <= Len(s)
        <4>1. i <= Len(s)
          BY <2>3, <2>9, <3>1, <3>2
        <4>2. i \in DOMAIN s /\ c[i] = s[i] /\ j \in DOMAIN s /\ c[j] = s[j]
          BY <2>3, <2>5, <3>1, <3>2, <4>1
        <4> QED BY <2>7, <2>9, <4>2
      <3>3. CASE j > Len(s)
        <4>1. c[j] = l + (j - Len(s)) /\ j - Len(s) \in Nat
          BY <2>3, <2>5, <3>1, <3>3
        <4>2. CASE i <= Len(s)
          <5>1. i \in DOMAIN s /\ c[i] = s[i]
            BY <2>3, <2>5, <3>1, <4>2
          <5>2. s[i] <= l /\ s[i] \in Nat
            BY <2>6, <5>1
          <5> QED BY <1>t, <2>3, <3>1, <3>3, <4>1, <5>1, <5>2
        <4>3. CASE i > Len(s)
          <5>1. c[i] = l + (i - Len(s))
            BY <2>3, <2>5, <3>1, <4>3
          <5> QED BY <1>t, <2>3, <2>9, <3>1, <4>1, <5>1
        <4> QED BY <2>3, <3>1, <4>2, <4>3
      <3> QED BY <2>3, <3>1, <3>2, <3>3
    <2>10. seen'[v] = c /\ lastId'[v] = r
      BY <2>1 DEF s, b, l, r
    <2> HIDE DEF c
    <2> QED BY <2>8, <2>9, <2>10 DEF Ascending
  <1>3. CASE Deliver(v)
    <2> DEFINE h == Head(chan[v])
               s == seen[v]
    <2>1. chan[v] \in Seq(Events) /\ chan[v] # <<>>
      BY <1>3, <1>t DEF Deliver
    <2>2. h \in Events /\ h \in Nat
      BY <2>1 DEF Events
    <2>3. CASE h <= lastId[v]
      BY <1>1, <1>3, <2>3 DEF Deliver
    <2>4. CASE ~(h <= lastId[v])
      <3>1. lastId'[v] = h /\ seen'[v] = Append(s, h)
        BY <1>3, <1>t, <2>4 DEF Deliver
      <3>2. l < h
        BY <1>t, <2>2, <2>4
      <3>3. /\ s \in Seq(Nat) /\ \A i \in DOMAIN s : s[i] <= l
            /\ \A i, j \in DOMAIN s : i < j => s[i] < s[j]
        BY <1>t, <1>i
      <3> HIDE DEF s, h, l
      <3>4. /\ Append(s, h) \in Seq(Nat) /\ DOMAIN Append(s, h) = 1..(Len(s) + 1)
            /\ DOMAIN s = 1..Len(s) /\ Len(s) \in Nat
            /\ Append(s, h)[Len(s) + 1] = h
            /\ \A i \in 1..Len(s) : Append(s, h)[i] = s[i] /\ s[i] \in Nat
        BY <2>2, <3>3
      <3> DEFINE c == Append(s, h)
      <3> HIDE DEF c
      <3>5. \A i \in DOMAIN c : c[i] <= h
        BY <1>t, <2>2, <3>2, <3>3, <3>4 DEF c
      <3>6. ASSUME NEW i \in DOMAIN c, NEW j \in DOMAIN c, i < j
            PROVE  c[i] < c[j]
        <4>1. i \in 1..Len(s)
          BY <3>4, <3>6 DEF c
        <4>2. CASE j \in 1..Len(s)
          BY <3>3, <3>4, <3>6, <4>1, <4>2 DEF c
        <4>3. CASE j = Len(s) + 1
          BY <1>t, <2>2, <3>2, <3>3, <3>4, <4>1, <4>3 DEF c
        <4> QED BY <3>4, <3>6, <4>2, <4>3 DEF c
      <3>7. seen'[v] = c /\ lastId'[v] = h
        BY <3>1 DEF c
      <3> QED BY <3>5, <3>6, <3>7 DEF Ascending
    <2> QED BY <2>3, <2>4
  <1>4. CASE Emit \/ Stop \/ Start \/ UNCHANGED vars
    BY <1>4, <1>1 DEF Emit, Stop, Start, vars, streams
  <1>5. ASSUME NEW p \in Pollers,
               Poll(p) \/ Resume(p) \/ Expire(p) \/ Receive(p) \/ Lose(p) \/ ReadStore(p)
        PROVE  UNCHANGED <<lastId, seen>>
    BY <1>5 DEF Poll, Resume, Expire, Receive, Lose, ReadStore, streams
  <1>6. ASSUME NEW w \in Watchers, Connect(w) \/ Refuse(w) \/ EndStream(w)
        PROVE  UNCHANGED <<lastId, seen>>
    BY <1>6 DEF Connect, Refuse, EndStream
  <1>7. ASSUME NEW w \in Watchers, w # v, PollOnce(w) \/ Deliver(w)
        PROVE  lastId'[v] = lastId[v] /\ seen'[v] = seen[v]
    BY <1>7, <1>t DEF PollOnce, Deliver
  <1> QED BY <1>1, <1>2, <1>3, <1>4, <1>5, <1>6, <1>7 DEF Next

-----------------------------------------------------------------------------
(* The polls.  Nobody else's step, and no step of a watcher, touches one.  *)
LEMMA PollSame ==
  ASSUME NEW p \in Pollers, PollInv(p), written' = written,
         cursor'[p] = cursor[p], poll'[p] = poll[p], at'[p] = at[p],
         answer'[p] = answer[p]
  PROVE  PollInv(p)'
  BY DEF PollInv, Covers, Own, After

LEMMA PollStep ==
  ASSUME TypeOK, PollsInv, [Next]_vars, NEW q \in Pollers
  PROVE  PollInv(q)'
  <1>t. TableTypes /\ PollTypes
    BY TypeParts
  <1>c. cursor[q] \in Nat /\ written \in Nat /\ at[q] \in Nat
    BY <1>t DEF TableTypes, PollTypes
  <1>i. PollInv(q)
    BY DEF PollsInv
  <1>1. CASE Emit
    <2>1. /\ written' = written + 1 /\ cursor' = cursor /\ at' = at
          /\ answer' = answer
      BY <1>1 DEF Emit
    <2>2. poll'[q] = IF poll[q] = "waiting" /\ OfCall(written + 1)
                     THEN "woken" ELSE poll[q]
      BY <1>1 DEF Emit
    <2>3. ASSUME NEW u, NEW S, Covers(q, cursor[q], u, S)
          PROVE  u \in cursor[q]..(written + 1) /\ S = {e \in (cursor[q] + 1)..u : For(q, e)}
      BY <1>c, <2>3 DEF Covers
    <2>4. cursor'[q] <= written'
      BY <1>c, <1>i, <2>1 DEF PollInv
    <2>5. poll'[q] \in {"waiting", "woken"} => Covers(q, cursor[q], at[q], {})'
      BY <1>i, <2>1, <2>2, <2>3 DEF PollInv, Covers
    <2>6. poll'[q] = "answered" => Covers(q, cursor[q], answer[q].upto, answer[q].events)'
      BY <1>i, <2>1, <2>2, <2>3 DEF PollInv, Covers
    <2>7. ASSUME poll'[q] = "waiting"
          PROVE  Own(q, After(at[q]))' = {}
      <3>1. poll[q] = "waiting" /\ ~OfCall(written + 1)
        BY <2>2, <2>7
      <3>2. Own(q, After(at[q])) = {}
        BY <1>i, <3>1 DEF PollInv
      <3>3. \A e \in (at[q] + 1)..(written + 1) :
              e = written + 1 \/ e \in (at[q] + 1)..written
        BY <1>c
      <3> QED BY <2>1, <3>1, <3>2, <3>3 DEF Own, After
    <2> QED BY <2>4, <2>5, <2>6, <2>7 DEF PollInv
  <1>2. CASE Stop
    <2>1. poll'[q] = "idle" /\ cursor' = cursor /\ written' = written
      BY <1>2 DEF Stop
    <2> QED BY <1>i, <2>1 DEF PollInv
  <1>3. CASE Start \/ UNCHANGED vars
    BY <1>3, <1>i, PollSame DEF Start, vars, polls
  <1>4. CASE Poll(q) \/ Resume(q) \/ Expire(q)
    <2>1. written' = written /\ cursor' = cursor
      BY <1>4, HandlerGives
    <2>2. ASSUME NEW u, NEW S, Covers(q, cursor[q], u, S), Answer(q, u, S)
          PROVE  PollInv(q)'
      <3>1. poll'[q] = "answered" /\ answer'[q] = [upto |-> u, events |-> S]
        BY <1>t, <2>2 DEF Answer, PollTypes
      <3> QED BY <1>i, <2>1, <2>2, <3>1 DEF PollInv, Covers
    <2>3. ASSUME NEW d, Covers(q, cursor[q], d, {}), Own(q, After(d)) = {},
                 Wait(q, d)
          PROVE  PollInv(q)'
      <3>1. poll'[q] = "waiting" /\ at'[q] = d
        BY <1>t, <2>3 DEF Wait, PollTypes
      <3> QED BY <1>i, <2>1, <2>3, <3>1 DEF PollInv, Covers, Own, After
    <2> QED BY <1>4, <2>2, <2>3, HandlerGives
  <1>5. CASE Receive(q)
    <2>1. /\ poll'[q] = "idle" /\ written' = written
          /\ cursor'[q] = answer[q].upto /\ poll[q] = "answered"
      BY <1>5, <1>t DEF Receive, PollTypes
    <2>2. answer[q].upto <= written
      BY <1>i, <2>1 DEF PollInv, Covers
    <2> QED BY <2>1, <2>2 DEF PollInv
  <1>6. CASE Lose(q)
    <2>1. poll'[q] = "idle" /\ written' = written /\ cursor' = cursor
      BY <1>6, <1>t DEF Lose, PollTypes
    <2> QED BY <1>i, <2>1 DEF PollInv
  <1>7. CASE ReadStore(q)
    <2>1. /\ poll'[q] = "idle" /\ written' = written
          /\ cursor'[q] = Last(PageOf(cursor[q], 0), cursor[q])
      BY <1>7, <1>t DEF ReadStore, PollTypes
    <2>2. cursor[q] \in 0..written
      BY <1>c, <1>i DEF PollInv
    <2>3. Covers(q, cursor[q], cursor'[q], Own(q, PageOf(cursor[q], 0)))
      BY <2>1, <2>2, FirstPageCovers
    <2>4. cursor'[q] <= written
      BY <1>c, <2>3 DEF Covers
    <2> QED BY <2>1, <2>4 DEF PollInv
  <1>8. ASSUME NEW p \in Pollers, p # q,
               Poll(p) \/ Resume(p) \/ Expire(p) \/ Receive(p) \/ Lose(p) \/ ReadStore(p)
        PROVE  PollInv(q)'
    <2>1. CASE Poll(p) \/ Resume(p) \/ Expire(p)
      <3>1. written' = written /\ cursor' = cursor
        BY <2>1, HandlerGives
      <3>2. (\E u, S : Answer(p, u, S)) \/ (\E d : Wait(p, d))
        BY <2>1, HandlerGives
      <3>3. poll'[q] = poll[q] /\ at'[q] = at[q] /\ answer'[q] = answer[q]
        BY <1>8, <1>t, <3>2 DEF Answer, Wait, PollTypes
      <3> QED BY <1>i, <3>1, <3>3, PollSame
    <2>2. CASE Receive(p) \/ Lose(p) \/ ReadStore(p)
      <3>1. /\ poll'[q] = poll[q] /\ at'[q] = at[q] /\ answer'[q] = answer[q]
            /\ cursor'[q] = cursor[q] /\ written' = written
        BY <1>8, <1>t, <2>2 DEF Receive, Lose, ReadStore, PollTypes
      <3> QED BY <1>i, <3>1, PollSame
    <2> QED BY <1>8, <2>1, <2>2
  <1>9. ASSUME NEW w \in Watchers,
               Connect(w) \/ PollOnce(w) \/ Refuse(w) \/ Deliver(w) \/ EndStream(w)
        PROVE  PollInv(q)'
    <2>1. written' = written /\ UNCHANGED polls
      BY <1>9 DEF Connect, PollOnce, Refuse, Deliver, EndStream
    <2> QED BY <1>i, <2>1, PollSame DEF polls
  <1> QED BY <1>1, <1>2, <1>3, <1>4, <1>5, <1>6, <1>7, <1>8, <1>9 DEF Next

-----------------------------------------------------------------------------
(* The theorems.                                                           *)
IInv == TypeOK /\ PollsInv /\ StreamsInv

LEMMA IInvInit == Init => IInv
  <1> SUFFICES ASSUME Init
               PROVE  IInv
    OBVIOUS
  <1>1. TableTypes
    BY FeedAssumption DEF Init, TableTypes
  <1>2. PollTypes
    BY FeedAssumption DEF Init, PollTypes, NoAnswer
  <1>3. StreamTypes
    BY FeedAssumption DEF Init, StreamTypes
  <1>4. PollsInv
    BY DEF Init, PollsInv, PollInv
  <1>5. StreamsInv
    <2>1. \A w \in Watchers : Ahead(w)
      BY DEF Init, Ahead
    <2>2. \A w \in Watchers : Ascending(w)
      BY DEF Init, Ascending
    <2>3. \A w \in Watchers : Contiguous(w)
      <3>1. Len(Ids(0, 0)) = 0 /\ Ids(0, 0) \in Seq(Nat)
        BY IdsType
      <3>2. Ids(0, 0) = <<>>
        BY <3>1
      <3> QED BY <3>2 DEF Init, Contiguous
    <2> QED BY <2>1, <2>2, <2>3 DEF StreamsInv
  <1> QED BY <1>1, <1>2, <1>3, <1>4, <1>5, TypeParts DEF IInv

LEMMA IInvStep == IInv /\ [Next]_vars => IInv'
  <1> SUFFICES ASSUME IInv, [Next]_vars
               PROVE  IInv'
    OBVIOUS
  <1>1. TypeOK /\ PollsInv /\ StreamsInv
    BY DEF IInv
  <1>2. TypeOK'
    BY <1>1, TableStep, PollTypeStep, StreamTypeStep, TypeParts
  <1>3. PollsInv'
    BY <1>1, PollStep DEF PollsInv
  <1>4. StreamsInv'
    BY <1>1, AheadStep, ContiguousStep, AscendingStep DEF StreamsInv
  <1> QED BY <1>2, <1>3, <1>4 DEF IInv

(* Every reachable state of the feed is well typed.                        *)
THEOREM Types == Spec => []TypeOK
  <1>1. IInv => TypeOK
    BY DEF IInv
  <1> QED BY <1>1, IInvInit, IInvStep, PTL DEF Spec

(* No poll of get_call_events sleeps over an event that is for its client: *)
(* the read and the listener leave no gap, and the reading on past other   *)
(* members' questions skips nothing.                                       *)
THEOREM PollsSleepSoundly == Spec => []NoLostWakeup
  <1>1. IInv => NoLostWakeup
    BY DEF IInv, PollsInv, PollInv, NoLostWakeup
  <1> QED BY <1>1, IInvInit, IInvStep, PTL DEF Spec

(* The replay and the live events of the global stream join without a gap  *)
(* for a watcher within the replay limit, and no watcher sees an event     *)
(* twice or out of order.                                                  *)
THEOREM ReplayIsFaithful == Spec => []ReplayFaithful
  <1>1. IInv => ReplayFaithful
    BY DEF IInv, StreamsInv, Contiguous, Ascending, ReplayFaithful,
           NoGapBelowLimit, InOrderOnce
  <1> QED BY <1>1, IInvInit, IInvStep, PTL DEF Spec

(* The client takes what a read that covers its cursor found.              *)
LEMMA TakingAdvances ==
  ASSUME TypeOK, NEW p \in Pollers, NEW u, NEW S,
         Covers(p, cursor[p], u, S), written' = written,
         cursor' = [cursor EXCEPT ![p] = u],
         told' = [told EXCEPT ![p] = [e \in Events |-> @[e] + Carry(S)[e]]]
  PROVE  [Feed(p)!FeedNext]_(Feed(p)!feedVars)
  <1>t. /\ cursor[p] \in Nat /\ written \in Nat /\ written <= MaxEvents
        /\ told[p] \in [Events -> Nat] /\ told \in [Pollers -> [Events -> Nat]]
        /\ cursor \in [Pollers -> 0..MaxEvents]
    BY DEF TypeOK
  <1>1. u \in cursor[p]..written /\ S = {e \in (cursor[p] + 1)..u : For(p, e)}
    BY DEF Covers
  <1>2. cursor'[p] = u /\ told'[p] = [e \in Events |-> told[p][e] + Carry(S)[e]]
    BY <1>t
  <1>3. \A e \in Events :
          Carry(S)[e] = IF e \in (cursor[p] + 1)..u
                           /\ e \notin {f \in Events : ~For(p, f)} THEN 1 ELSE 0
    BY <1>1 DEF Carry
  <1>4. told'[p] = [e \in Events |->
                      IF e \in (cursor[p] + 1)..u
                         /\ e \notin {f \in Events : ~For(p, f)}
                      THEN told[p][e] + 1 ELSE told[p][e]]
    BY <1>t, <1>2, <1>3
  <1>5. CASE u = cursor[p]
    <2>1. (cursor[p] + 1)..u = {}
      BY <1>t, <1>5
    <2>2. told'[p] = told[p]
      BY <1>t, <1>4, <2>1
    <2> QED BY <1>2, <1>5, <2>2 DEF Feed!feedVars
  <1>6. CASE u # cursor[p]
    <2>1. u \in (cursor[p] + 1)..written /\ u \in 1..MaxEvents
      BY <1>t, <1>1, <1>6
    <2>2. Feed(p)!Advance(u)
      BY <1>2, <1>4, <2>1 DEF Feed!Advance, Events
    <2> QED BY <2>1, <2>2 DEF Feed!FeedNext
  <1> QED BY <1>5, <1>6

(* Seen from each client, get_call_events implements RowFeed.              *)
THEOREM RefinesRowFeed == Spec => ImplementsRowFeed
  <1>1. Init => \A p \in Pollers : Feed(p)!FeedInit
    BY DEF Init, Feed!FeedInit, Events
  <1>2. IInv /\ [Next]_vars
          => [\A p \in Pollers : [Feed(p)!FeedNext]_(Feed(p)!feedVars)]_vars
    <2> SUFFICES ASSUME IInv, [Next]_vars, NEW p \in Pollers
                 PROVE  [Feed(p)!FeedNext]_(Feed(p)!feedVars)
      OBVIOUS
    <2>t. TypeOK /\ PollsInv /\ TableTypes /\ PollTypes
      BY TypeParts DEF IInv
    <2>1. CASE Emit
      BY <2>1 DEF Emit, Feed!FeedNext, Feed!AppendRow
    <2>2. CASE Stop \/ Start \/ UNCHANGED vars
      BY <2>2 DEF Stop, Start, vars, polls, Feed!feedVars
    <2>3. ASSUME NEW q \in Pollers, Poll(q) \/ Resume(q) \/ Expire(q) \/ Lose(q)
          PROVE  [Feed(p)!FeedNext]_(Feed(p)!feedVars)
      BY <2>3 DEF Poll, Resume, Expire, Lose, Feed!feedVars
    <2>4. ASSUME NEW q \in Pollers, q # p, Receive(q) \/ ReadStore(q)
          PROVE  [Feed(p)!FeedNext]_(Feed(p)!feedVars)
      <3>1. written' = written /\ cursor'[p] = cursor[p] /\ told'[p] = told[p]
        BY <2>4, <2>t DEF Receive, ReadStore, PollTypes
      <3> QED BY <3>1 DEF Feed!feedVars
    <2>5. CASE Receive(p)
      <3>1. Covers(p, cursor[p], answer[p].upto, answer[p].events)
        BY <2>5, <2>t DEF Receive, PollsInv, PollInv
      <3> QED BY <2>5, <2>t, <3>1, TakingAdvances DEF Receive
    <2>6. CASE ReadStore(p)
      <3>1. cursor[p] \in 0..written
        BY <2>t DEF PollsInv, PollInv, PollTypes, TableTypes
      <3> DEFINE page == PageOf(cursor[p], 0)
                 u == Last(page, cursor[p])
      <3>2. Covers(p, cursor[p], u, Own(p, page))
        BY <2>t, <3>1, FirstPageCovers
      <3>3. /\ written' = written /\ cursor' = [cursor EXCEPT ![p] = u]
            /\ told' = [told EXCEPT ![p] = [e \in Events |-> @[e] + Carry(Own(p, page))[e]]]
        BY <2>6 DEF ReadStore
      <3> HIDE DEF page, u
      <3> QED BY <2>t, <3>2, <3>3, TakingAdvances
    <2>7. ASSUME NEW w \in Watchers,
                 Connect(w) \/ PollOnce(w) \/ Refuse(w) \/ Deliver(w) \/ EndStream(w)
          PROVE  [Feed(p)!FeedNext]_(Feed(p)!feedVars)
      BY <2>7 DEF Connect, PollOnce, Refuse, Deliver, EndStream, polls, Feed!feedVars
    <2> QED BY <2>1, <2>2, <2>3, <2>4, <2>5, <2>6, <2>7 DEF Next
  <1> QED BY <1>1, <1>2, IInvInit, IInvStep, PTL DEF Spec, ImplementsRowFeed
=============================================================================
