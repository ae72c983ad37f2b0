------------------------------ MODULE EchoProofs ------------------------------
(***************************************************************************)
(* Proofs about SentEchoes for any number of sends and waits, any texts,   *)
(* any cap of the registry and any messages of others.                     *)
(*                                                                         *)
(* EchoInv adds to the types that no send is under way while a wait reads  *)
(* (Quiet), what an entry of the registry stands for (Listed), and that    *)
(* each row silenced has a send of its own (Explained).  Traces says which *)
(* messages of a send have entries; it needs no one-tool-at-a-time, but    *)
(* that no script is killed with its message handed over.                  *)
(***************************************************************************)
EXTENDS SentEchoes, FiniteSetTheorems, WellFoundedInduction, TLAPS

Entries == [send : Sends, text : Texts, since : Nat, pin : Messages \cup {0}]
Msg == [by : Sends \cup {"them", "user"}, text : Texts]

-----------------------------------------------------------------------------
(* Sets of messages have a first and a last element.                       *)
LEMMA LeastMessage ==
  ASSUME NEW S \in SUBSET Nat, S # {}
  PROVE  \E e \in S : \A f \in S : e <= f
  <1>1. PICK e \in S : \A f \in S : <<f, e>> \notin OpToRel(<, Nat)
    BY NatLessThanWellFounded, WFMin
  <1>2. ASSUME NEW f \in S
        PROVE  ~(f < e)
    <2>1. <<f, e>> \in Nat \X Nat /\ <<f, e>>[1] = f /\ <<f, e>>[2] = e
      OBVIOUS
    <2> QED BY <1>1, <2>1 DEF OpToRel
  <1>3. ASSUME NEW f \in S
        PROVE  e <= f
    <2>1. e \in Nat /\ f \in Nat
      OBVIOUS
    <2> QED BY <1>2, <2>1
  <1> QED BY <1>3

LEMMA MessageNumbers ==
  ASSUME msgs \in Seq(Msg)
  PROVE  Messages = 1..Len(msgs) /\ Len(msgs) \in Nat
  BY DEF Messages

LEMMA NewestIs ==
  ASSUME msgs \in Seq(Msg), NEW S \in SUBSET Messages
  PROVE  Newest(S) \in S \cup {0} /\ (S # {} => Newest(S) \in S)
  <1>1. Messages = 1..Len(msgs) /\ Len(msgs) \in Nat
    BY MessageNumbers
  <1>2. CASE S = {}
    BY <1>2 DEF Newest
  <1>3. CASE S # {}
    <2> DEFINE N == Len(msgs)
               T == {N - e : e \in S}
    <2>1. T \in SUBSET Nat /\ T # {}
      <3>1. \A e \in S : N - e \in Nat
        BY <1>1
      <3> QED BY <1>3, <3>1
    <2> HIDE DEF T
    <2>2. PICK t \in T : \A u \in T : t <= u
      BY <2>1, LeastMessage
    <2>3. PICK e \in S : t = N - e
      BY <2>2 DEF T
    <2>4. ASSUME NEW f \in S
          PROVE  f <= e
      <3>1. N - e <= N - f
        BY <2>2, <2>3, <2>4 DEF T
      <3> QED BY <1>1, <3>1
    <2> QED BY <1>3, <2>4 DEF Newest
  <1> QED BY <1>2, <1>3

-----------------------------------------------------------------------------
(* consume, and a round of it.                                             *)
Kin(e, f) == e.send = f.send /\ e.text = f.text /\ e.since = f.since
Wants(e, m) == e.pin = 0 /\ m >= e.since /\ e.text = msgs[m].text

LEMMA ConsumeIs ==
  ASSUME msgs \in Seq(Msg), NEW E \in Seq(Entries), NEW m \in Messages
  PROVE  LET F == Consume(E, m) IN
         /\ F \in Seq(Entries) /\ DOMAIN F = DOMAIN E
         /\ \A i \in DOMAIN E :
              /\ Kin(F[i], E[i])
              /\ F[i].pin = E[i].pin \/ (F[i].pin = m /\ Wants(E[i], m))
         /\ \/ \E i \in DOMAIN F : F[i].pin = m
            \/ \A i \in DOMAIN E : ~Wants(E[i], m)
  <1> DEFINE S == {i \in DOMAIN E : Matches(E[i], m)}
  <1>1. DOMAIN E = 1..Len(E) /\ Len(E) \in Nat /\ \A i \in DOMAIN E : E[i] \in Entries
    OBVIOUS
  <1>2. \A i \in DOMAIN E : Matches(E[i], m) <=> Wants(E[i], m)
    BY DEF Matches, Wants
  <1>3. CASE S = {} \/ \E i \in DOMAIN E : E[i].pin = m
    <2>1. Consume(E, m) = E
      BY <1>3 DEF Consume
    <2>2. \A i \in DOMAIN E : Kin(E[i], E[i])
      BY DEF Kin
    <2>3. (\E i \in DOMAIN E : E[i].pin = m) \/ \A i \in DOMAIN E : ~Wants(E[i], m)
      BY <1>2, <1>3
    <2> HIDE DEF S
    <2> QED BY <2>1, <2>2, <2>3
  <1>4. CASE ~(S = {} \/ \E i \in DOMAIN E : E[i].pin = m)
    <2> DEFINE k == CHOOSE i \in S : \A j \in S : i <= j
               F == [E EXCEPT ![k].pin = m]
    <2>1. Consume(E, m) = F
      BY <1>4 DEF Consume
    <2>2. \E i \in S : \A j \in S : i <= j
      <3>1. S \in SUBSET Nat
        BY <1>1
      <3> HIDE DEF S
      <3> QED BY <1>4, <3>1, LeastMessage
    <2>3. k \in S
      BY <2>2
    <2> HIDE DEF k
    <2>4. k \in DOMAIN E /\ Wants(E[k], m)
      BY <1>2, <2>3
    <2>5. E[k] \in Entries
      BY <1>1, <2>4
    <2>6. DOMAIN F = DOMAIN E
      OBVIOUS
    <2>7. F[k] = [E[k] EXCEPT !.pin = m]
      BY <2>4
    <2>8. /\ F[k] \in Entries /\ F[k].pin = m /\ F[k].send = E[k].send
          /\ F[k].text = E[k].text /\ F[k].since = E[k].since
      BY <2>5, <2>7 DEF Entries
    <2>9. \A i \in DOMAIN E : i # k => F[i] = E[i]
      OBVIOUS
    <2> HIDE DEF F
    <2>10. F \in Seq(Entries)
      <3>1. \A i \in 1..Len(E) : F[i] \in Entries
        BY <1>1, <2>8, <2>9
      <3>2. F = [i \in 1..Len(E) |-> F[i]]
        BY <1>1, <2>6 DEF F
      <3> QED BY <1>1, <3>1, <3>2
    <2>11. ASSUME NEW i \in DOMAIN E
           PROVE  /\ Kin(F[i], E[i])
                  /\ F[i].pin = E[i].pin \/ (F[i].pin = m /\ Wants(E[i], m))
      <3>1. CASE i = k
        BY <2>4, <2>8, <3>1 DEF Kin
      <3>2. CASE i # k
        <4>1. F[i] = E[i]
          BY <2>9, <3>2
        <4> QED BY <4>1 DEF Kin
      <3> QED BY <3>1, <3>2
    <2> QED BY <2>1, <2>4, <2>6, <2>8, <2>10, <2>11
  <1> QED BY <1>3, <1>4

(* F is the registry E after the rows of a round up to n.                  *)
Took(E, F, n, rows) ==
  /\ F \in Seq(Entries) /\ DOMAIN F = DOMAIN E
  /\ \A i \in DOMAIN E :
       /\ Kin(F[i], E[i])
       /\ \/ F[i].pin = E[i].pin
          \/ E[i].pin = 0 /\ F[i].pin \in rows /\ msgs[F[i].pin].text = E[i].text
  /\ \A m \in rows : m <= n =>
       \/ \E i \in DOMAIN E : F[i].pin = m
       \/ \A i \in DOMAIN E : ~Wants(F[i], m)

LEMMA TookStart ==
  ASSUME msgs \in Seq(Msg), NEW E \in Seq(Entries), NEW rows \in SUBSET Messages
  PROVE  Took(E, E, 0, rows)
  BY MessageNumbers DEF Took, Kin

LEMMA TookNext ==
  ASSUME msgs \in Seq(Msg), NEW E \in Seq(Entries), NEW rows \in SUBSET Messages,
         NEW n \in Nat, NEW F, Took(E, F, n, rows), n + 1 \in rows
  PROVE  Took(E, Consume(F, n + 1), n + 1, rows)
  <1> DEFINE m == n + 1
             G == Consume(F, m)
  <1>1. m \in Messages /\ 0 \notin Messages /\ Messages \subseteq Nat
    BY MessageNumbers
  <1>2. F \in Seq(Entries) /\ DOMAIN F = DOMAIN E
    BY DEF Took
  <1>3. /\ G \in Seq(Entries) /\ DOMAIN G = DOMAIN E
        /\ \A i \in DOMAIN E :
             /\ Kin(G[i], F[i])
             /\ G[i].pin = F[i].pin \/ (G[i].pin = m /\ Wants(F[i], m))
        /\ \/ \E i \in DOMAIN E : G[i].pin = m
           \/ \A i \in DOMAIN E : ~Wants(F[i], m)
    <2> HIDE DEF m
    <2> QED BY <1>1, <1>2, ConsumeIs
  <1> HIDE DEF m, G
  <1>4. ASSUME NEW i \in DOMAIN E
        PROVE  /\ Kin(G[i], E[i])
               /\ \/ G[i].pin = E[i].pin
                  \/ E[i].pin = 0 /\ G[i].pin \in rows /\ msgs[G[i].pin].text = E[i].text
               /\ F[i].pin # 0 => G[i].pin = F[i].pin
               /\ \A k \in Messages : Wants(G[i], k) => Wants(F[i], k)
    <2>1. /\ Kin(G[i], F[i]) /\ Kin(F[i], E[i])
          /\ G[i].pin = F[i].pin \/ (G[i].pin = m /\ Wants(F[i], m))
          /\ \/ F[i].pin = E[i].pin
             \/ E[i].pin = 0 /\ F[i].pin \in rows /\ msgs[F[i].pin].text = E[i].text
      BY <1>3 DEF Took
    <2> QED BY <1>1, <2>1 DEF Kin, Wants, m
  <1>5. ASSUME NEW k \in rows, k <= m
        PROVE  \/ \E i \in DOMAIN E : G[i].pin = k
               \/ \A i \in DOMAIN E : ~Wants(G[i], k)
    <2>1. k \in Messages /\ k # 0
      BY <1>1
    <2>2. CASE k = m
      BY <1>3, <1>4, <2>1, <2>2
    <2>3. CASE k # m
      <3>1. k <= n
        BY <1>1, <1>5, <2>1, <2>3 DEF m
      <3>2. \/ \E i \in DOMAIN E : F[i].pin = k
            \/ \A i \in DOMAIN E : ~Wants(F[i], k)
        BY <3>1 DEF Took
      <3> QED BY <1>4, <2>1, <3>2
    <2> QED BY <2>2, <2>3
  <1>6. Took(E, G, m, rows)
    BY <1>3, <1>4, <1>5 DEF Took
  <1> QED BY <1>6 DEF m, G

LEMMA TookSkip ==
  ASSUME msgs \in Seq(Msg), NEW E \in Seq(Entries), NEW rows \in SUBSET Messages,
         NEW n \in Nat, NEW F, Took(E, F, n, rows), n + 1 \notin rows
  PROVE  Took(E, F, n + 1, rows)
  <1>1. \A m \in rows : m \in Nat /\ (m <= n + 1 => m <= n)
    BY MessageNumbers
  <1> QED BY <1>1 DEF Took

(* The registry of a round is defined.                                     *)
Round(f, n, rows) ==
  f = [m \in 0..n |-> IF m = 0 THEN entries
                      ELSE IF m \in rows THEN Consume(f[m - 1], m) ELSE f[m - 1]]

LEMMA RoundOn ==
  ASSUME NEW rows, NEW n \in Nat, NEW f, Round(f, n, rows)
  PROVE  \E g : Round(g, n + 1, rows)
  <1> DEFINE x == IF n + 1 \in rows THEN Consume(f[n], n + 1) ELSE f[n]
             g == [m \in 0..(n + 1) |-> IF m = n + 1 THEN x ELSE f[m]]
             h == [m \in 0..(n + 1) |->
                     IF m = 0 THEN entries
                     ELSE IF m \in rows THEN Consume(g[m - 1], m) ELSE g[m - 1]]
  <1>1. ASSUME NEW m \in 0..(n + 1)
        PROVE  g[m] = h[m]
    <2>1. CASE m = n + 1
      <3>1. g[n] = f[n] /\ m # 0 /\ m - 1 = n /\ g[m] = x
        BY <2>1
      <3>2. h[m] = IF m \in rows THEN Consume(g[m - 1], m) ELSE g[m - 1]
        BY <3>1
      <3> HIDE DEF g, h
      <3> QED BY <2>1, <3>1, <3>2
    <2>2. CASE m \in 0..n /\ m # 0
      <3>1. /\ m - 1 \in 0..n /\ m # n + 1 /\ m - 1 # n + 1
            /\ m - 1 \in 0..(n + 1)
        BY <2>2
      <3>2. g[m] = f[m] /\ g[m - 1] = f[m - 1]
        BY <3>1
      <3>3. f[m] = IF m \in rows THEN Consume(f[m - 1], m) ELSE f[m - 1]
        BY <2>2 DEF Round
      <3>4. h[m] = IF m \in rows THEN Consume(g[m - 1], m) ELSE g[m - 1]
        BY <2>2
      <3> HIDE DEF g, h
      <3> QED BY <3>2, <3>3, <3>4
    <2>3. CASE m = 0
      <3>1. g[0] = f[0] /\ h[0] = entries
        BY <2>3
      <3>2. f[0] = entries
        BY DEF Round
      <3> QED BY <2>3, <3>1, <3>2
    <2> QED BY <2>1, <2>2, <2>3
  <1>2. g = h
    BY <1>1
  <1>3. Round(g, n + 1, rows)
    BY <1>2 DEF Round
  <1> QED BY <1>3

LEMMA RoundExists ==
  ASSUME NEW rows, NEW N \in Nat
  PROVE  \E f : Round(f, N, rows)
  <1> DEFINE Bad == {n \in Nat : ~\E f : Round(f, n, rows)}
  <1>1. Bad = {}
    <2>1. ASSUME Bad # {} PROVE FALSE
      <3>1. PICK n \in Bad : \A k \in Bad : n <= k
        BY <2>1, LeastMessage
      <3>2. n # 0
        <4> DEFINE f == [m \in 0..0 |-> entries]
        <4>1. Round(f, 0, rows)
          BY DEF Round
        <4> QED BY <4>1
      <3>3. n - 1 \in Nat /\ ~(n <= n - 1) /\ (n - 1) + 1 = n
        BY <3>2
      <3>4. PICK f : Round(f, n - 1, rows)
        BY <3>1, <3>3
      <3>5. \E g : Round(g, (n - 1) + 1, rows)
        BY <3>3, <3>4, RoundOn
      <3> QED BY <3>3, <3>5
    <2> QED BY <2>1
  <1> QED BY <1>1

LEMMA TakenIs ==
  ASSUME msgs \in Seq(Msg), NEW rows
  PROVE  Round(Taken(rows), Len(msgs), rows)
  <1>1. \E f : Round(f, Len(msgs), rows)
    BY RoundExists, MessageNumbers
  <1> QED BY <1>1 DEF Round, Taken

LEMMA TakenTook ==
  ASSUME msgs \in Seq(Msg), entries \in Seq(Entries), NEW rows \in SUBSET Messages
  PROVE  Took(entries, Taken(rows)[Len(msgs)], Len(msgs), rows)
  <1> DEFINE N == Len(msgs)
             T == Taken(rows)
             Bad == {n \in 0..N : ~Took(entries, T[n], n, rows)}
  <1>1. N \in Nat /\ Round(T, N, rows)
    BY TakenIs, MessageNumbers
  <1> HIDE DEF N, T
  <1>2. T[0] = entries
    BY <1>1 DEF Round
  <1>3. \A n \in 0..N : n # 0 =>
          T[n] = IF n \in rows THEN Consume(T[n - 1], n) ELSE T[n - 1]
    BY <1>1 DEF Round
  <1>4. Bad = {}
    <2>1. ASSUME Bad # {} PROVE FALSE
      <3>0. Bad \in SUBSET Nat
        BY <1>1
      <3>1. PICK n \in Bad : \A k \in Bad : n <= k
        <4> HIDE DEF Bad
        <4> QED BY <2>1, <3>0, LeastMessage
      <3>2. n # 0
        BY <1>2, TookStart
      <3>3. /\ n - 1 \in Nat /\ n - 1 \in 0..N /\ ~(n <= n - 1) /\ (n - 1) + 1 = n
            /\ n \in 0..N
        BY <1>1, <3>2
      <3>4. Took(entries, T[n - 1], n - 1, rows)
        BY <3>1, <3>3
      <3>5. CASE n \in rows
        <4>1. T[n] = Consume(T[n - 1], n)
          BY <1>3, <3>2, <3>3, <3>5
        <4> QED BY <3>1, <3>3, <3>4, <3>5, <4>1, TookNext
      <3>6. CASE n \notin rows
        <4>1. T[n] = T[n - 1]
          BY <1>3, <3>2, <3>3, <3>6
        <4> QED BY <3>1, <3>3, <3>4, <3>6, <4>1, TookSkip
      <3> QED BY <3>5, <3>6
    <2> QED BY <2>1
  <1> QED BY <1>1, <1>4 DEF N, T

-----------------------------------------------------------------------------
(* Types.                                                                  *)
Types1 ==
  /\ msgs \in Seq(Msg) /\ landed \in Seq(Messages)
  /\ send \in [Sends -> Script \cup {"file", "sent", "confirm", "done", "failed"}]
  /\ file \subseteq Sends /\ lapsed \subseteq Sends
  /\ last \in [Sends -> Messages \cup {0}]
Types2 ==
  /\ entries \in Seq(Entries)
  /\ wait \in [Waits -> {"idle", "reading", "sleeping", "done"}]
  /\ self \in [Waits -> BOOLEAN]
  /\ lastKnown \in [Waits -> Messages \cup {0}]
  /\ told \in [Waits -> SUBSET Messages]
  /\ silenced \in [Waits -> SUBSET Messages]

LEMMA TypeParts == TypeOK <=> Types1 /\ Types2
  BY Zenon DEF TypeOK, Types1, Types2, Msg, Entries

LEMMA TypePartsNext ==
  ASSUME Types1', Types2'
  PROVE  TypeOK'
  BY Zenon DEF TypeOK, Types1, Types2, Msg, Entries

(* The conversation only grows.                                            *)
Grows ==
  /\ msgs' \in Seq(Msg) /\ Messages \subseteq Messages'
  /\ \A k \in Messages : msgs'[k] = msgs[k]

LEMMA AppendGrows ==
  ASSUME msgs \in Seq(Msg), NEW x \in Msg, msgs' = Append(msgs, x)
  PROVE  /\ Grows /\ Messages' = Messages \cup {Len(msgs) + 1}
         /\ msgs'[Len(msgs) + 1] = x
  <1>1. /\ msgs' \in Seq(Msg) /\ DOMAIN msgs = 1..Len(msgs) /\ Len(msgs) \in Nat
        /\ DOMAIN msgs' = 1..(Len(msgs) + 1)
        /\ \A k \in 1..Len(msgs) : msgs'[k] = msgs[k]
        /\ msgs'[Len(msgs) + 1] = x
    OBVIOUS
  <1>2. /\ DOMAIN msgs \subseteq DOMAIN msgs'
        /\ DOMAIN msgs' = DOMAIN msgs \cup {Len(msgs) + 1}
    BY <1>1
  <1> QED BY <1>1, <1>2 DEF Grows, Messages

LEMMA SameGrows ==
  ASSUME msgs \in Seq(Msg), msgs' = msgs
  PROVE  Grows
  BY DEF Grows, Messages

LEMMA MsgType ==
  ASSUME EchoAssumption
  PROVE  /\ \A s \in Sends : Message(s, TextOf[s]) \in Msg
         /\ \A s \in Sends : Message(s, Attachment) \in Msg
         /\ \A text \in Others : Message("user", text) \in Msg
         /\ Message("them", "reply") \in Msg
         /\ \A s \in Sends : TextOf[s] \in Texts
         /\ Attachment \in Texts
  <1>1. /\ \A s \in Sends : TextOf[s] \in Texts
        /\ Attachment \in Texts /\ "reply" \in Texts /\ Others \subseteq Texts
    BY DEF Texts, EchoAssumption
  <1> QED BY <1>1 DEF Message, Msg

(* What the types say of a message carries over.                           *)
LEMMA GrowTypes ==
  ASSUME TypeOK, Grows
  PROVE  /\ landed \in Seq(Messages') /\ last \in [Sends -> Messages' \cup {0}]
         /\ entries \in Seq(Entries')
         /\ lastKnown \in [Waits -> Messages' \cup {0}]
         /\ told \in [Waits -> SUBSET Messages']
         /\ silenced \in [Waits -> SUBSET Messages']
  <1>0. Types1 /\ Types2 /\ Messages \subseteq Messages'
    BY TypeParts DEF Grows
  <1>1. landed \in Seq(Messages')
    BY <1>0 DEF Types1
  <1>2. last \in [Sends -> Messages' \cup {0}]
    BY <1>0 DEF Types1
  <1>3. entries \in Seq(Entries')
    <2>1. Entries \subseteq Entries'
      BY <1>0 DEF Entries
    <2>2. \A E \in Seq(Entries) : E \in Seq(Entries')
      BY <2>1
    <2> QED BY <1>0, <2>2 DEF Types2
  <1>4. lastKnown \in [Waits -> Messages' \cup {0}]
    BY <1>0 DEF Types2
  <1>5. told \in [Waits -> SUBSET Messages'] /\ silenced \in [Waits -> SUBSET Messages']
    BY <1>0 DEF Types2
  <1> QED BY <1>1, <1>2, <1>3, <1>4, <1>5

(* The registry after a cut at its old end.                                *)
Cutoff(A, B, gone) ==
  \E d \in Nat :
    /\ \A j \in DOMAIN B : j + d \in DOMAIN A /\ B[j] = A[j + d]
    /\ \A i \in DOMAIN A :
         A[i].send \in gone \/ (i - d \in DOMAIN B /\ B[i - d] = A[i])

LEMMA KeptIs ==
  ASSUME EchoAssumption, NEW A \in Seq(Entries)
  PROVE  /\ Kept(A) \in Seq(Entries) /\ Cutoff(A, Kept(A), Dropped(A))
         /\ Dropped(A) \subseteq Sends
         /\ \A i \in DOMAIN A : i > Len(A) - MaxEntries =>
              \E j \in DOMAIN Kept(A) : Kept(A)[j] = A[i]
  <1>1. /\ Len(A) \in Nat /\ DOMAIN A = 1..Len(A) /\ \A i \in 1..Len(A) : A[i] \in Entries
        /\ MaxEntries \in Nat
    BY DEF EchoAssumption
  <1>2. Dropped(A) \subseteq Sends
    <2>1. \A i \in 1..(Len(A) - MaxEntries) : i \in 1..Len(A)
      BY <1>1
    <2> QED BY <1>1, <2>1 DEF Dropped, Entries
  <1>3. CASE Len(A) <= MaxEntries
    <2>1. Kept(A) = A
      BY <1>3 DEF Kept
    <2>2. Cutoff(A, A, Dropped(A))
      <3>1. \A i \in DOMAIN A : i + 0 = i /\ i - 0 = i
        BY <1>1
      <3> QED BY <3>1 DEF Cutoff
    <2> QED BY <1>2, <2>1, <2>2
  <1>4. CASE ~(Len(A) <= MaxEntries)
    <2> DEFINE d == Len(A) - MaxEntries
               B == Kept(A)
    <2>1. d \in Nat /\ d + 1 \in 1..Len(A) /\ d <= Len(A)
      BY <1>1, <1>4
    <2>2. B = SubSeq(A, d + 1, Len(A))
      BY <1>4 DEF Kept
    <2>3. /\ B \in Seq(Entries) /\ DOMAIN B = 1..(Len(A) - d)
          /\ \A j \in 1..(Len(A) - d) : B[j] = A[j + d]
      <3> HIDE DEF d
      <3>1. /\ SubSeq(A, d + 1, Len(A)) \in Seq(Entries)
            /\ Len(SubSeq(A, d + 1, Len(A))) = Len(A) - d
        BY <1>1, <2>1
      <3>2. \A j \in 1..(Len(A) - d) : SubSeq(A, d + 1, Len(A))[j] = A[j + d]
        BY <1>1, <2>1
      <3> QED BY <2>2, <3>1, <3>2
    <2>4. \A i \in 1..d : A[i].send \in Dropped(A)
      BY DEF Dropped
    <2> HIDE DEF d, B
    <2>5. \A j \in DOMAIN B : j + d \in DOMAIN A /\ B[j] = A[j + d]
      BY <1>1, <2>1, <2>3
    <2>6. ASSUME NEW i \in DOMAIN A
          PROVE  i \in 1..d \/ (i - d \in DOMAIN B /\ B[i - d] = A[i])
      BY <1>1, <2>1, <2>3
    <2>7. Cutoff(A, B, Dropped(A))
      BY <2>1, <2>4, <2>5, <2>6 DEF Cutoff
    <2>8. \A i \in DOMAIN A : i > d => \E j \in DOMAIN B : B[j] = A[i]
      BY <1>1, <2>1, <2>6
    <2> QED BY <1>2, <2>3, <2>7, <2>8 DEF d, B
  <1> QED BY <1>3, <1>4

LEMMA TailIs ==
  ASSUME NEW A \in Seq(Entries), A # <<>>
  PROVE  /\ Tail(A) \in Seq(Entries) /\ Head(A) = A[1] /\ 1 \in DOMAIN A
         /\ Cutoff(A, Tail(A), {Head(A).send})
  <1>1. /\ Len(A) \in Nat \ {0} /\ DOMAIN A = 1..Len(A) /\ Head(A) = A[1]
        /\ Tail(A) \in Seq(Entries) /\ DOMAIN Tail(A) = 1..(Len(A) - 1)
        /\ \A j \in 1..(Len(A) - 1) : Tail(A)[j] = A[j + 1]
    OBVIOUS
  <1> DEFINE B == Tail(A)
  <1> HIDE DEF B
  <1>2. \A j \in DOMAIN B : j + 1 \in DOMAIN A /\ B[j] = A[j + 1]
    BY <1>1 DEF B
  <1>3. \A i \in DOMAIN A : i = 1 \/ (i - 1 \in DOMAIN B /\ B[i - 1] = A[i])
    BY <1>1 DEF B
  <1>4. Cutoff(A, B, {Head(A).send})
    BY <1>1, <1>2, <1>3 DEF Cutoff
  <1> QED BY <1>1, <1>4 DEF B

LEMMA TypeInit == EchoAssumption /\ Init => TypeOK
  <1> SUFFICES ASSUME EchoAssumption, Init
               PROVE  Types1 /\ Types2
    BY TypeParts
  <1>1. Types1
    BY DEF Init, Types1, Script
  <1>2. Types2
    BY DEF Init, Types2
  <1> QED BY <1>1, <1>2

(* Who is where stays of its type.                                         *)
LEMMA SendType ==
  ASSUME TypeOK, NEW s \in Sends, NEW x,
         x \in Script \cup {"file", "sent", "confirm", "done", "failed"},
         send' = [send EXCEPT ![s] = x]
  PROVE  send' \in [Sends -> Script \cup {"file", "sent", "confirm", "done", "failed"}]
  BY TypeParts DEF Types1

LEMMA SendSteps ==
  ASSUME EchoAssumption, TypeOK, NEW s \in Sends,
         \/ \E o \in Outcomes : RunScript(s, o) \/ SendAttachment(s, o)
         \/ NoChat(s) \/ Confirm(s) \/ Unconfirmed(s)
         \/ \E since \in 1..(Len(msgs) + 1) : Register(s, since)
  PROVE  TypeOK'
  <1>t. /\ Types1 /\ Types2 /\ msgs \in Seq(Msg) /\ entries \in Seq(Entries)
        /\ Messages = 1..Len(msgs) /\ Len(msgs) \in Nat
    BY TypeParts, MessageNumbers DEF Types1, Types2
  <1>f. msgs' = msgs => Grows
    BY <1>t, SameGrows
  <1>1. ASSUME NEW o \in Outcomes, RunScript(s, o)
        PROVE  TypeOK'
    <2>1. Grows
      <3>1. msgs' = msgs \/ msgs' = Append(msgs, Message(s, TextOf[s]))
        BY <1>1 DEF RunScript
      <3> QED BY <1>t, <1>f, <3>1, AppendGrows, MsgType
    <2>2. \A x \in Script \cup {Accepted(s), NextTry(send[s])} :
            x \in Script \cup {"file", "sent", "confirm", "done", "failed"}
      BY DEF Script, Accepted, NextTry
    <2>3. \E x \in {Accepted(s), NextTry(send[s])} : send' = [send EXCEPT ![s] = x]
      BY <1>1 DEF RunScript
    <2>4. send' \in [Sends -> Script \cup {"file", "sent", "confirm", "done", "failed"}]
      BY <2>2, <2>3, SendType
    <2>5. /\ msgs' \in Seq(Msg)
          /\ landed' = landed /\ file' = file /\ lapsed' = lapsed /\ last' = last
          /\ entries' = entries /\ wait' = wait /\ self' = self /\ told' = told
          /\ lastKnown' = lastKnown /\ silenced' = silenced
      BY <1>1, <2>1 DEF RunScript, Grows, registry, waiting
    <2>u. Types1'
      BY <1>t, <2>1, <2>4, <2>5, GrowTypes DEF Types1
    <2>v. Types2'
      BY <1>t, <2>1, <2>4, <2>5, GrowTypes DEF Types2
    <2> QED BY <2>u, <2>v, TypePartsNext
  <1>2. ASSUME NEW o \in Outcomes, SendAttachment(s, o)
        PROVE  TypeOK'
    <2>1. Grows
      <3>1. msgs' = msgs \/ msgs' = Append(msgs, Message(s, Attachment))
        BY <1>2 DEF SendAttachment
      <3> QED BY <1>t, <1>f, <3>1, AppendGrows, MsgType
    <2>2. send' = [send EXCEPT ![s] = "sent"] /\ file' \subseteq Sends
      BY <1>2, <1>t DEF SendAttachment, Types1
    <2>4. send' \in [Sends -> Script \cup {"file", "sent", "confirm", "done", "failed"}]
      BY <2>2, SendType
    <2>5. /\ msgs' \in Seq(Msg)
          /\ landed' = landed /\ lapsed' = lapsed /\ last' = last
          /\ entries' = entries /\ wait' = wait /\ self' = self /\ told' = told
          /\ lastKnown' = lastKnown /\ silenced' = silenced
      BY <1>2, <2>1 DEF SendAttachment, Grows, registry, waiting
    <2>u. Types1'
      BY <1>t, <2>1, <2>2, <2>4, <2>5, GrowTypes DEF Types1
    <2>v. Types2'
      BY <1>t, <2>1, <2>2, <2>4, <2>5, GrowTypes DEF Types2
    <2> QED BY <2>u, <2>v, TypePartsNext
  <1>3. CASE NoChat(s)
    <2>1. send' \in [Sends -> Script \cup {"file", "sent", "confirm", "done", "failed"}]
      BY <1>3, SendType DEF NoChat
    <2>2. /\ msgs' = msgs /\ Messages' = Messages /\ Entries' = Entries
          /\ landed' = landed /\ file' = file /\ last' = last
          /\ entries' = entries /\ wait' = wait /\ self' = self /\ told' = told
          /\ lastKnown' = lastKnown /\ silenced' = silenced /\ lapsed' = lapsed \cup {s}
      BY <1>3 DEF NoChat, waiting, Messages, Entries
    <2>u. Types1'
      BY <1>t, <2>1, <2>2 DEF Types1
    <2>v. Types2'
      BY <1>t, <2>1, <2>2 DEF Types2
    <2> QED BY <2>u, <2>v, TypePartsNext
  <1>4. CASE Confirm(s)
    <2> DEFINE m == Newest(Matching(s))
    <2>1. m \in Messages \cup {0}
      <3>1. Matching(s) \in SUBSET Messages
        BY <1>t DEF Matching, Rows, Types1
      <3> QED BY <1>t, <3>1, NewestIs
    <2>2. send' \in [Sends -> Script \cup {"file", "sent", "confirm", "done", "failed"}]
      BY <1>4, SendType DEF Confirm
    <2>3. entries' \in Seq(Entries)
      <3>1. entries' = [entries EXCEPT ![Own(s)].pin = m]
        BY <1>4 DEF Confirm
      <3>2. \A e \in Entries : [e EXCEPT !.pin = m] \in Entries
        <4> HIDE DEF m
        <4> QED BY <2>1 DEF Entries
      <3> HIDE DEF m
      <3>3. /\ entries = [i \in 1..Len(entries) |-> entries[i]] /\ Len(entries) \in Nat
            /\ \A i \in 1..Len(entries) : entries[i] \in Entries
        BY <1>t
      <3>4. \A i \in 1..Len(entries) : entries'[i] \in Entries
        BY <3>1, <3>2, <3>3
      <3>5. entries' = [i \in 1..Len(entries) |-> entries'[i]]
        BY <3>1, <3>3
      <3> QED BY <3>3, <3>4, <3>5
    <2>4. /\ msgs' = msgs /\ Messages' = Messages /\ Entries' = Entries
          /\ landed' = landed /\ file' = file /\ last' = [last EXCEPT ![s] = m]
          /\ wait' = wait /\ self' = self /\ told' = told
          /\ lastKnown' = lastKnown /\ silenced' = silenced /\ lapsed' = lapsed
      BY <1>4 DEF Confirm, waiting, Messages, Entries
    <2>5. last' \in [Sends -> Messages \cup {0}]
      <3> HIDE DEF m
      <3> QED BY <1>t, <2>1, <2>4 DEF Types1
    <2>u. Types1'
      BY <1>t, <2>2, <2>3, <2>4, <2>5 DEF Types1
    <2>v. Types2'
      BY <1>t, <2>2, <2>3, <2>4, <2>5 DEF Types2
    <2> QED BY <2>u, <2>v, TypePartsNext
  <1>5. CASE Unconfirmed(s)
    <2> DEFINE m == Newest(Rows)
    <2>1. m \in Messages \cup {0}
      <3>1. Rows \in SUBSET Messages
        BY <1>t DEF Rows, Types1
      <3> QED BY <1>t, <3>1, NewestIs
    <2>2. send' \in [Sends -> Script \cup {"file", "sent", "confirm", "done", "failed"}]
      BY <1>5, SendType DEF Unconfirmed
    <2>4. /\ msgs' = msgs /\ Messages' = Messages /\ Entries' = Entries
          /\ landed' = landed /\ file' = file /\ last' = [last EXCEPT ![s] = m]
          /\ wait' = wait /\ self' = self /\ told' = told /\ entries' = entries
          /\ lastKnown' = lastKnown /\ silenced' = silenced /\ lapsed' = lapsed
      BY <1>5 DEF Unconfirmed, registry, waiting, Messages, Entries
    <2>5. last' \in [Sends -> Messages \cup {0}]
      <3> HIDE DEF m
      <3> QED BY <1>t, <2>1, <2>4 DEF Types1
    <2>u. Types1'
      BY <1>t, <2>2, <2>4, <2>5 DEF Types1
    <2>v. Types2'
      BY <1>t, <2>2, <2>4, <2>5 DEF Types2
    <2> QED BY <2>u, <2>v, TypePartsNext
  <1>6. ASSUME NEW since \in 1..(Len(msgs) + 1), Register(s, since)
        PROVE  TypeOK'
    <2>1. PICK all \in Seq(Entries) :
            entries' = Kept(all) /\ lapsed' = lapsed \cup Dropped(all)
      <3> DEFINE one == Entry(s, TextOf[s], since)
                 two == Entry(s, Attachment, since)
                 more == IF s \in file THEN <<two>> ELSE <<>>
                 all == entries \o <<one>> \o more
      <3>1. one \in Entries /\ two \in Entries
        BY <1>t, MsgType DEF Entry, Entries
      <3>2. entries' = Kept(all) /\ lapsed' = lapsed \cup Dropped(all)
        BY <1>6 DEF Register
      <3>3. all \in Seq(Entries)
        <4> HIDE DEF one, two
        <4> QED BY <1>t, <3>1
      <3> QED BY <3>2, <3>3
    <2>2. Kept(all) \in Seq(Entries) /\ Dropped(all) \subseteq Sends
      BY KeptIs
    <2>3. send' \in [Sends -> Script \cup {"file", "sent", "confirm", "done", "failed"}]
      BY <1>6, SendType DEF Register
    <2>4. /\ msgs' = msgs /\ Messages' = Messages /\ Entries' = Entries
          /\ landed' = landed /\ file' = file /\ last' = last
          /\ wait' = wait /\ self' = self /\ told' = told
          /\ lastKnown' = lastKnown /\ silenced' = silenced
      BY <1>6 DEF Register, waiting, Messages, Entries
    <2>u. Types1'
      BY <1>t, <2>1, <2>2, <2>3, <2>4 DEF Types1
    <2>v. Types2'
      BY <1>t, <2>1, <2>2, <2>3, <2>4 DEF Types2
    <2> QED BY <2>u, <2>v, TypePartsNext
  <1> QED BY <1>1, <1>2, <1>3, <1>4, <1>5, <1>6

(* What a round of a wait reads and leaves in the registry.                *)
Round1(w, E) ==
  /\ E \in Seq(Entries)
  /\ Took(entries, E, Len(msgs), {m \in After(w) : FromMe(m)})

LEMMA RoundIs ==
  ASSUME TypeOK, NEW w \in Waits
  PROVE  /\ After(w) \in SUBSET Messages
         /\ Round1(w, Taken({m \in After(w) : FromMe(m)})[Len(msgs)])
  <1>1. msgs \in Seq(Msg) /\ entries \in Seq(Entries) /\ landed \in Seq(Messages)
    BY TypeParts DEF Types1, Types2
  <1>2. After(w) \in SUBSET Messages
    BY <1>1 DEF After, Rows
  <1> DEFINE rows == {m \in After(w) : FromMe(m)}
  <1>3. rows \in SUBSET Messages
    BY <1>2
  <1> HIDE DEF rows
  <1>4. Took(entries, Taken(rows)[Len(msgs)], Len(msgs), rows)
    BY <1>1, <1>3, TakenTook
  <1> QED BY <1>2, <1>4 DEF Round1, Took, rows

LEMMA TypeStep ==
  ASSUME EchoAssumption, TypeOK, [Next]_vars
  PROVE  TypeOK'
  <1>t. /\ Types1 /\ Types2 /\ msgs \in Seq(Msg) /\ entries \in Seq(Entries)
        /\ Messages = 1..Len(msgs) /\ Len(msgs) \in Nat /\ Rows \in SUBSET Messages
    BY TypeParts, MessageNumbers DEF Types1, Types2, Rows
  <1>1. ASSUME NEW x \in Msg, msgs' = Append(msgs, x),
               UNCHANGED <<landed, app, registry, waiting>>
        PROVE  TypeOK'
    <2>1. Grows
      BY <1>t, <1>1, AppendGrows
    <2>2. /\ send' = send /\ msgs' \in Seq(Msg)
          /\ landed' = landed /\ file' = file /\ lapsed' = lapsed /\ last' = last
          /\ entries' = entries /\ wait' = wait /\ self' = self /\ told' = told
          /\ lastKnown' = lastKnown /\ silenced' = silenced
      BY <1>1, <2>1 DEF app, Grows, registry, waiting
    <2>u. Types1'
      BY <1>t, <2>1, <2>2, GrowTypes DEF Types1
    <2>v. Types2'
      BY <1>t, <2>1, <2>2, GrowTypes DEF Types2
    <2> QED BY <2>u, <2>v, TypePartsNext
  <1>2. ASSUME NEW by, NEW text, Write(by, text), Message(by, text) \in Msg
        PROVE  TypeOK'
    BY <1>1, <1>2 DEF Write
  <1>3. ASSUME NEW m \in Messages, Land(m)
        PROVE  TypeOK'
    <2>1. landed' \in Seq(Messages)
      BY <1>t, <1>3 DEF Land, Types1
    <2>2. /\ msgs' = msgs /\ Messages' = Messages /\ Entries' = Entries
          /\ send' = send /\ file' = file /\ lapsed' = lapsed /\ last' = last
          /\ entries' = entries /\ wait' = wait /\ self' = self /\ told' = told
          /\ lastKnown' = lastKnown /\ silenced' = silenced
      BY <1>3 DEF Land, app, registry, waiting, Messages, Entries
    <2>u. Types1'
      BY <1>t, <2>1, <2>2 DEF Types1
    <2>v. Types2'
      BY <1>t, <2>1, <2>2 DEF Types2
    <2> QED BY <2>u, <2>v, TypePartsNext
  <1>4. CASE Prune
    <2>1. Tail(entries) \in Seq(Entries) /\ Head(entries).send \in Sends
      <3>1. /\ Tail(entries) \in Seq(Entries) /\ Head(entries) = entries[1]
            /\ 1 \in DOMAIN entries
        BY <1>t, <1>4, TailIs DEF Prune
      <3>2. entries[1] \in Entries
        BY <1>t, <3>1
      <3> QED BY <3>1, <3>2 DEF Entries
    <2>2. /\ msgs' = msgs /\ Messages' = Messages /\ Entries' = Entries
          /\ send' = send /\ file' = file /\ last' = last /\ landed' = landed
          /\ wait' = wait /\ self' = self /\ told' = told
          /\ lastKnown' = lastKnown /\ silenced' = silenced
          /\ entries' = Tail(entries) /\ lapsed' = lapsed \cup {Head(entries).send}
      BY <1>4 DEF Prune, app, waiting, Messages, Entries
    <2>u. Types1'
      BY <1>t, <2>1, <2>2 DEF Types1
    <2>v. Types2'
      BY <1>t, <2>1, <2>2 DEF Types2
    <2> QED BY <2>u, <2>v, TypePartsNext
  <1>5. ASSUME NEW w \in Waits, NEW after \in Cursors, NEW b \in BOOLEAN,
               WaitForReply(w, after, b)
        PROVE  TypeOK'
    <2>1. after \in Messages \cup {0}
      <3>1. \A v \in Waits : Newest(told[v]) \in Messages \cup {0}
        <4>1. \A v \in Waits : told[v] \in SUBSET Messages
          BY <1>t DEF Types2
        <4> QED BY <1>t, <4>1, NewestIs
      <3>2. \A s \in Sends : last[s] \in Messages \cup {0}
        BY <1>t DEF Types1
      <3> QED BY <3>1, <3>2 DEF Cursors
    <2>2. Newest(Rows) \in Messages \cup {0}
      BY <1>t, NewestIs
    <2>3. \E x \in Messages \cup {0} : lastKnown' = [lastKnown EXCEPT ![w] = x]
      BY <1>5, <2>1, <2>2 DEF WaitForReply
    <2>4. /\ msgs' = msgs /\ Messages' = Messages /\ Entries' = Entries
          /\ send' = send /\ file' = file /\ last' = last /\ landed' = landed
          /\ entries' = entries /\ lapsed' = lapsed /\ told' = told
          /\ silenced' = silenced
          /\ wait' = [wait EXCEPT ![w] = "reading"] /\ self' = [self EXCEPT ![w] = b]
      BY <1>5 DEF WaitForReply, app, registry, Messages, Entries
    <2>5. Types1'
      BY <1>t, <2>4 DEF Types1
    <2>6. Types2'
      BY <1>t, <2>3, <2>4 DEF Types2
    <2> QED BY <2>5, <2>6, TypePartsNext
  <1>6. ASSUME NEW w \in Waits, ReadReplies(w)
        PROVE  TypeOK'
    <2> DEFINE mine == {m \in After(w) : FromMe(m)}
               E == Taken(mine)[Len(msgs)]
    <2>1. After(w) \in SUBSET Messages /\ E \in Seq(Entries)
      BY RoundIs DEF Round1
    <2>2. /\ entries' = E
          /\ \E S \in SUBSET Messages : silenced' = [silenced EXCEPT ![w] = @ \cup S]
          /\ \E S \in SUBSET Messages : told' = told \/ told' = [told EXCEPT ![w] = S]
          /\ \E x \in {"done", "sleeping"} : wait' = [wait EXCEPT ![w] = x]
      <3>1. mine \in SUBSET Messages
        BY <2>1
      <3> HIDE DEF E
      <3>2. /\ {m \in mine : \E i \in DOMAIN E : E[i].pin = m} \in SUBSET Messages
            /\ After(w) \ {m \in mine : \E i \in DOMAIN E : E[i].pin = m}
                 \in SUBSET Messages
        BY <2>1, <3>1
      <3> QED BY <1>6, <3>2 DEF ReadReplies, E
    <2>3. \E x \in Messages \cup {0} :
            lastKnown' = lastKnown \/ lastKnown' = [lastKnown EXCEPT ![w] = x]
      <3>1. /\ Newest(After(w)) \in Messages \cup {0}
            /\ lastKnown[w] \in Messages \cup {0}
        BY <1>t, <2>1, NewestIs DEF Types2
      <3> QED BY <1>6, <3>1 DEF ReadReplies
    <2>4. /\ msgs' = msgs /\ Messages' = Messages /\ Entries' = Entries
          /\ send' = send /\ file' = file /\ last' = last /\ landed' = landed
          /\ lapsed' = lapsed /\ self' = self
      BY <1>6 DEF ReadReplies, app, Messages, Entries
    <2> HIDE DEF E
    <2>5. Types1'
      BY <1>t, <2>4 DEF Types1
    <2>6. Types2'
      <3>1. /\ wait \in [Waits -> {"idle", "reading", "sleeping", "done"}]
            /\ self \in [Waits -> BOOLEAN]
            /\ lastKnown \in [Waits -> Messages \cup {0}]
            /\ told \in [Waits -> SUBSET Messages]
            /\ silenced \in [Waits -> SUBSET Messages]
        BY <1>t DEF Types2
      <3>2. wait' \in [Waits -> {"idle", "reading", "sleeping", "done"}]
        BY <2>2, <3>1
      <3>3. lastKnown' \in [Waits -> Messages \cup {0}]
        BY <2>3, <3>1
      <3>4. told' \in [Waits -> SUBSET Messages]
        BY <2>2, <3>1
      <3>5. silenced' \in [Waits -> SUBSET Messages]
        BY <2>2, <3>1
      <3> QED BY <2>1, <2>2, <2>4, <3>1, <3>2, <3>3, <3>4, <3>5 DEF Types2
    <2> QED BY <2>5, <2>6, TypePartsNext
  <1>7. ASSUME NEW w \in Waits, Wake(w) \/ GiveUp(w)
        PROVE  TypeOK'
    <2>1. /\ msgs' = msgs /\ Messages' = Messages /\ Entries' = Entries
          /\ send' = send /\ file' = file /\ last' = last /\ landed' = landed
          /\ lapsed' = lapsed /\ self' = self /\ entries' = entries
          /\ lastKnown' = lastKnown /\ silenced' = silenced /\ told' = told
          /\ \E x \in {"reading", "done"} : wait' = [wait EXCEPT ![w] = x]
      BY <1>7 DEF Wake, GiveUp, app, registry, Messages, Entries
    <2>u. Types1'
      BY <1>t, <2>1 DEF Types1
    <2>v. Types2'
      BY <1>t, <2>1 DEF Types2
    <2> QED BY <2>u, <2>v, TypePartsNext
  <1>8. CASE UNCHANGED vars
    <2>1. /\ msgs' = msgs /\ Messages' = Messages /\ Entries' = Entries
          /\ send' = send /\ file' = file /\ last' = last /\ landed' = landed
          /\ lapsed' = lapsed /\ self' = self /\ entries' = entries
          /\ lastKnown' = lastKnown /\ silenced' = silenced /\ told' = told
          /\ wait' = wait
      BY <1>8 DEF vars, app, registry, waiting, Messages, Entries
    <2>u. Types1'
      BY <1>t, <2>1 DEF Types1
    <2>v. Types2'
      BY <1>t, <2>1 DEF Types2
    <2> QED BY <2>u, <2>v, TypePartsNext
  <1> QED BY <1>2, <1>3, <1>4, <1>5, <1>6, <1>7, <1>8, SendSteps, MsgType DEF Next

-----------------------------------------------------------------------------
(* No send is under way while a wait reads: the agent calls one tool at a  *)
(* time.                                                                   *)
Quiet ==
  (\E s \in Sends : Busy(s)) => \A w \in Waits : wait[w] \in {"idle", "done"}

LEMMA QuietStep ==
  ASSUME TypeOK, ~Overlap, Quiet, [Next]_vars
  PROVE  Quiet'
  <1>t. /\ send \in [Sends -> Script \cup {"file", "sent", "confirm", "done", "failed"}]
        /\ wait \in [Waits -> {"idle", "reading", "sleeping", "done"}]
    BY TypeParts DEF Types1, Types2
  <1>1. ASSUME send' = send, wait' = wait
        PROVE  Quiet'
    BY <1>1 DEF Quiet, Busy
  <1>2. ASSUME wait' = wait, \A w \in Waits : wait[w] \in {"idle", "done"}
        PROVE  Quiet'
    BY <1>2 DEF Quiet
  <1>3. ASSUME NEW s \in Sends, NEW o \in Outcomes, RunScript(s, o)
        PROVE  Quiet'
    <2>1. wait' = wait
      BY <1>3 DEF RunScript, waiting
    <2>2. Busy(s) \/ \A w \in Waits : wait[w] \in {"idle", "done"}
      BY <1>3 DEF RunScript, Script, Busy
    <2> QED BY <1>2, <2>1, <2>2 DEF Quiet
  <1>4. ASSUME NEW s \in Sends,
               \/ NoChat(s) \/ Confirm(s) \/ Unconfirmed(s)
               \/ \E o \in Outcomes : SendAttachment(s, o)
               \/ \E since \in 1..(Len(msgs) + 1) : Register(s, since)
        PROVE  Quiet'
    <2>1. wait' = wait /\ Busy(s)
      BY <1>4 DEF NoChat, Confirm, Unconfirmed, SendAttachment, Register, Busy, waiting
    <2> QED BY <1>2, <2>1 DEF Quiet
  <1>5. ASSUME NEW w \in Waits, NEW x, NEW b, WaitForReply(w, x, b)
        PROVE  Quiet'
    BY <1>5 DEF WaitForReply, Quiet, Busy, app
  <1>6. ASSUME NEW w \in Waits, ReadReplies(w) \/ Wake(w) \/ GiveUp(w)
        PROVE  Quiet'
    <2>1. wait[w] \in {"reading", "sleeping"} /\ send' = send
      BY <1>6 DEF ReadReplies, Wake, GiveUp, app
    <2> QED BY <2>1 DEF Quiet, Busy
  <1>7. ASSUME NEW m \in Messages, Land(m)
        PROVE  Quiet'
    BY <1>1, <1>7 DEF Land, app, waiting
  <1>8. ASSUME NEW by, NEW text, Write(by, text)
        PROVE  Quiet'
    BY <1>1, <1>8 DEF Write, app, waiting
  <1>9. CASE Prune \/ UNCHANGED vars
    BY <1>1, <1>9 DEF Prune, vars, app, waiting
  <1> QED BY <1>3, <1>4, <1>5, <1>6, <1>7, <1>8, <1>9 DEF Next

(* No message leaves the conversation or changes.                          *)
LEMMA StepGrows ==
  ASSUME EchoAssumption, TypeOK, [Next]_vars
  PROVE  Grows
  <1>t. msgs \in Seq(Msg)
    BY TypeParts DEF Types1
  <1>1. ASSUME msgs' = msgs
        PROVE  Grows
    BY <1>t, <1>1, SameGrows
  <1>2. ASSUME NEW x \in Msg, msgs' = Append(msgs, x)
        PROVE  Grows
    BY <1>t, <1>2, AppendGrows
  <1>3. ASSUME NEW s \in Sends, NEW o \in Outcomes, RunScript(s, o) \/ SendAttachment(s, o)
        PROVE  Grows
    <2>1. \/ msgs' = msgs \/ msgs' = Append(msgs, Message(s, TextOf[s]))
          \/ msgs' = Append(msgs, Message(s, Attachment))
      BY <1>3 DEF RunScript, SendAttachment
    <2> QED BY <1>1, <1>2, <2>1, MsgType
  <1>4. ASSUME NEW s \in Sends,
               \/ NoChat(s) \/ Confirm(s) \/ Unconfirmed(s)
               \/ \E since \in 1..(Len(msgs) + 1) : Register(s, since)
        PROVE  Grows
    BY <1>1, <1>4 DEF NoChat, Confirm, Unconfirmed, Register
  <1>5. ASSUME NEW w \in Waits,
               \/ ReadReplies(w) \/ Wake(w) \/ GiveUp(w)
               \/ \E after \in Cursors, b \in BOOLEAN : WaitForReply(w, after, b)
        PROVE  Grows
    BY <1>1, <1>5 DEF ReadReplies, Wake, GiveUp, WaitForReply
  <1>6. ASSUME \/ \E text \in Others : Write("user", text)
               \/ Write("them", "reply")
        PROVE  Grows
    BY <1>2, <1>6, MsgType DEF Write
  <1>7. CASE Prune \/ UNCHANGED vars \/ \E m \in Messages : Land(m)
    BY <1>1, <1>7 DEF Prune, vars, Land
  <1> QED BY <1>3, <1>4, <1>5, <1>6, <1>7 DEF Next

-----------------------------------------------------------------------------
(* What the registry holds: one entry for a text of a send, which was sent *)
(* and is pinned to a row of that text at most; the entries of a send stay *)
(* until its confirm poll is over.                                         *)
HasEntry(s, text) ==
  \E i \in DOMAIN entries : entries[i].send = s /\ entries[i].text = text
Sent(s, text) == \E k \in Messages : msgs[k].by = s /\ msgs[k].text = text
Sole(E) ==
  \A i, j \in DOMAIN E : E[i].send = E[j].send /\ E[i].text = E[j].text => i = j
Pinned(e) == e.pin # 0 => msgs[e.pin].text = e.text /\ FromMe(e.pin)
Echo(e) == send[e.send] \in {"confirm", "done"} /\ Sent(e.send, e.text) /\ Pinned(e)
Stage(s) ==
  /\ send[s] = "confirm" => HasEntry(s, TextOf[s])
  /\ send[s] \in {"file", "sent", "confirm", "done"} => Sent(s, TextOf[s])
  /\ s \in file => Sent(s, Attachment) /\ send[s] \in {"sent", "confirm", "done"}
Listed ==
  /\ Sole(entries)
  /\ \A i \in DOMAIN entries : Echo(entries[i])
  /\ \A s \in Sends : Stage(s)

LEMMA SentKept ==
  ASSUME Grows, NEW s, NEW text, Sent(s, text)
  PROVE  Sent(s, text)'
  BY DEF Grows, Sent

LEMMA EchoKept ==
  ASSUME TypeOK, Grows, NEW e \in Entries, Echo(e),
         send'[e.send] = send[e.send] \/ send'[e.send] = "done"
  PROVE  send'[e.send] \in {"confirm", "done"} /\ Sent(e.send, e.text)' /\ Pinned(e)'
  <1>1. /\ send'[e.send] \in {"confirm", "done"} /\ Sent(e.send, e.text)
        /\ e.pin = 0 \/ e.pin \in Messages
    BY DEF Echo, Entries
  <1>2. Pinned(e)'
    <2>1. CASE e.pin = 0
      BY <2>1 DEF Pinned
    <2>2. CASE e.pin \in Messages
      <3>1. msgs'[e.pin] = msgs[e.pin]
        BY <2>2 DEF Grows
      <3> QED BY <3>1 DEF Echo, Pinned, FromMe
    <2> QED BY <1>1, <2>1, <2>2
  <1> QED BY <1>1, <1>2, SentKept

LEMMA EntriesType ==
  ASSUME TypeOK, NEW i \in DOMAIN entries
  PROVE  entries[i] \in Entries
  BY TypeParts DEF Types2

(* A step that leaves the registry, and moves at most one send on.         *)
LEMMA ListedSame ==
  ASSUME TypeOK, Listed, Grows, entries' = entries,
         \A s \in Sends :
           /\ send[s] \in {"confirm", "done"} => send'[s] = send[s] \/ send'[s] = "done"
           /\ send'[s] = "confirm" => send[s] = "confirm"
           /\ \/ send'[s] = send[s] /\ (s \in file' => s \in file)
              \/ /\ send'[s] \in {"file", "sent", "confirm", "done"} => Sent(s, TextOf[s])'
                 /\ s \in file' => Sent(s, Attachment)' /\ send'[s] \in {"sent", "done"}
  PROVE  Listed'
  <1>1. Sole(entries)'
    BY DEF Listed
  <1>2. ASSUME NEW i \in DOMAIN entries
        PROVE  Echo(entries[i])'
    <2>1. /\ entries[i] \in Entries /\ Echo(entries[i]) /\ entries[i].send \in Sends
          /\ send[entries[i].send] \in {"confirm", "done"}
      BY EntriesType DEF Listed, Echo, Entries
    <2> DEFINE e == entries[i]
    <2>2. send'[e.send] = send[e.send] \/ send'[e.send] = "done"
      BY <2>1
    <2> QED BY <2>1, <2>2, EchoKept DEF Echo
  <1>3. ASSUME NEW s \in Sends
        PROVE  Stage(s)'
    <2>1. Stage(s)
      BY DEF Listed
    <2>2. send'[s] = "confirm" => HasEntry(s, TextOf[s])'
      BY <2>1 DEF Stage, HasEntry
    <2>3. /\ Sent(s, TextOf[s]) => Sent(s, TextOf[s])'
          /\ Sent(s, Attachment) => Sent(s, Attachment)'
      BY SentKept
    <2> QED BY <2>1, <2>2, <2>3 DEF Stage
  <1> QED BY <1>1, <1>2, <1>3 DEF Listed

LEMMA SoleCut ==
  ASSUME NEW A \in Seq(Entries), NEW B \in Seq(Entries), NEW gone, Sole(A), Cutoff(A, B, gone)
  PROVE  Sole(B)
  <1>1. PICK d \in Nat : \A j \in DOMAIN B : j + d \in DOMAIN A /\ B[j] = A[j + d]
    BY DEF Cutoff
  <1>2. ASSUME NEW i \in DOMAIN B, NEW j \in DOMAIN B,
               B[i].send = B[j].send, B[i].text = B[j].text
        PROVE  i = j
    <2>1. i \in Nat /\ j \in Nat
      OBVIOUS
    <2>2. i + d = j + d
      BY <1>1, <1>2 DEF Sole
    <2> QED BY <2>1, <2>2
  <1> QED BY <1>2 DEF Sole

LEMMA CutHas ==
  ASSUME NEW A, NEW B, NEW gone, Cutoff(A, B, gone)
  PROVE  /\ \A j \in DOMAIN B : \E i \in DOMAIN A : B[j] = A[i]
         /\ \A i \in DOMAIN A : A[i].send \in gone \/ \E j \in DOMAIN B : B[j] = A[i]
  BY Zenon DEF Cutoff

(* register: what is appended, and what is kept of it.                     *)
All(s, since) ==
  entries \o <<Entry(s, TextOf[s], since)>>
    \o (IF s \in file THEN <<Entry(s, Attachment, since)>> ELSE <<>>)

LEMMA AllIs ==
  ASSUME EchoAssumption, TypeOK, NEW s \in Sends, NEW since \in Nat
  PROVE  LET A == All(s, since)
             n == Len(entries) IN
         /\ A \in Seq(Entries) /\ n \in Nat /\ DOMAIN entries = 1..n
         /\ DOMAIN A \subseteq 1..(n + 2) /\ 1..(n + 1) \subseteq DOMAIN A
         /\ Len(A) <= n + 2
         /\ \A i \in 1..n : A[i] = entries[i]
         /\ A[n + 1] = Entry(s, TextOf[s], since)
         /\ s \in file => n + 2 \in DOMAIN A /\ A[n + 2] = Entry(s, Attachment, since)
         /\ s \notin file => n + 2 \notin DOMAIN A
  <1> DEFINE one == Entry(s, TextOf[s], since)
             two == Entry(s, Attachment, since)
             n == Len(entries)
             B == entries \o <<one>>
             A == All(s, since)
  <1>1. one \in Entries /\ two \in Entries
    BY MsgType DEF Entry, Entries
  <1>2. entries \in Seq(Entries) /\ n \in Nat /\ DOMAIN entries = 1..n
    BY TypeParts DEF Types2
  <1> HIDE DEF one, two
  <1>3. /\ B \in Seq(Entries) /\ Len(B) = n + 1 /\ \A i \in 1..n : B[i] = entries[i]
        /\ B[n + 1] = one /\ DOMAIN B = 1..(n + 1)
    BY <1>1, <1>2
  <1>4. CASE s \in file
    <2>1. A = B \o <<two>>
      BY <1>4 DEF All, one, two
    <2> HIDE DEF A, B, n
    <2>2. /\ A \in Seq(Entries) /\ Len(A) = n + 2 /\ \A i \in 1..(n + 1) : A[i] = B[i]
          /\ A[n + 2] = two /\ DOMAIN A = 1..(n + 2)
      BY <1>1, <1>2, <1>3, <2>1
    <2>3. \A i \in 1..n : i \in 1..(n + 1)
      BY <1>2
    <2> QED BY <1>2, <1>3, <1>4, <2>2, <2>3 DEF A, n, one, two
  <1>5. CASE s \notin file
    <2>1. A = B
      <3>1. A = B \o <<>>
        BY <1>5 DEF All, one
      <3> QED BY <1>3, <3>1
    <2> HIDE DEF A, B, n
    <2>2. n + 2 \notin 1..(n + 1) /\ 1..(n + 1) \subseteq 1..(n + 2)
      BY <1>2
    <2> QED BY <1>2, <1>3, <1>5, <2>1, <2>2 DEF A, n, one
  <1> QED BY <1>4, <1>5

(* The entries a send registers are its own and new, and they are kept.    *)
LEMMA RegisterIs ==
  ASSUME EchoAssumption, TypeOK, Listed, NEW s \in Sends,
         NEW since \in 1..(Len(msgs) + 1), Register(s, since)
  PROVE  \E A \in Seq(Entries), gone \in SUBSET Sends :
           /\ entries' \in Seq(Entries)
           /\ Sole(A) /\ Cutoff(A, entries', gone) /\ lapsed' = lapsed \cup gone
           /\ \A r \in gone : send[r] # "confirm"
           /\ \A i \in DOMAIN entries : \E j \in DOMAIN A : A[j] = entries[i]
           /\ \A i \in DOMAIN A :
                \/ i \in DOMAIN entries /\ A[i] = entries[i]
                \/ A[i] = Entry(s, TextOf[s], since)
                \/ s \in file /\ A[i] = Entry(s, Attachment, since)
           /\ HasEntry(s, TextOf[s])'
           /\ s \in file => HasEntry(s, Attachment)'
  <1> DEFINE A == All(s, since)
             n == Len(entries)
             one == Entry(s, TextOf[s], since)
             two == Entry(s, Attachment, since)
  <1>1. /\ A \in Seq(Entries) /\ n \in Nat /\ DOMAIN entries = 1..n
        /\ DOMAIN A \subseteq 1..(n + 2) /\ 1..(n + 1) \subseteq DOMAIN A
        /\ Len(A) <= n + 2
        /\ \A i \in 1..n : A[i] = entries[i]
        /\ A[n + 1] = one
        /\ s \in file => n + 2 \in DOMAIN A /\ A[n + 2] = two
        /\ s \notin file => n + 2 \notin DOMAIN A
    <2>1. since \in Nat
      BY TypeParts, MessageNumbers DEF Types1
    <2> QED BY <2>1, AllIs
  <1>2. /\ one.send = s /\ two.send = s /\ one.text = TextOf[s] /\ two.text = Attachment
        /\ TextOf[s] # Attachment
    BY DEF Entry, EchoAssumption
  <1>3. /\ entries' = Kept(A) /\ lapsed' = lapsed \cup Dropped(A)
        /\ \A r \in Dropped(A) : send[r] # "confirm"
        /\ send[s] = "sent"
    BY DEF Register, All
  <1>4. \A i \in DOMAIN entries : entries[i].send # s
    BY <1>3 DEF Listed, Echo
  <1> HIDE DEF A, n, one, two
  <1>5. /\ Kept(A) \in Seq(Entries) /\ Cutoff(A, Kept(A), Dropped(A))
        /\ Dropped(A) \in SUBSET Sends
        /\ \A i \in DOMAIN A : i > Len(A) - MaxEntries =>
             \E j \in DOMAIN Kept(A) : Kept(A)[j] = A[i]
    BY <1>1, KeptIs
  <1>6. Sole(A)
    <2> SUFFICES ASSUME NEW i \in DOMAIN A, NEW j \in DOMAIN A,
                        A[i].send = A[j].send, A[i].text = A[j].text
                 PROVE  i = j
      BY DEF Sole
    <2>1. \A k \in DOMAIN A : k \in 1..n \/ k = n + 1 \/ (k = n + 2 /\ s \in file)
      BY <1>1
    <2>2. \A k \in DOMAIN A : k \in 1..n => A[k].send # s
      BY <1>1, <1>4
    <2>3. CASE i \in 1..n /\ j \in 1..n
      BY <1>1, <2>3 DEF Listed, Sole
    <2> QED BY <1>1, <1>2, <2>1, <2>2, <2>3
  <1>7. \A k \in DOMAIN A : k > n => \E j \in DOMAIN entries' : entries'[j] = A[k]
    <2>1. \A k \in DOMAIN A : k > n => k > Len(A) - MaxEntries
      <3>1. MaxEntries \in Nat /\ MaxEntries >= 2 /\ Len(A) \in Nat
        BY <1>1 DEF EchoAssumption
      <3>2. DOMAIN A \subseteq Nat
        BY <1>1
      <3> QED BY <1>1, <3>1, <3>2
    <2> QED BY <1>3, <1>5, <2>1
  <1>8. HasEntry(s, TextOf[s])'
    <2>1. n + 1 \in DOMAIN A /\ n + 1 > n
      BY <1>1
    <2>2. \E j \in DOMAIN entries' : entries'[j] = one
      BY <1>1, <1>7, <2>1
    <2> QED BY <1>2, <2>2 DEF HasEntry
  <1>9. s \in file => HasEntry(s, Attachment)'
    <2>1. s \in file => n + 2 \in DOMAIN A /\ n + 2 > n
      BY <1>1
    <2>2. s \in file => \E j \in DOMAIN entries' : entries'[j] = two
      BY <1>1, <1>7, <2>1
    <2> QED BY <1>2, <2>2 DEF HasEntry
  <1>10. \A i \in DOMAIN entries : \E j \in DOMAIN A : A[j] = entries[i]
    <2>1. \A i \in 1..n : i \in 1..(n + 1)
      BY <1>1
    <2> QED BY <1>1, <2>1
  <1>11. \A i \in DOMAIN A : \/ i \in DOMAIN entries /\ A[i] = entries[i]
                             \/ A[i] = one \/ (s \in file /\ A[i] = two)
    <2>1. \A i \in DOMAIN A : i \in 1..n \/ i = n + 1 \/ (i = n + 2 /\ s \in file)
      BY <1>1
    <2> QED BY <1>1, <2>1
  <1> QED BY <1>1, <1>3, <1>5, <1>6, <1>8, <1>9, <1>10, <1>11 DEF one, two

LEMMA ListedRegister ==
  ASSUME EchoAssumption, TypeOK, Listed, Grows, NEW s \in Sends,
         NEW since \in 1..(Len(msgs) + 1), Register(s, since)
  PROVE  Listed'
  <1>t. send \in [Sends -> Script \cup {"file", "sent", "confirm", "done", "failed"}]
    BY TypeParts DEF Types1
  <1>1. PICK A \in Seq(Entries), gone \in SUBSET Sends :
           /\ entries' \in Seq(Entries)
           /\ Sole(A) /\ Cutoff(A, entries', gone) /\ lapsed' = lapsed \cup gone
           /\ \A r \in gone : send[r] # "confirm"
           /\ \A i \in DOMAIN entries : \E j \in DOMAIN A : A[j] = entries[i]
           /\ \A i \in DOMAIN A :
                \/ i \in DOMAIN entries /\ A[i] = entries[i]
                \/ A[i] = Entry(s, TextOf[s], since)
                \/ s \in file /\ A[i] = Entry(s, Attachment, since)
           /\ HasEntry(s, TextOf[s])'
           /\ s \in file => HasEntry(s, Attachment)'
    BY RegisterIs
  <1>2. /\ send[s] = "sent" /\ send' = [send EXCEPT ![s] = "confirm"] /\ file' = file
        /\ send'[s] = "confirm" /\ \A r \in Sends : r # s => send'[r] = send[r]
    BY <1>t DEF Register
  <1>3. \A r \in Sends : Stage(r)
    BY DEF Listed
  <1>4. ASSUME NEW i \in DOMAIN A
        PROVE  /\ send'[A[i].send] \in {"confirm", "done"} /\ Sent(A[i].send, A[i].text)'
               /\ Pinned(A[i])'
    <2>1. CASE i \in DOMAIN entries /\ A[i] = entries[i]
      <3>1. /\ entries[i] \in Entries /\ Echo(entries[i]) /\ entries[i].send \in Sends
            /\ entries[i].send # s
        BY <1>2, <2>1, EntriesType DEF Listed, Echo, Entries
      <3>2. send'[entries[i].send] = send[entries[i].send]
        BY <1>2, <3>1
      <3> QED BY <2>1, <3>1, <3>2, EchoKept
    <2>2. CASE A[i] = Entry(s, TextOf[s], since)
      <3>1. Sent(s, TextOf[s])'
        BY <1>2, <1>3, SentKept DEF Stage
      <3> QED BY <1>2, <2>2, <3>1 DEF Entry, Pinned
    <2>3. CASE s \in file /\ A[i] = Entry(s, Attachment, since)
      <3>1. Sent(s, Attachment)'
        BY <1>3, <2>3, SentKept DEF Stage
      <3> QED BY <1>2, <2>3, <3>1 DEF Entry, Pinned
    <2> QED BY <1>1, <2>1, <2>2, <2>3
  <1>5. Sole(entries')
    BY <1>1, SoleCut
  <1>6. ASSUME NEW j \in DOMAIN entries'
        PROVE  Echo(entries[j])'
    <2>1. PICK i \in DOMAIN A : entries'[j] = A[i]
      BY <1>1, CutHas
    <2> QED BY <1>4, <2>1 DEF Echo
  <1>7. ASSUME NEW r \in Sends
        PROVE  Stage(r)'
    <2>1. Stage(r) /\ Stage(s)
      BY <1>3
    <2>2. \A text : Sent(r, text) => Sent(r, text)'
      BY SentKept
    <2>3. CASE r = s
      BY <1>1, <1>2, <2>1, <2>2, <2>3 DEF Stage
    <2>4. CASE r # s
      <3>1. send[r] = "confirm" => HasEntry(r, TextOf[r])'
        <4>1. ASSUME send[r] = "confirm"
              PROVE  HasEntry(r, TextOf[r])'
          <5>1. PICK i \in DOMAIN entries :
                  entries[i].send = r /\ entries[i].text = TextOf[r]
            BY <2>1, <4>1 DEF Stage, HasEntry
          <5>2. PICK k \in DOMAIN A : A[k] = entries[i]
            BY <1>1
          <5>3. \E j \in DOMAIN entries' : entries'[j] = A[k]
            BY <1>1, <4>1, <5>1, <5>2, CutHas
          <5> QED BY <5>1, <5>2, <5>3 DEF HasEntry
        <4> QED BY <4>1
      <3> QED BY <1>2, <2>1, <2>2, <2>4, <3>1 DEF Stage
    <2> QED BY <2>3, <2>4
  <1> QED BY <1>5, <1>6, <1>7 DEF Listed

LEMMA ListedPrune ==
  ASSUME EchoAssumption, TypeOK, Listed, Grows, Prune
  PROVE  Listed'
  <1>1. /\ entries \in Seq(Entries) /\ entries' \in Seq(Entries)
        /\ Cutoff(entries, entries', {Head(entries).send})
        /\ send[Head(entries).send] # "confirm"
        /\ send' = send /\ file' = file
    BY TypeParts, TailIs DEF Types2, Prune, app
  <1>2. Sole(entries')
    BY <1>1, SoleCut DEF Listed
  <1>3. ASSUME NEW j \in DOMAIN entries'
        PROVE  Echo(entries[j])'
    <2>1. PICK i \in DOMAIN entries : entries'[j] = entries[i]
      BY <1>1, CutHas
    <2>2. entries[i] \in Entries /\ Echo(entries[i])
      BY EntriesType DEF Listed
    <2> QED BY <1>1, <2>1, <2>2, EchoKept DEF Echo
  <1>4. ASSUME NEW s \in Sends
        PROVE  Stage(s)'
    <2>1. Stage(s) /\ \A text : Sent(s, text) => Sent(s, text)'
      BY SentKept DEF Listed
    <2>2. send[s] = "confirm" => HasEntry(s, TextOf[s])'
      <3>1. ASSUME send[s] = "confirm"
            PROVE  HasEntry(s, TextOf[s])'
        <4>1. PICK i \in DOMAIN entries :
                entries[i].send = s /\ entries[i].text = TextOf[s]
          BY <2>1, <3>1 DEF Stage, HasEntry
        <4>2. \E j \in DOMAIN entries' : entries'[j] = entries[i]
          BY <1>1, <3>1, <4>1, CutHas
        <4> QED BY <4>1, <4>2 DEF HasEntry
      <3> QED BY <3>1
    <2> QED BY <1>1, <2>1, <2>2 DEF Stage
  <1> QED BY <1>2, <1>3, <1>4 DEF Listed

(* A step after which every entry is where it was, perhaps with a pin to a *)
(* row of its text.                                                        *)
LEMMA ListedPins ==
  ASSUME EchoAssumption, TypeOK, Listed, Grows, file' = file,
         DOMAIN entries' = DOMAIN entries,
         \A i \in DOMAIN entries :
           /\ Kin(entries'[i], entries[i])
           /\ \/ entries'[i].pin = entries[i].pin
              \/ /\ entries'[i].pin \in Messages /\ FromMe(entries'[i].pin)
                 /\ msgs[entries'[i].pin].text = entries[i].text,
         \A s \in Sends : send'[s] = send[s] \/ (send[s] = "confirm" /\ send'[s] = "done")
  PROVE  Listed'
  <1>1. Sole(entries')
    BY DEF Sole, Kin, Listed
  <1>2. ASSUME NEW i \in DOMAIN entries'
        PROVE  Echo(entries[i])'
    <2>0. i \in DOMAIN entries
      OBVIOUS
    <2>1. /\ entries[i] \in Entries /\ Echo(entries[i]) /\ entries[i].send \in Sends
          /\ Kin(entries'[i], entries[i])
      BY <2>0, EntriesType DEF Listed, Entries
    <2>2. send'[entries[i].send] = send[entries[i].send] \/ send'[entries[i].send] = "done"
      BY <2>1
    <2>3. /\ send'[entries[i].send] \in {"confirm", "done"}
          /\ \E k \in Messages' :
               msgs'[k].by = entries[i].send /\ msgs'[k].text = entries[i].text
          /\ entries[i].pin # 0 =>
               /\ msgs'[entries[i].pin].text = entries[i].text
               /\ msgs'[entries[i].pin].by # "them"
      BY <2>1, <2>2, EchoKept DEF Sent, Pinned, FromMe
    <2>4. Pinned(entries[i])'
      <3>1. CASE entries'[i].pin = entries[i].pin
        BY <2>1, <2>3, <3>1 DEF Pinned, FromMe, Kin
      <3>2. CASE /\ entries'[i].pin \in Messages /\ FromMe(entries'[i].pin)
                 /\ msgs[entries'[i].pin].text = entries[i].text
        <4>1. msgs'[entries'[i].pin] = msgs[entries'[i].pin]
          BY <3>2 DEF Grows
        <4> QED BY <2>1, <3>2, <4>1 DEF Pinned, FromMe, Kin
      <3> QED BY <2>0, <3>1, <3>2
    <2> QED BY <2>1, <2>3, <2>4 DEF Echo, Sent, Kin
  <1>3. ASSUME NEW s \in Sends
        PROVE  Stage(s)'
    <2>1. Stage(s) /\ \A text : Sent(s, text) => Sent(s, text)'
      BY SentKept DEF Listed
    <2>2. \A text : HasEntry(s, text) => HasEntry(s, text)'
      BY DEF HasEntry, Kin
    <2> QED BY <2>1, <2>2 DEF Stage
  <1> QED BY <1>1, <1>2, <1>3 DEF Listed

(* The confirm poll pins the send's own entry.                             *)
LEMMA ConfirmIs ==
  ASSUME EchoAssumption, TypeOK, Listed, NEW s \in Sends, Confirm(s)
  PROVE  /\ send[s] = "confirm" /\ send' = [send EXCEPT ![s] = "done"]
         /\ DOMAIN entries' = DOMAIN entries
         /\ \A i \in DOMAIN entries :
              /\ Kin(entries'[i], entries[i])
              /\ \/ entries'[i] = entries[i]
                 \/ /\ entries[i].send = s
                    /\ entries'[i].pin \in Messages /\ FromMe(entries'[i].pin)
                    /\ msgs[entries'[i].pin].text = entries[i].text
  <1> DEFINE k == Own(s)
             m == Newest(Matching(s))
  <1>1. k \in DOMAIN entries /\ entries[k].send = s /\ entries[k].text = TextOf[s]
    <2>1. HasEntry(s, TextOf[s])
      BY DEF Confirm, Listed, Stage
    <2> QED BY <2>1 DEF HasEntry, Own
  <1>2. m \in Messages /\ FromMe(m) /\ msgs[m].text = TextOf[s]
    <2>1. msgs \in Seq(Msg) /\ Rows \subseteq Messages
      BY TypeParts DEF Types1, Rows
    <2>2. Matching(s) \in SUBSET Messages /\ Matching(s) # {}
      BY <2>1 DEF Matching, Confirm
    <2>3. m \in Matching(s)
      BY <2>1, <2>2, NewestIs
    <2> QED BY <2>2, <2>3 DEF Matching
  <1>3. entries' = [entries EXCEPT ![k].pin = m]
    BY DEF Confirm
  <1>4. entries[k] \in Entries
    BY <1>1, EntriesType
  <1> HIDE DEF k, m
  <1>5. entries'[k] = [entries[k] EXCEPT !.pin = m]
    BY <1>1, <1>3
  <1>6. /\ entries'[k].pin = m /\ entries'[k].send = entries[k].send
        /\ entries'[k].text = entries[k].text /\ entries'[k].since = entries[k].since
    BY <1>4, <1>5 DEF Entries
  <1>7. DOMAIN entries' = DOMAIN entries
        /\ \A i \in DOMAIN entries : i # k => entries'[i] = entries[i]
    BY <1>3
  <1>8. ASSUME NEW i \in DOMAIN entries
        PROVE  /\ Kin(entries'[i], entries[i])
               /\ \/ entries'[i] = entries[i]
                  \/ /\ entries[i].send = s
                     /\ entries'[i].pin \in Messages /\ FromMe(entries'[i].pin)
                     /\ msgs[entries'[i].pin].text = entries[i].text
    <2>1. CASE i = k
      BY <1>1, <1>2, <1>6, <2>1 DEF Kin
    <2>2. CASE i # k
      BY <1>7, <2>2, Zenon DEF Kin
    <2> QED BY <2>1, <2>2
  <1>9. send[s] = "confirm" /\ send' = [send EXCEPT ![s] = "done"]
    BY DEF Confirm
  <1> QED BY <1>7, <1>8, <1>9

(* What a round leaves in the registry.                                    *)
LEMMA ReadIs ==
  ASSUME TypeOK, NEW w \in Waits, ReadReplies(w)
  PROVE  LET mine == {m \in After(w) : FromMe(m)}
             echoes == {m \in mine : \E i \in DOMAIN entries' : entries'[i].pin = m} IN
         /\ Took(entries, entries', Len(msgs), mine)
         /\ After(w) \in SUBSET Messages
         /\ silenced' = [silenced EXCEPT ![w] = @ \cup echoes]
         /\ told' = told \/ told' = [told EXCEPT ![w] = After(w) \ echoes]
         /\ UNCHANGED <<msgs, landed, send, file, last, lapsed>>
         /\ wait[w] = "reading"
  <1> DEFINE mine == {m \in After(w) : FromMe(m)}
             E == Taken(mine)[Len(msgs)]
  <1>1. Took(entries, E, Len(msgs), mine) /\ After(w) \in SUBSET Messages
    BY RoundIs DEF Round1
  <1>2. entries' = E
    BY DEF ReadReplies
  <1> DEFINE echoes == {m \in mine : \E i \in DOMAIN E : E[i].pin = m}
  <1>3. /\ silenced' = [silenced EXCEPT ![w] = @ \cup echoes]
        /\ told' = told \/ told' = [told EXCEPT ![w] = After(w) \ echoes]
        /\ UNCHANGED <<msgs, landed, send, file, last, lapsed>>
        /\ wait[w] = "reading"
    BY DEF ReadReplies, app
  <1>4. echoes = {m \in mine : \E i \in DOMAIN entries' : entries'[i].pin = m}
    BY <1>2
  <1> HIDE DEF E, echoes, mine
  <1>5. Took(entries, entries', Len(msgs), mine)
    BY <1>1, <1>2
  <1> QED BY <1>1, <1>3, <1>4, <1>5 DEF mine

LEMMA ListedStep ==
  ASSUME EchoAssumption, TypeOK, Listed, [Next]_vars
  PROVE  Listed'
  <1>t. send \in [Sends -> Script \cup {"file", "sent", "confirm", "done", "failed"}]
    BY TypeParts DEF Types1
  <1>g. Grows /\ msgs \in Seq(Msg)
    BY StepGrows, TypeParts DEF Types1
  <1>1. ASSUME send' = send, file' = file, entries' = entries
        PROVE  Listed'
    <2>1. \A s \in Sends :
            /\ send[s] \in {"confirm", "done"} => send'[s] = send[s] \/ send'[s] = "done"
            /\ send'[s] = "confirm" => send[s] = "confirm"
            /\ send'[s] = send[s] /\ (s \in file' => s \in file)
      BY <1>1
    <2> QED BY <1>1, <1>g, <2>1, ListedSame
  <1>2. ASSUME NEW s \in Sends, NEW o \in Outcomes, RunScript(s, o)
        PROVE  Listed'
    <2>1. /\ send[s] \in Script /\ file' = file /\ entries' = entries
          /\ \A r \in Sends : r # s => send'[r] = send[r]
          /\ send'[s] = IF o = "sent" THEN Accepted(s) ELSE NextTry(send[s])
      BY <1>t, <1>2 DEF RunScript, registry
    <2>2. /\ send'[s] # "confirm" /\ send[s] \notin {"confirm", "done", "sent"}
          /\ send'[s] \in {"file", "sent", "confirm", "done"} => o = "sent"
      BY <2>1 DEF Script, Accepted, NextTry
    <2>3. o = "sent" => Sent(s, TextOf[s])'
      <3>1. ASSUME o = "sent"
            PROVE  Sent(s, TextOf[s])'
        <4>1. msgs' = Append(msgs, Message(s, TextOf[s]))
          BY <1>2, <3>1 DEF RunScript
        <4>2. Len(msgs) + 1 \in Messages' /\ msgs'[Len(msgs) + 1] = Message(s, TextOf[s])
          BY <1>g, <4>1, AppendGrows, MsgType
        <4> QED BY <4>2 DEF Sent, Message
      <3> QED BY <3>1
    <2>4. s \notin file
      BY <2>2 DEF Listed, Stage
    <2>5. \A r \in Sends :
            /\ send[r] \in {"confirm", "done"} => send'[r] = send[r] \/ send'[r] = "done"
            /\ send'[r] = "confirm" => send[r] = "confirm"
            /\ \/ send'[r] = send[r] /\ (r \in file' => r \in file)
               \/ /\ send'[r] \in {"file", "sent", "confirm", "done"} => Sent(r, TextOf[r])'
                  /\ r \in file' => Sent(r, Attachment)' /\ send'[r] \in {"sent", "done"}
      BY <2>1, <2>2, <2>3, <2>4
    <2> QED BY <1>g, <2>1, <2>5, ListedSame
  <1>3. ASSUME NEW s \in Sends, NEW o \in Outcomes, SendAttachment(s, o)
        PROVE  Listed'
    <2>1. /\ send[s] = "file" /\ entries' = entries
          /\ \A r \in Sends : r # s => send'[r] = send[r]
          /\ send'[s] = "sent"
          /\ file' = file \/ (o = "sent" /\ file' = file \cup {s})
      BY <1>t, <1>3 DEF SendAttachment, registry
    <2>2. Stage(s) /\ Sent(s, TextOf[s])'
      BY <1>g, <2>1, SentKept DEF Listed, Stage
    <2>3. s \in file' => Sent(s, Attachment)'
      <3>1. ASSUME o = "sent"
            PROVE  Sent(s, Attachment)'
        <4>1. msgs' = Append(msgs, Message(s, Attachment))
          BY <1>3, <3>1 DEF SendAttachment
        <4>2. Len(msgs) + 1 \in Messages' /\ msgs'[Len(msgs) + 1] = Message(s, Attachment)
          BY <1>g, <4>1, AppendGrows, MsgType
        <4> QED BY <4>2 DEF Sent, Message
      <3>2. s \notin file
        BY <2>1, <2>2 DEF Stage
      <3> QED BY <2>1, <3>1, <3>2
    <2>5. \A r \in Sends :
            /\ send[r] \in {"confirm", "done"} => send'[r] = send[r] \/ send'[r] = "done"
            /\ send'[r] = "confirm" => send[r] = "confirm"
            /\ \/ send'[r] = send[r] /\ (r \in file' => r \in file)
               \/ /\ send'[r] \in {"file", "sent", "confirm", "done"} => Sent(r, TextOf[r])'
                  /\ r \in file' => Sent(r, Attachment)' /\ send'[r] \in {"sent", "done"}
      BY <2>1, <2>2, <2>3
    <2> QED BY <1>g, <2>1, <2>5, ListedSame
  <1>4. ASSUME NEW s \in Sends, NoChat(s) \/ Unconfirmed(s)
        PROVE  Listed'
    <2>1. /\ send[s] \in {"sent", "confirm"} /\ entries' = entries /\ file' = file
          /\ \A r \in Sends : r # s => send'[r] = send[r]
          /\ send'[s] = "done"
      BY <1>t, <1>4 DEF NoChat, Unconfirmed, registry
    <2>2. Stage(s) /\ Sent(s, TextOf[s])' /\ (s \in file => Sent(s, Attachment)')
      BY <1>g, <2>1, SentKept DEF Listed, Stage
    <2>5. \A r \in Sends :
            /\ send[r] \in {"confirm", "done"} => send'[r] = send[r] \/ send'[r] = "done"
            /\ send'[r] = "confirm" => send[r] = "confirm"
            /\ \/ send'[r] = send[r] /\ (r \in file' => r \in file)
               \/ /\ send'[r] \in {"file", "sent", "confirm", "done"} => Sent(r, TextOf[r])'
                  /\ r \in file' => Sent(r, Attachment)' /\ send'[r] \in {"sent", "done"}
      BY <2>1, <2>2
    <2> QED BY <1>g, <2>1, <2>5, ListedSame
  <1>5. ASSUME NEW s \in Sends, Confirm(s)
        PROVE  Listed'
    <2>1. /\ send[s] = "confirm" /\ send' = [send EXCEPT ![s] = "done"]
          /\ DOMAIN entries' = DOMAIN entries
          /\ \A i \in DOMAIN entries :
               /\ Kin(entries'[i], entries[i])
               /\ \/ entries'[i] = entries[i]
                  \/ /\ entries[i].send = s
                     /\ entries'[i].pin \in Messages /\ FromMe(entries'[i].pin)
                     /\ msgs[entries'[i].pin].text = entries[i].text
      BY <1>5, ConfirmIs
    <2>2. \A r \in Sends : send'[r] = send[r] \/ (send[r] = "confirm" /\ send'[r] = "done")
      BY <1>t, <2>1
    <2>3. file' = file
      BY <1>5 DEF Confirm
    <2>4. \A i \in DOMAIN entries :
            /\ Kin(entries'[i], entries[i])
            /\ \/ entries'[i].pin = entries[i].pin
               \/ /\ entries'[i].pin \in Messages /\ FromMe(entries'[i].pin)
                  /\ msgs[entries'[i].pin].text = entries[i].text
      BY <2>1, Zenon
    <2> QED BY <1>g, <2>1, <2>2, <2>3, <2>4, ListedPins
  <1>6. ASSUME NEW w \in Waits, ReadReplies(w)
        PROVE  Listed'
    <2> DEFINE mine == {m \in After(w) : FromMe(m)}
    <2>1. /\ Took(entries, entries', Len(msgs), mine) /\ After(w) \in SUBSET Messages
          /\ send' = send /\ file' = file
      BY <1>6, ReadIs
    <2>2. \A i \in DOMAIN entries :
            /\ Kin(entries'[i], entries[i])
            /\ \/ entries'[i].pin = entries[i].pin
               \/ /\ entries'[i].pin \in Messages /\ FromMe(entries'[i].pin)
                  /\ msgs[entries'[i].pin].text = entries[i].text
      BY <2>1 DEF Took
    <2>3. DOMAIN entries' = DOMAIN entries
      BY <2>1 DEF Took
    <2> QED BY <1>g, <2>1, <2>2, <2>3, ListedPins
  <1>7. ASSUME NEW s \in Sends, NEW since \in 1..(Len(msgs) + 1), Register(s, since)
        PROVE  Listed'
    BY <1>7, <1>g, ListedRegister
  <1>8. CASE Prune
    BY <1>8, <1>g, ListedPrune
  <1>9. ASSUME NEW w \in Waits,
               \/ Wake(w) \/ GiveUp(w)
               \/ \E after \in Cursors, b \in BOOLEAN : WaitForReply(w, after, b)
        PROVE  Listed'
    BY <1>1, <1>9 DEF Wake, GiveUp, WaitForReply, app, registry
  <1>10. CASE \/ \E text \in Others : Write("user", text)
              \/ Write("them", "reply")
              \/ \E m \in Messages : Land(m)
              \/ UNCHANGED vars
    BY <1>1, <1>10 DEF Write, Land, vars, app, registry
  <1> QED BY <1>2, <1>3, <1>4, <1>5, <1>6, <1>7, <1>8, <1>9, <1>10 DEF Next

LEMMA ListedInit ==
  ASSUME Init
  PROVE  Listed
  <1>1. /\ entries = <<>> /\ DOMAIN entries = {} /\ file = {}
        /\ \A s \in Sends : send[s] = "idle"
    BY DEF Init
  <1> QED BY <1>1 DEF Listed, Sole, Stage

-----------------------------------------------------------------------------
(* Every row taken for an echo has a send of its own, of the same text:    *)
(* one whose entry is pinned to that row, or is gone.                      *)
Silenced == UNION {silenced[w] : w \in Waits}
Explains(g) ==
  \A m \in Silenced :
    /\ FromMe(m) /\ send[g[m]] = "done" /\ Sent(g[m], msgs[m].text)
    /\ HasEntry(g[m], msgs[m].text) \/ g[m] \in lapsed
    /\ \A i \in DOMAIN entries :
         entries[i].send = g[m] /\ entries[i].text = msgs[m].text
           => entries[i].pin = m
    /\ \A n \in Silenced :
         g[n] = g[m] /\ msgs[n].text = msgs[m].text => n = m
Explained == \E g \in [Silenced -> Sends] : Explains(g)

LEMMA SilencedType ==
  ASSUME TypeOK
  PROVE  Silenced \subseteq Messages /\ Messages \subseteq Nat \ {0}
  <1>1. silenced \in [Waits -> SUBSET Messages] /\ msgs \in Seq(Msg)
    BY TypeParts DEF Types1, Types2
  <1>2. Silenced \subseteq Messages
    BY <1>1 DEF Silenced
  <1> QED BY <1>1, <1>2, MessageNumbers

(* A step that silences nothing and keeps the entries of the sends that    *)
(* are done, or notes that it does not.                                    *)
LEMMA ExplainedKept ==
  ASSUME TypeOK, Explained, Grows, silenced' = silenced, lapsed \subseteq lapsed',
         \A s \in Sends : send[s] = "done" =>
           /\ send'[s] = "done"
           /\ \A j \in DOMAIN entries' : entries'[j].send = s =>
                \E i \in DOMAIN entries : entries[i] = entries'[j]
           /\ \A i \in DOMAIN entries : entries[i].send = s =>
                s \in lapsed' \/ \E j \in DOMAIN entries' : entries'[j] = entries[i]
  PROVE  Explained'
  <1>1. PICK g \in [Silenced -> Sends] : Explains(g)
    BY DEF Explained
  <1>2. Silenced' = Silenced /\ Silenced \subseteq Messages
    BY SilencedType DEF Silenced
  <1>3. ASSUME NEW m \in Silenced
        PROVE  /\ FromMe(m)' /\ send'[g[m]] = "done" /\ Sent(g[m], msgs[m].text)'
               /\ HasEntry(g[m], msgs[m].text)' \/ g[m] \in lapsed'
               /\ \A i \in DOMAIN entries' :
                    entries'[i].send = g[m] /\ entries'[i].text = msgs'[m].text
                      => entries'[i].pin = m
               /\ \A n \in Silenced :
                    g[n] = g[m] /\ msgs'[n].text = msgs'[m].text => n = m
    <2>1. /\ FromMe(m) /\ send[g[m]] = "done" /\ Sent(g[m], msgs[m].text)
          /\ HasEntry(g[m], msgs[m].text) \/ g[m] \in lapsed
          /\ \A i \in DOMAIN entries :
               entries[i].send = g[m] /\ entries[i].text = msgs[m].text
                 => entries[i].pin = m
          /\ \A n \in Silenced :
               g[n] = g[m] /\ msgs[n].text = msgs[m].text => n = m
      BY <1>1 DEF Explains
    <2>2. g[m] \in Sends /\ \A n \in Silenced : msgs'[n] = msgs[n]
      BY <1>1, <1>2 DEF Grows
    <2>3. FromMe(m)' /\ Sent(g[m], msgs[m].text)'
      <3>1. \A text : Sent(g[m], text) => Sent(g[m], text)'
        BY SentKept
      <3>2. Sent(g[m], msgs[m].text)'
        BY <2>1, <2>2, <3>1 DEF Sent
      <3> QED BY <2>1, <2>2, <3>2 DEF FromMe
    <2>4. HasEntry(g[m], msgs[m].text)' \/ g[m] \in lapsed'
      <3>1. CASE g[m] \in lapsed
        BY <3>1
      <3>2. ASSUME NEW i \in DOMAIN entries,
                   entries[i].send = g[m], entries[i].text = msgs[m].text
            PROVE  HasEntry(g[m], msgs[m].text)' \/ g[m] \in lapsed'
        BY <2>1, <2>2, <3>2 DEF HasEntry
      <3> QED BY <2>1, <3>1, <3>2 DEF HasEntry
    <2>5. ASSUME NEW i \in DOMAIN entries',
                 entries'[i].send = g[m], entries'[i].text = msgs'[m].text
          PROVE  entries'[i].pin = m
      <3>1. PICK j \in DOMAIN entries : entries[j] = entries'[i]
        BY <2>1, <2>2, <2>5
      <3> QED BY <2>1, <2>2, <2>5, <3>1
    <2> QED BY <2>1, <2>2, <2>3, <2>4, <2>5
  <1>4. Explains(g)'
    BY <1>2, <1>3 DEF Explains
  <1> QED BY <1>1, <1>2, <1>4 DEF Explained

(* A round of a wait.                                                      *)
LEMMA ExplainedRead ==
  ASSUME EchoAssumption, TypeOK, Listed, Listed', Quiet, Explained,
         NEW w \in Waits, ReadReplies(w)
  PROVE  Explained'
  <1> DEFINE mine == {m \in After(w) : FromMe(m)}
             echoes == {m \in mine : \E i \in DOMAIN entries' : entries'[i].pin = m}
  <1>1. /\ Took(entries, entries', Len(msgs), mine)
        /\ After(w) \in SUBSET Messages
        /\ silenced' = [silenced EXCEPT ![w] = @ \cup echoes]
        /\ UNCHANGED <<msgs, landed, send, file, last, lapsed>>
        /\ wait[w] = "reading"
    BY ReadIs
  <1>2. PICK g \in [Silenced -> Sends] : Explains(g)
    BY DEF Explained
  <1>3. Silenced \subseteq Messages /\ echoes \subseteq Messages /\ 0 \notin Messages
    BY <1>1, SilencedType
  <1>4. Silenced' = Silenced \cup echoes
    <2> HIDE DEF echoes
    <2>1. silenced \in [Waits -> SUBSET Messages]
      BY TypeParts DEF Types2
    <2> QED BY <1>1, <2>1 DEF Silenced
  <1>5. ASSUME NEW m \in echoes
        PROVE  \E i \in DOMAIN entries' : entries'[i].pin = m
    OBVIOUS
  <1>6. \A m \in echoes : FromMe(m)
    OBVIOUS
  <1>7. DOMAIN entries' = DOMAIN entries
        /\ \A i \in DOMAIN entries :
             /\ entries'[i].send = entries[i].send /\ entries'[i].text = entries[i].text
             /\ entries[i].pin # 0 => entries'[i].pin = entries[i].pin
    BY <1>1 DEF Took, Kin
  <1> HIDE DEF mine, echoes
  <1>8. ASSUME NEW i \in DOMAIN entries, entries'[i].pin # 0
        PROVE  /\ entries[i].send \in Sends /\ send[entries[i].send] = "done"
               /\ Sent(entries[i].send, entries[i].text)
               /\ msgs[entries'[i].pin].text = entries[i].text
    <2>1. entries[i] \in Entries /\ entries[i].send \in Sends
      BY EntriesType DEF Entries
    <2>2. send[entries[i].send] \in {"confirm", "done"}
          /\ Sent(entries[i].send, entries[i].text)
      BY DEF Listed, Echo
    <2>3. ~Busy(entries[i].send)
      BY <1>1, <2>1 DEF Quiet
    <2>4. msgs'[entries'[i].pin].text = entries'[i].text
      BY <1>7, <1>8 DEF Listed, Echo, Pinned
    <2> QED BY <1>1, <1>7, <2>1, <2>2, <2>3, <2>4 DEF Busy
  <1> DEFINE at(m) == CHOOSE i \in DOMAIN entries' : entries'[i].pin = m
             h == [m \in Silenced \cup echoes |->
                     IF m \in Silenced THEN g[m] ELSE entries'[at(m)].send]
  <1>9. ASSUME NEW m \in echoes
        PROVE  at(m) \in DOMAIN entries /\ entries'[at(m)].pin = m /\ m # 0
    BY <1>3, <1>5, <1>7
  <1> HIDE DEF at
  <1>10. /\ \A m \in Silenced : h[m] = g[m] /\ g[m] \in Sends
         /\ \A m \in echoes : m \notin Silenced => h[m] = entries[at(m)].send
    BY <1>7, <1>9
  <1>11. h \in [Silenced \cup echoes -> Sends]
    <2>1. \A m \in echoes : entries'[at(m)].send \in Sends
      BY <1>7, <1>8, <1>9
    <2> QED BY <1>2, <2>1
  <1>16. PICK x \in [Silenced \cup echoes -> Sends] :
          /\ \A m \in Silenced : x[m] = g[m] /\ g[m] \in Sends
          /\ \A m \in echoes : m \notin Silenced => x[m] = entries[at(m)].send
    <2> HIDE DEF h
    <2> QED BY <1>10, <1>11
  <1>12. \A i, j \in DOMAIN entries :
           entries[i].send = entries[j].send /\ entries[i].text = entries[j].text => i = j
    BY DEF Listed, Sole
  (* What is known of a row, by who it was silenced by. *)
  <1>13. ASSUME NEW m \in Silenced \cup echoes
         PROVE  /\ FromMe(m) /\ send[x[m]] = "done" /\ Sent(x[m], msgs[m].text)
                /\ HasEntry(x[m], msgs[m].text) \/ x[m] \in lapsed
                /\ \A i \in DOMAIN entries :
                     entries[i].send = x[m] /\ entries[i].text = msgs[m].text
                       => entries'[i].pin = m
    <2>1. CASE m \in Silenced
      <3>1. /\ FromMe(m) /\ send[g[m]] = "done" /\ Sent(g[m], msgs[m].text)
            /\ HasEntry(g[m], msgs[m].text) \/ g[m] \in lapsed
            /\ \A i \in DOMAIN entries :
                 entries[i].send = g[m] /\ entries[i].text = msgs[m].text
                   => entries[i].pin = m
        BY <1>2, <2>1 DEF Explains
      <3>2. m # 0 /\ x[m] = g[m]
        BY <1>3, <1>16, <2>1
      <3> QED BY <1>7, <3>1, <3>2
    <2>2. CASE m \in echoes /\ m \notin Silenced
      <3>1. /\ at(m) \in DOMAIN entries /\ entries'[at(m)].pin = m /\ m # 0
            /\ x[m] = entries[at(m)].send /\ FromMe(m)
        BY <1>6, <1>9, <1>16, <2>2
      <3>2. /\ send[entries[at(m)].send] = "done"
            /\ Sent(entries[at(m)].send, entries[at(m)].text)
            /\ msgs[m].text = entries[at(m)].text
        BY <1>8, <3>1
      <3>3. HasEntry(x[m], msgs[m].text)
        BY <3>1, <3>2 DEF HasEntry
      <3>4. \A i \in DOMAIN entries :
              entries[i].send = x[m] /\ entries[i].text = msgs[m].text => i = at(m)
        BY <1>12, <3>1, <3>2
      <3> QED BY <3>1, <3>2, <3>3, <3>4
    <2> QED BY <2>1, <2>2
  <1>14. ASSUME NEW m \in Silenced \cup echoes, NEW n \in Silenced \cup echoes,
                x[n] = x[m], msgs[n].text = msgs[m].text
         PROVE  n = m
    <2>1. CASE m \in Silenced /\ n \in Silenced
      BY <1>2, <1>16, <1>14, <2>1 DEF Explains
    <2>2. ASSUME NEW z \in Silenced \cup echoes, NEW y \in echoes, y \notin Silenced,
                 x[y] = x[z], msgs[y].text = msgs[z].text
          PROVE  y = z
      <3>1. /\ at(y) \in DOMAIN entries /\ entries'[at(y)].pin = y /\ y # 0
            /\ x[y] = entries[at(y)].send
        BY <1>9, <1>16, <2>2
      <3>2. entries[at(y)].text = msgs[z].text
        BY <1>8, <2>2, <3>1
      <3>3. entries'[at(y)].pin = z
        <4>1. \A i \in DOMAIN entries :
                entries[i].send = x[z] /\ entries[i].text = msgs[z].text
                  => entries'[i].pin = z
          BY <1>13, <2>2
        <4> QED BY <2>2, <3>1, <3>2, <4>1
      <3> QED BY <3>1, <3>3
    <2> QED BY <1>14, <2>1, <2>2
  <1>15. Explains(x)'
    <2> SUFFICES ASSUME NEW m \in Silenced \cup echoes
                 PROVE  /\ FromMe(m)' /\ send'[x[m]] = "done" /\ Sent(x[m], msgs[m].text)'
                        /\ HasEntry(x[m], msgs[m].text)' \/ x[m] \in lapsed'
                        /\ \A i \in DOMAIN entries' :
                             entries'[i].send = x[m] /\ entries'[i].text = msgs'[m].text
                               => entries'[i].pin = m
                        /\ \A n \in Silenced \cup echoes :
                             x[n] = x[m] /\ msgs'[n].text = msgs'[m].text => n = m
      BY <1>4 DEF Explains
    <2>1. /\ FromMe(m)' /\ send'[x[m]] = "done"
          /\ \A n \in Silenced \cup echoes :
               x[n] = x[m] /\ msgs'[n].text = msgs'[m].text => n = m
      BY <1>1, <1>13, <1>14 DEF FromMe
    <2>2. Sent(x[m], msgs[m].text)'
      BY <1>1, <1>13 DEF Sent, Messages
    <2>3. HasEntry(x[m], msgs[m].text)' \/ x[m] \in lapsed'
      BY <1>1, <1>7, <1>13 DEF HasEntry
    <2>4. \A i \in DOMAIN entries' :
            entries'[i].send = x[m] /\ entries'[i].text = msgs'[m].text
              => entries'[i].pin = m
      BY <1>1, <1>7, <1>13
    <2> QED BY <2>1, <2>2, <2>3, <2>4
  <1> QED BY <1>4, <1>15 DEF Explained

LEMMA ExplainedStep ==
  ASSUME EchoAssumption, TypeOK, Listed, Quiet, Explained, [Next]_vars
  PROVE  Explained'
  <1>t. send \in [Sends -> Script \cup {"file", "sent", "confirm", "done", "failed"}]
        /\ entries \in Seq(Entries)
    BY TypeParts DEF Types1, Types2
  <1>g. Grows /\ Listed'
    BY StepGrows, ListedStep
  <1>1. ASSUME entries' = entries, silenced' = silenced, lapsed \subseteq lapsed',
               \A s \in Sends : send[s] = "done" => send'[s] = "done"
        PROVE  Explained'
    BY <1>1, <1>g, ExplainedKept
  <1>2. ASSUME NEW s \in Sends,
               \/ \E o \in Outcomes : RunScript(s, o) \/ SendAttachment(s, o)
               \/ NoChat(s) \/ Unconfirmed(s)
        PROVE  Explained'
    <2>1. /\ entries' = entries /\ silenced' = silenced /\ lapsed \subseteq lapsed'
          /\ send[s] # "done" /\ \A r \in Sends : r # s => send'[r] = send[r]
      <3>1. CASE \E o \in Outcomes : RunScript(s, o)
        BY <1>t, <3>1 DEF RunScript, Script, registry, waiting
      <3>2. CASE \E o \in Outcomes : SendAttachment(s, o)
        BY <1>t, <3>2 DEF SendAttachment, registry, waiting
      <3>3. CASE NoChat(s) \/ Unconfirmed(s)
        BY <1>t, <3>3 DEF NoChat, Unconfirmed, registry, waiting
      <3> QED BY <1>2, <3>1, <3>2, <3>3
    <2> QED BY <1>1, <2>1
  <1>3. ASSUME NEW s \in Sends, Confirm(s)
        PROVE  Explained'
    <2>1. /\ send[s] = "confirm" /\ send' = [send EXCEPT ![s] = "done"]
          /\ DOMAIN entries' = DOMAIN entries
          /\ \A i \in DOMAIN entries : entries'[i] = entries[i] \/ entries[i].send = s
          /\ \A i \in DOMAIN entries : entries'[i].send = entries[i].send
      BY <1>3, ConfirmIs DEF Kin
    <2>2. silenced' = silenced /\ lapsed' = lapsed
      BY <1>3 DEF Confirm, waiting
    <2>3. \A r \in Sends : send[r] = "done" => r # s /\ send'[r] = "done"
      BY <1>t, <2>1
    <2>4. ASSUME NEW r \in Sends, send[r] = "done"
          PROVE  /\ send'[r] = "done"
                 /\ \A j \in DOMAIN entries' : entries'[j].send = r =>
                      \E i \in DOMAIN entries : entries[i] = entries'[j]
                 /\ \A i \in DOMAIN entries : entries[i].send = r =>
                      r \in lapsed' \/ \E j \in DOMAIN entries' : entries'[j] = entries[i]
      <3>1. \A i \in DOMAIN entries : entries[i].send = r => entries'[i] = entries[i]
        BY <2>1, <2>3, <2>4
      <3> QED BY <2>1, <2>3, <2>4, <3>1
    <2> QED BY <1>g, <2>2, <2>4, ExplainedKept
  <1>4. ASSUME NEW s \in Sends, NEW since \in 1..(Len(msgs) + 1), Register(s, since)
        PROVE  Explained'
    <2>1. PICK A \in Seq(Entries), gone \in SUBSET Sends :
             /\ Cutoff(A, entries', gone) /\ lapsed' = lapsed \cup gone
             /\ \A i \in DOMAIN entries : \E j \in DOMAIN A : A[j] = entries[i]
             /\ \A i \in DOMAIN A :
                  \/ i \in DOMAIN entries /\ A[i] = entries[i]
                  \/ A[i] = Entry(s, TextOf[s], since)
                  \/ s \in file /\ A[i] = Entry(s, Attachment, since)
      <3>1. \E A \in Seq(Entries), gone \in SUBSET Sends :
             /\ entries' \in Seq(Entries)
             /\ Sole(A) /\ Cutoff(A, entries', gone) /\ lapsed' = lapsed \cup gone
             /\ \A r \in gone : send[r] # "confirm"
             /\ \A i \in DOMAIN entries : \E j \in DOMAIN A : A[j] = entries[i]
             /\ \A i \in DOMAIN A :
                  \/ i \in DOMAIN entries /\ A[i] = entries[i]
                  \/ A[i] = Entry(s, TextOf[s], since)
                  \/ s \in file /\ A[i] = Entry(s, Attachment, since)
             /\ HasEntry(s, TextOf[s])'
             /\ s \in file => HasEntry(s, Attachment)'
        BY <1>4, RegisterIs
      <3> QED BY <3>1
    <2>2. /\ send[s] = "sent" /\ send' = [send EXCEPT ![s] = "confirm"]
          /\ silenced' = silenced /\ lapsed \subseteq lapsed'
      BY <1>4, <2>1 DEF Register, waiting
    <2>3. /\ \A j \in DOMAIN entries' : \E i \in DOMAIN A : entries'[j] = A[i]
          /\ \A i \in DOMAIN A :
               A[i].send \in gone \/ \E j \in DOMAIN entries' : entries'[j] = A[i]
      BY <2>1, CutHas
    <2>4. \A i \in DOMAIN A : A[i].send # s => i \in DOMAIN entries /\ A[i] = entries[i]
      BY <2>1 DEF Entry
    <2>5. ASSUME NEW r \in Sends, send[r] = "done"
          PROVE  /\ send'[r] = "done"
                 /\ \A j \in DOMAIN entries' : entries'[j].send = r =>
                      \E i \in DOMAIN entries : entries[i] = entries'[j]
                 /\ \A i \in DOMAIN entries : entries[i].send = r =>
                      r \in lapsed' \/ \E j \in DOMAIN entries' : entries'[j] = entries[i]
      <3>1. r # s /\ send'[r] = "done"
        BY <1>t, <2>2, <2>5
      <3>2. ASSUME NEW j \in DOMAIN entries', entries'[j].send = r
            PROVE  \E i \in DOMAIN entries : entries[i] = entries'[j]
        BY <2>3, <2>4, <3>1, <3>2
      <3>3. ASSUME NEW i \in DOMAIN entries, entries[i].send = r
            PROVE  r \in lapsed' \/ \E j \in DOMAIN entries' : entries'[j] = entries[i]
        <4>1. PICK k \in DOMAIN A : A[k] = entries[i]
          BY <2>1
        <4> QED BY <2>1, <2>3, <3>3, <4>1
      <3> QED BY <3>1, <3>2, <3>3
    <2> QED BY <1>g, <2>2, <2>5, ExplainedKept
  <1>5. ASSUME Prune
        PROVE  Explained'
    <2>1. Cutoff(entries, entries', {Head(entries).send})
      BY <1>t, <1>5, TailIs DEF Prune
    <2>2. /\ send' = send /\ silenced' = silenced
          /\ lapsed' = lapsed \cup {Head(entries).send}
      BY <1>5 DEF Prune, app, waiting
    <2>3. /\ \A j \in DOMAIN entries' : \E i \in DOMAIN entries : entries'[j] = entries[i]
          /\ \A i \in DOMAIN entries :
               \/ entries[i].send \in {Head(entries).send}
               \/ \E j \in DOMAIN entries' : entries'[j] = entries[i]
      BY <2>1, CutHas
    <2>4. ASSUME NEW r \in Sends, send[r] = "done"
          PROVE  /\ send'[r] = "done"
                 /\ \A j \in DOMAIN entries' : entries'[j].send = r =>
                      \E i \in DOMAIN entries : entries[i] = entries'[j]
                 /\ \A i \in DOMAIN entries : entries[i].send = r =>
                      r \in lapsed' \/ \E j \in DOMAIN entries' : entries'[j] = entries[i]
      BY <2>2, <2>3, <2>4
    <2> QED BY <1>g, <2>2, <2>4, ExplainedKept
  <1>6. ASSUME NEW w \in Waits, ReadReplies(w)
        PROVE  Explained'
    BY <1>6, <1>g, ExplainedRead
  <1>7. ASSUME NEW w \in Waits,
               \/ Wake(w) \/ GiveUp(w)
               \/ \E after \in Cursors, b \in BOOLEAN : WaitForReply(w, after, b)
        PROVE  Explained'
    BY <1>1, <1>7 DEF Wake, GiveUp, WaitForReply, app, registry
  <1>8. CASE \/ \E text \in Others : Write("user", text)
             \/ Write("them", "reply")
             \/ \E m \in Messages : Land(m)
             \/ UNCHANGED vars
    BY <1>1, <1>8 DEF Write, Land, vars, app, registry, waiting
  <1> QED BY <1>2, <1>3, <1>4, <1>5, <1>6, <1>7, <1>8 DEF Next

LEMMA ExplainedInit ==
  ASSUME Init
  PROVE  Explained
  <1>1. Silenced = {}
    BY DEF Init, Silenced
  <1>2. \E g \in [{} -> Sends] : TRUE
    <2>1. [x \in {} |-> x] \in [{} -> Sends]
      OBVIOUS
    <2> QED BY <2>1
  <1> QED BY <1>1, <1>2 DEF Explained, Explains

-----------------------------------------------------------------------------
(* The invariant behind the waits: what is silenced is explained.          *)
EchoInv == TypeOK /\ Quiet /\ Listed /\ Explained

LEMMA EchoInvHolds ==
  ASSUME EchoAssumption, ~Overlap
  PROVE  Spec => []EchoInv
  <1>1. Init => EchoInv
    <2>1. Init => Quiet
      BY DEF Init, Quiet
    <2> QED BY <2>1, TypeInit, ListedInit, ExplainedInit DEF EchoInv
  <1>2. EchoInv /\ [Next]_vars => EchoInv'
    BY TypeStep, QuietStep, ListedStep, ExplainedStep DEF EchoInv
  <1> QED BY <1>1, <1>2, PTL DEF Spec

(* Every variable of the conversation has its type, whatever the agent     *)
(* sends while it waits.                                                   *)
THEOREM Types ==
  ASSUME EchoAssumption
  PROVE  Spec => []TypeOK
  <1>1. TypeOK /\ [Next]_vars => TypeOK'
    BY TypeStep
  <1> QED BY <1>1, TypeInit, PTL DEF Spec

LEMMA NoSwallowIs ==
  ASSUME EchoInv
  PROVE  NoSwallow
  <1> SUFFICES ASSUME NEW text \in Texts
               PROVE  Cardinality({m \in Silenced : msgs[m].text = text})
                        <= Cardinality(BySend(text))
    BY Zenon DEF NoSwallow, Silenced
  <1> DEFINE M == {m \in Silenced : msgs[m].text = text}
             T == BySend(text)
  <1>1. PICK g \in [Silenced -> Sends] : Explains(g)
    BY DEF EchoInv, Explained
  <1> DEFINE f == [m \in M |-> CHOOSE k \in Messages :
                                 msgs[k].by = g[m] /\ msgs[k].text = text]
  <1>2. ASSUME NEW m \in M
        PROVE  f[m] \in Messages /\ msgs[f[m]].by = g[m] /\ msgs[f[m]].text = text
    <2>1. Sent(g[m], text)
      BY <1>1 DEF Explains
    <2> QED BY <2>1 DEF Sent
  <1>3. DOMAIN f = M
    OBVIOUS
  <1> HIDE DEF f
  <1>4. \A m \in M : f[m] \in T
    BY <1>1, <1>2 DEF BySend
  <1>5. ASSUME NEW m \in M, NEW n \in M, f[m] = f[n]
        PROVE  m = n
    <2>1. g[m] = g[n] /\ msgs[m].text = msgs[n].text
      BY <1>2, <1>5
    <2> QED BY <1>1, <2>1 DEF Explains
  <1>6. IsFiniteSet(Messages) /\ IsFiniteSet(T)
    <2>1. Messages = 1..Len(msgs) /\ Len(msgs) \in Nat
      BY TypeParts, MessageNumbers DEF EchoInv, Types1
    <2>2. IsFiniteSet(Messages)
      BY <2>1, FS_Interval
    <2> QED BY <2>2, FS_Subset DEF BySend
  <1> DEFINE F == [m \in M |-> f[m]]
  <1> HIDE DEF M, T
  <1>7. F \in Injection(M, T)
    <2>1. F \in [M -> T]
      BY <1>4
    <2>2. \A a, b \in M : F[a] = F[b] => a = b
      BY <1>5
    <2> HIDE DEF F
    <2> QED BY <2>1, <2>2 DEF Injection, IsInjective
  <1>8. Cardinality(M) <= Cardinality(T)
    BY <1>6, <1>7, FS_Injection
  <1> QED BY <1>8 DEF M, T

(* A wait answers with what its round leaves after the echoes.             *)
LEMMA ToldIs ==
  ASSUME TypeOK, [Next]_vars, NEW w \in Waits, told'[w] # told[w]
  PROVE  LET mine == {m \in After(w) : FromMe(m)}
             echoes == {m \in mine : \E i \in DOMAIN entries' : entries'[i].pin = m} IN
         /\ ReadReplies(w)
         /\ Took(entries, entries', Len(msgs), mine)
         /\ After(w) \in SUBSET Messages
         /\ told'[w] = After(w) \ echoes
  <1>t. told \in [Waits -> SUBSET Messages]
    BY TypeParts DEF Types2
  <1>1. ReadReplies(w)
    <2>1. ASSUME NEW u \in Waits, ReadReplies(u)
          PROVE  u = w
      <3>1. told' = told \/ \E S : told' = [told EXCEPT ![u] = S]
        BY <2>1 DEF ReadReplies
      <3> QED BY <1>t, <3>1
    <2>2. told' = told \/ \E u \in Waits : ReadReplies(u)
      BY DEF Next, vars, app, registry, waiting, Write, Land, NoChat, Confirm,
      Unconfirmed,
             RunScript, SendAttachment, Register, Prune, WaitForReply, Wake, GiveUp
    <2> QED BY <2>1, <2>2
  <1> DEFINE mine == {m \in After(w) : FromMe(m)}
             echoes == {m \in mine : \E i \in DOMAIN entries' : entries'[i].pin = m}
  <1>2. /\ Took(entries, entries', Len(msgs), mine)
        /\ After(w) \in SUBSET Messages
        /\ told' = told \/ told' = [told EXCEPT ![w] = After(w) \ echoes]
    BY <1>1, ReadIs
  <1>3. told'[w] = After(w) \ echoes
    BY <1>t, <1>2
  <1> QED BY <1>1, <1>2, <1>3

(* A message comes back as an answer from one wait, when another took it   *)
(* for an echo, only if a send of its text has lost its entry.             *)
LEMMA ConsistentIs ==
  ASSUME EchoAssumption, EchoInv, [Next]_vars, NEW v \in Waits, NEW w \in Waits,
         told'[w] # told[w], NEW m \in told'[w] \cap silenced[v]
  PROVE  ~Covered(msgs[m].text)
  <1> DEFINE mine == {n \in After(w) : FromMe(n)}
             echoes == {n \in mine : \E i \in DOMAIN entries' : entries'[i].pin = n}
  <1>2. Took(entries, entries', Len(msgs), mine) /\ told'[w] = After(w) \ echoes
    BY ToldIs DEF EchoInv
  <1>3. m \in After(w) /\ m \notin echoes
    BY <1>2
  <1>4. PICK g \in [Silenced -> Sends] : Explains(g)
    BY DEF EchoInv, Explained
  <1>5. m \in Silenced /\ m \in Messages /\ m # 0
    BY SilencedType DEF EchoInv, Silenced
  <1>6. /\ FromMe(m) /\ g[m] \in Sends /\ Sent(g[m], msgs[m].text)
        /\ HasEntry(g[m], msgs[m].text) \/ g[m] \in lapsed
        /\ \A i \in DOMAIN entries :
             entries[i].send = g[m] /\ entries[i].text = msgs[m].text => entries[i].pin = m
    BY <1>4, <1>5 DEF Explains
  <1>7. g[m] \in lapsed
    <2>1. \A i \in DOMAIN entries' : entries'[i].pin # m
      BY <1>3, <1>6
    <2> HIDE DEF mine, echoes
    <2>2. \A i \in DOMAIN entries : entries[i].pin = m => entries'[i].pin = m
      BY <1>2, <1>5 DEF Took
    <2>3. DOMAIN entries' = DOMAIN entries
      BY <1>2 DEF Took
    <2>4. ~HasEntry(g[m], msgs[m].text)
      BY <1>6, <2>1, <2>2, <2>3 DEF HasEntry
    <2> QED BY <1>6, <2>4
  <1>8. PICK k \in Messages : msgs[k].by = g[m] /\ msgs[k].text = msgs[m].text
    BY <1>6 DEF Sent
  <1> QED BY <1>6, <1>7, <1>8 DEF Covered, BySend

-----------------------------------------------------------------------------
(* What is known of a send's messages while no script is killed with its   *)
(* message handed over: each is one, and it has an entry.                  *)
OneMessage ==
  \A k, l \in Messages : msgs[k].by \in Sends /\ msgs[k] = msgs[l] => k = l
Whole(s) == HasEntry(s, TextOf[s]) /\ (s \in file => HasEntry(s, Attachment))
Traced(k) ==
  LET s == msgs[k].by IN
  s \in Sends =>
    /\ send[s] \notin Script
    /\ \/ msgs[k].text = TextOf[s]
       \/ msgs[k].text = Attachment /\ s \in file
    /\ send[s] \in {"confirm", "done"} => s \in lapsed \/ HasEntry(s, msgs[k].text)
Carried == \A s \in Sends : send[s] = "file" \/ s \in file => s \in WithFile
Traces == OneMessage /\ (\A k \in Messages : Traced(k)) /\ Carried

(* A step that adds no message: entries go only from a send that lapses,   *)
(* and a send that comes to be confirmed has all of its own.               *)
LEMMA TracesKept ==
  ASSUME TypeOK, Traces, msgs' = msgs, file' = file, lapsed \subseteq lapsed',
         \A s \in Sends :
           /\ send'[s] \in Script => send[s] \in Script
           /\ send'[s] = "file" => send[s] = "file" \/ s \in WithFile
           /\ send'[s] \in {"confirm", "done"} =>
                \/ send[s] \in {"confirm", "done"} \/ s \in lapsed' \/ Whole(s)',
         \A i \in DOMAIN entries :
           \/ entries[i].send \in lapsed'
           \/ \E j \in DOMAIN entries' : /\ entries'[j].send = entries[i].send
                                         /\ entries'[j].text = entries[i].text
  PROVE  Traces'
  <1>1. Messages' = Messages
    BY DEF Messages
  <1>2. OneMessage'
    BY <1>1 DEF Traces, OneMessage
  <1>3. Carried'
    BY DEF Traces, Carried
  <1>4. ASSUME NEW k \in Messages, msgs[k].by \in Sends
        PROVE  LET s == msgs[k].by IN
               /\ send'[s] \notin Script
               /\ \/ msgs[k].text = TextOf[s]
                  \/ msgs[k].text = Attachment /\ s \in file'
               /\ send'[s] \in {"confirm", "done"} =>
                    s \in lapsed' \/ HasEntry(s, msgs[k].text)'
    <2> DEFINE s == msgs[k].by
               t == msgs[k].text
    <2>1. /\ s \in Sends /\ send[s] \notin Script
          /\ t = TextOf[s] \/ (t = Attachment /\ s \in file)
          /\ send[s] \in {"confirm", "done"} => s \in lapsed \/ HasEntry(s, t)
      BY <1>4 DEF Traces, Traced
    <2>2. PICK r : r = s
      OBVIOUS
    <2>3. PICK x : x = t
      OBVIOUS
    <2>4. HasEntry(r, x) => r \in lapsed' \/ HasEntry(r, x)'
      BY DEF HasEntry
    <2>5. Whole(r)' => HasEntry(r, x)'
      BY <2>1, <2>2, <2>3 DEF Whole
    <2>6. send'[r] \in {"confirm", "done"} => r \in lapsed' \/ HasEntry(r, x)'
      BY <2>1, <2>2, <2>3, <2>4, <2>5
    <2>8. s = r /\ t = x
      BY <2>2, <2>3
    <2> HIDE DEF s, t
    <2>9. /\ send'[r] \notin Script
          /\ x = TextOf[r] \/ (x = Attachment /\ r \in file')
      BY <2>1, <2>8
    <2> QED BY <2>6, <2>8, <2>9 DEF s, t
  <1>5. ASSUME NEW k \in Messages
        PROVE  Traced(k)'
    BY <1>4 DEF Traced
  <1> QED BY <1>1, <1>2, <1>3, <1>5 DEF Traces

(* A step that adds a message: one of the user's or the other party's, or  *)
(* the first of its text of a send that has no entries yet.                *)
LEMMA TracesAppend ==
  ASSUME TypeOK, Traces, Carried', NEW b, NEW t, Message(b, t) \in Msg,
         msgs' = Append(msgs, Message(b, t)), entries' = entries, lapsed' = lapsed,
         file \subseteq file',
         \A s \in Sends : s # b => send'[s] = send[s],
         b \in Sends =>
           /\ send'[b] \in {"file", "sent"}
           /\ t = TextOf[b] \/ (t = Attachment /\ b \in file')
           /\ \A i \in DOMAIN entries : entries[i].send # b
           /\ \A k \in Messages : msgs[k].by = b => msgs[k].text # t
  PROVE  Traces'
  <1> DEFINE new == Len(msgs) + 1
  <1>1. /\ Grows /\ Messages' = Messages \cup {new} /\ msgs'[new] = Message(b, t)
        /\ msgs \in Seq(Msg)
    BY TypeParts, AppendGrows DEF Types1
  <1>2. msgs'[new].by = b /\ msgs'[new].text = t
    BY <1>1 DEF Message
  <1>3. \A k \in Messages : msgs'[k] = msgs[k] /\ k \in Messages'
    BY <1>1 DEF Grows
  <1> HIDE DEF new
  <1>4. ASSUME NEW k \in Messages', NEW l \in Messages', msgs'[k].by \in Sends,
               msgs'[k] = msgs'[l]
        PROVE  k = l
    <2>1. CASE k \in Messages /\ l \in Messages
      BY <1>3, <1>4, <2>1 DEF Traces, OneMessage
    <2>2. ASSUME NEW x \in Messages, msgs'[x] = msgs'[new], b \in Sends
          PROVE  FALSE
      BY <1>2, <1>3, <2>2
    <2>3. CASE k = new /\ l = new
      BY <2>3
    <2>4. CASE k = new /\ l \in Messages
      BY <1>2, <1>4, <2>2, <2>4
    <2>5. CASE l = new /\ k \in Messages
      BY <1>2, <1>4, <2>2, <2>5
    <2> QED BY <1>1, <2>1, <2>3, <2>4, <2>5
  <1>5. OneMessage'
    BY <1>4 DEF OneMessage
  <1>6. ASSUME NEW k \in Messages', NEW s \in Sends, msgs'[k].by = s
        PROVE  /\ send'[s] \notin Script
               /\ \/ msgs'[k].text = TextOf[s]
                  \/ msgs'[k].text = Attachment /\ s \in file'
               /\ send'[s] \in {"confirm", "done"} =>
                    s \in lapsed' \/ HasEntry(s, msgs[k].text)'
    <2>1. CASE k \in Messages
      <3>1. msgs'[k] = msgs[k]
        BY <1>3, <2>1
      <3>2. /\ send[s] \notin Script
            /\ msgs[k].text = TextOf[s] \/ (msgs[k].text = Attachment /\ s \in file)
            /\ send[s] \in {"confirm", "done"} => s \in lapsed \/ HasEntry(s, msgs[k].text)
        BY <1>6, <2>1, <3>1 DEF Traces, Traced
      <3>3. s = b => send'[s] \notin Script /\ send'[s] \notin {"confirm", "done"}
        BY DEF Script
      <3>4. HasEntry(s, msgs[k].text) => HasEntry(s, msgs[k].text)'
        BY <3>1 DEF HasEntry
      <3> QED BY <3>1, <3>2, <3>3, <3>4
    <2>2. CASE k = new
      <3>1. s = b /\ msgs'[k].text = t
        BY <1>2, <1>6, <2>2
      <3>2. send'[s] \notin Script /\ send'[s] \notin {"confirm", "done"}
        BY <3>1 DEF Script
      <3> QED BY <3>1, <3>2
    <2> QED BY <1>1, <2>1, <2>2
  <1>7. ASSUME NEW k \in Messages'
        PROVE  Traced(k)'
    BY <1>6 DEF Traced
  <1> QED BY <1>5, <1>7 DEF Traces

LEMMA TracesStep ==
  ASSUME EchoAssumption, "lost" \notin Outcomes, TypeOK, Listed, Traces, [Next]_vars
  PROVE  Traces'
  <1>t. send \in [Sends -> Script \cup {"file", "sent", "confirm", "done", "failed"}]
        /\ entries \in Seq(Entries)
    BY TypeParts DEF Types1, Types2
  <1>o. \A o \in Outcomes : o = "sent" \/ o = "refused"
    BY DEF EchoAssumption
  <1>c. ASSUME NEW s \in Sends, send[s] \notin {"confirm", "done"}
        PROVE  \A i \in DOMAIN entries : entries[i].send # s
    BY <1>c DEF Listed, Echo
  (* A step that leaves the registry and the conversation. *)
  <1>1. ASSUME msgs' = msgs, file' = file, lapsed \subseteq lapsed', entries' = entries,
               \A s \in Sends :
                 /\ send'[s] \in Script => send[s] \in Script
                 /\ send'[s] = "file" => send[s] = "file" \/ s \in WithFile
                 /\ send'[s] \in {"confirm", "done"} =>
                      send[s] \in {"confirm", "done"} \/ s \in lapsed'
        PROVE  Traces'
    <2>1. \A i \in DOMAIN entries :
            \E j \in DOMAIN entries' : /\ entries'[j].send = entries[i].send
                                       /\ entries'[j].text = entries[i].text
      BY <1>1
    <2> QED BY <1>1, <2>1, TracesKept
  (* A step that pins entries. *)
  <1>2. ASSUME msgs' = msgs, file' = file, lapsed' = lapsed,
               DOMAIN entries' = DOMAIN entries,
               \A i \in DOMAIN entries : Kin(entries'[i], entries[i]),
               \A s \in Sends :
                 /\ send'[s] \in Script => send[s] \in Script
                 /\ send'[s] = "file" => send[s] = "file"
                 /\ send'[s] \in {"confirm", "done"} => send[s] \in {"confirm", "done"}
        PROVE  Traces'
    <2>1. \A i \in DOMAIN entries :
            \E j \in DOMAIN entries' : /\ entries'[j].send = entries[i].send
                                       /\ entries'[j].text = entries[i].text
      BY <1>2 DEF Kin
    <2> QED BY <1>2, <2>1, TracesKept
  <1>3. ASSUME NEW s \in Sends, NEW o \in Outcomes, RunScript(s, o)
        PROVE  Traces'
    <2>1. /\ send[s] \in Script /\ file' = file /\ lapsed' = lapsed /\ entries' = entries
          /\ \A r \in Sends : r # s => send'[r] = send[r]
          /\ send'[s] = IF o = "sent" THEN Accepted(s) ELSE NextTry(send[s])
      BY <1>3, <1>t DEF RunScript, registry
    <2>2. CASE o = "refused"
      <3>1. send'[s] \notin {"file", "confirm", "done"}
        BY <2>1, <2>2 DEF Script, NextTry
      <3>2. msgs' = msgs
        BY <1>3, <2>2 DEF RunScript
      <3> QED BY <1>1, <2>1, <3>1, <3>2
    <2>3. CASE o = "sent"
      <3>1. msgs' = Append(msgs, Message(s, TextOf[s]))
        BY <1>3, <2>3 DEF RunScript
      <3>2. send'[s] \in {"file", "sent"} /\ (send'[s] = "file" => s \in WithFile)
        BY <2>1, <2>3 DEF Accepted
      <3>3. \A i \in DOMAIN entries : entries[i].send # s
        BY <1>c, <2>1 DEF Script
      <3>4. \A k \in Messages : msgs[k].by = s => msgs[k].text # TextOf[s]
        BY <2>1 DEF Traces, Traced
      <3>5. Carried'
        BY <2>1, <3>2 DEF Traces, Carried
      <3> QED BY <2>1, <3>1, <3>2, <3>3, <3>4, <3>5, MsgType, TracesAppend
    <2> QED BY <1>o, <2>2, <2>3
  <1>4. ASSUME NEW s \in Sends, NEW o \in Outcomes, SendAttachment(s, o)
        PROVE  Traces'
    <2>1. /\ send[s] = "file" /\ lapsed' = lapsed /\ entries' = entries
          /\ \A r \in Sends : r # s => send'[r] = send[r]
          /\ send'[s] = "sent" /\ s \in WithFile /\ s \notin file
      <3>1. s \in WithFile /\ s \notin file
        BY <1>4 DEF SendAttachment, Traces, Carried, Listed, Stage
      <3> QED BY <1>4, <1>t, <3>1 DEF SendAttachment, registry
    <2>2. CASE o = "refused"
      <3>1. msgs' = msgs /\ file' = file
        BY <1>4, <2>2 DEF SendAttachment
      <3>2. send'[s] \notin Script
        BY <2>1 DEF Script
      <3> QED BY <1>1, <2>1, <3>1, <3>2
    <2>3. CASE o = "sent"
      <3>1. msgs' = Append(msgs, Message(s, Attachment)) /\ file' = file \cup {s}
        BY <1>4, <2>3 DEF SendAttachment
      <3>2. \A i \in DOMAIN entries : entries[i].send # s
        BY <1>c, <2>1
      <3>3. \A k \in Messages : msgs[k].by = s => msgs[k].text # Attachment
        BY <2>1 DEF Traces, Traced, EchoAssumption
      <3>4. Carried'
        BY <2>1, <3>1 DEF Traces, Carried
      <3> QED BY <2>1, <3>1, <3>2, <3>3, <3>4, MsgType, TracesAppend
    <2> QED BY <1>o, <2>2, <2>3
  <1>5. ASSUME NEW b, NEW t, Write(b, t), b \notin Sends, Message(b, t) \in Msg
        PROVE  Traces'
    <2>1. /\ msgs' = Append(msgs, Message(b, t)) /\ entries' = entries /\ lapsed' = lapsed
          /\ file' = file /\ send' = send
      BY <1>5 DEF Write, app, registry
    <2>2. Carried'
      BY <2>1 DEF Traces, Carried
    <2> QED BY <1>5, <2>1, <2>2, TracesAppend
  <1>6. CASE \/ \E text \in Others : Write("user", text)
             \/ Write("them", "reply")
    BY <1>5, <1>6, MsgType DEF EchoAssumption
  <1>7. ASSUME NEW s \in Sends, NoChat(s) \/ Unconfirmed(s)
        PROVE  Traces'
    <2>1. /\ msgs' = msgs /\ file' = file /\ lapsed \subseteq lapsed'
          /\ entries' = entries
          /\ send' = [send EXCEPT ![s] = "done"] /\ (send[s] = "confirm" \/ s \in lapsed')
      BY <1>7 DEF NoChat, Unconfirmed, registry
    <2>2. \A r \in Sends : send'[r] = send[r] \/ (r = s /\ send'[r] = "done")
      BY <1>t, <2>1
    <2> QED BY <1>1, <2>1, <2>2 DEF Script
  <1>8. ASSUME NEW s \in Sends, Confirm(s)
        PROVE  Traces'
    <2>1. /\ send[s] = "confirm" /\ send' = [send EXCEPT ![s] = "done"]
          /\ DOMAIN entries' = DOMAIN entries
          /\ \A i \in DOMAIN entries : Kin(entries'[i], entries[i])
      BY <1>8, ConfirmIs
    <2>2. msgs' = msgs /\ file' = file /\ lapsed' = lapsed
      BY <1>8 DEF Confirm
    <2>3. \A r \in Sends : send'[r] = send[r] \/ (r = s /\ send'[r] = "done")
      BY <1>t, <2>1
    <2> QED BY <1>2, <2>1, <2>2, <2>3 DEF Script
  <1>9. ASSUME NEW w \in Waits, ReadReplies(w)
        PROVE  Traces'
    <2>1. /\ msgs' = msgs /\ file' = file /\ lapsed' = lapsed /\ send' = send
          /\ DOMAIN entries' = DOMAIN entries
          /\ \A i \in DOMAIN entries : Kin(entries'[i], entries[i])
      BY <1>9, ReadIs DEF Took
    <2> QED BY <1>2, <2>1
  <1>10. CASE \/ \E m \in Messages : Land(m)
              \/ \E w \in Waits : Wake(w) \/ GiveUp(w)
              \/ \E w \in Waits, after \in Cursors, b \in BOOLEAN : WaitForReply(w, after, b)
              \/ UNCHANGED vars
    BY <1>1, <1>10 DEF Land, Wake, GiveUp, WaitForReply, vars, app, registry
  <1>11. CASE Prune
    <2>1. Cutoff(entries, entries', {Head(entries).send})
      BY <1>t, <1>11, TailIs DEF Prune
    <2>2. /\ send' = send /\ msgs' = msgs /\ file' = file
          /\ lapsed' = lapsed \cup {Head(entries).send}
      BY <1>11 DEF Prune, app
    <2>3. /\ \A j \in DOMAIN entries' : \E i \in DOMAIN entries : entries'[j] = entries[i]
          /\ \A i \in DOMAIN entries :
               \/ entries[i].send \in {Head(entries).send}
               \/ \E j \in DOMAIN entries' : entries'[j] = entries[i]
      BY <2>1, CutHas
    <2>4. \A i \in DOMAIN entries :
            \/ entries[i].send \in lapsed'
            \/ \E j \in DOMAIN entries' : /\ entries'[j].send = entries[i].send
                                          /\ entries'[j].text = entries[i].text
      BY <2>2, <2>3
    <2> QED BY <2>2, <2>4, TracesKept
  <1>12. ASSUME NEW s \in Sends, NEW since \in 1..(Len(msgs) + 1), Register(s, since)
         PROVE  Traces'
    <2>1. PICK A \in Seq(Entries), gone \in SUBSET Sends :
             /\ entries' \in Seq(Entries)
             /\ Sole(A) /\ Cutoff(A, entries', gone) /\ lapsed' = lapsed \cup gone
             /\ \A r \in gone : send[r] # "confirm"
             /\ \A i \in DOMAIN entries : \E j \in DOMAIN A : A[j] = entries[i]
             /\ \A i \in DOMAIN A :
                  \/ i \in DOMAIN entries /\ A[i] = entries[i]
                  \/ A[i] = Entry(s, TextOf[s], since)
                  \/ s \in file /\ A[i] = Entry(s, Attachment, since)
             /\ HasEntry(s, TextOf[s])'
             /\ s \in file => HasEntry(s, Attachment)'
      BY <1>12, RegisterIs
    <2>2. /\ send[s] = "sent" /\ send' = [send EXCEPT ![s] = "confirm"]
          /\ msgs' = msgs /\ file' = file
      BY <1>12 DEF Register
    <2>3. /\ \A j \in DOMAIN entries' : \E i \in DOMAIN A : entries'[j] = A[i]
          /\ \A i \in DOMAIN A :
               A[i].send \in gone \/ \E j \in DOMAIN entries' : entries'[j] = A[i]
      BY <2>1, CutHas
    <2>4. ASSUME NEW i \in DOMAIN entries
          PROVE  \/ entries[i].send \in lapsed'
                 \/ \E j \in DOMAIN entries' : /\ entries'[j].send = entries[i].send
                                               /\ entries'[j].text = entries[i].text
      <3>1. PICK k \in DOMAIN A : A[k] = entries[i]
        BY <2>1
      <3>2. A[k].send \in gone \/ \E j \in DOMAIN entries' : entries'[j] = A[k]
        BY <2>3
      <3>3. CASE A[k].send \in gone
        BY <2>1, <3>1, <3>3
      <3>4. ASSUME NEW j \in DOMAIN entries', entries'[j] = A[k]
            PROVE  /\ entries'[j].send = entries[i].send
                   /\ entries'[j].text = entries[i].text
        BY <3>1, <3>4
      <3> QED BY <3>2, <3>3, <3>4
    <2>6. ASSUME NEW r \in Sends
          PROVE  /\ send'[r] \in Script => send[r] \in Script
                 /\ send'[r] = "file" => send[r] = "file" \/ r \in WithFile
                 /\ send'[r] \in {"confirm", "done"} =>
                      \/ send[r] \in {"confirm", "done"} \/ r \in lapsed' \/ Whole(r)'
      <3>1. CASE r # s
        BY <1>t, <2>2, <3>1
      <3>2. CASE r = s
        <4>1. send'[r] = "confirm"
          BY <1>t, <2>2, <3>2
        <4>2. Whole(s)'
          BY <2>1, <2>2 DEF Whole
        <4> QED BY <3>2, <4>1, <4>2 DEF Script
      <3> QED BY <3>1, <3>2
    <2>7. lapsed \subseteq lapsed'
      BY <2>1
    <2> QED BY <2>2, <2>4, <2>6, <2>7, TracesKept
  <1> QED BY <1>3, <1>4, <1>6, <1>7, <1>8, <1>9, <1>10, <1>11, <1>12 DEF Next

-----------------------------------------------------------------------------
(* Sends are told apart by what they say: no two of one text, and one file *)
(* at most.                                                                *)
Apart ==
  /\ \A s, t \in Sends : s # t => TextOf[s] # TextOf[t]
  /\ \A s, t \in WithFile : s = t

(* Then a text is that of one message of a send.                           *)
LEMMA OneSend ==
  ASSUME EchoAssumption, Apart, TypeOK, Traces,
         NEW k \in Messages, NEW l \in Messages,
         msgs[k].by \in Sends, msgs[l].by \in Sends, msgs[k].text = msgs[l].text
  PROVE  k = l
  <1> DEFINE s == msgs[k].by
             t == msgs[l].by
  <1>1. /\ msgs[k].text = TextOf[s] \/ (msgs[k].text = Attachment /\ s \in file)
        /\ msgs[l].text = TextOf[t] \/ (msgs[l].text = Attachment /\ t \in file)
    BY DEF Traces, Traced
  <1>2. s \in file => s \in WithFile
    BY DEF Traces, Carried
  <1>3. t \in file => t \in WithFile
    BY DEF Traces, Carried
  <1>4. TextOf[s] # Attachment /\ TextOf[t] # Attachment
    BY DEF EchoAssumption
  <1>5. s = t
    BY <1>1, <1>2, <1>3, <1>4 DEF Apart
  <1>6. msgs[k] = msgs[l]
    <2>1. msgs[k] \in Msg /\ msgs[l] \in Msg
      BY TypeParts DEF Types1, Messages
    <2> QED BY <1>5, <2>1 DEF Msg
  <1> QED BY <1>6 DEF Traces, OneMessage

LEMMA NoPhantomIs ==
  ASSUME EchoAssumption, Apart, TypeOK, Listed, Listed', Traces, [Next]_vars,
         NEW w \in Waits, told'[w] # told[w], NEW text \in Texts,
         Covered(text), InTime(text)
  PROVE  Cardinality({m \in told'[w] : FromMe(m) /\ msgs[m].text = text})
           <= Cardinality(ByUser(text))
  <1> DEFINE mine == {m \in After(w) : FromMe(m)}
             echoes == {m \in mine : \E i \in DOMAIN entries' : entries'[i].pin = m}
             V == {m \in told'[w] : FromMe(m) /\ msgs[m].text = text}
             U == ByUser(text)
  <1>1. /\ ReadReplies(w) /\ Took(entries, entries', Len(msgs), mine)
        /\ told'[w] = After(w) \ echoes /\ After(w) \in SUBSET Messages
    BY ToldIs
  <1>2. /\ Messages = 1..Len(msgs) /\ Len(msgs) \in Nat
        /\ \A m \in Messages : msgs[m] \in Msg
    BY TypeParts, MessageNumbers DEF Types1
  <1>3. IsFiniteSet(U)
    <2>1. IsFiniteSet(Messages)
      BY <1>2, FS_Interval
    <2> QED BY <2>1, FS_Subset DEF ByUser
  <1>4. /\ V \subseteq Messages
        /\ \A m \in V : /\ m \in mine /\ msgs[m].text = text
                        /\ m \in U \/ msgs[m].by \in Sends
                        /\ \A i \in DOMAIN entries' : entries'[i].pin # m
    BY <1>1, <1>2 DEF ByUser, FromMe, Msg
  <1>5. CASE \A m \in V : msgs[m].by \notin Sends
    <2>1. V \subseteq U
      BY <1>4, <1>5
    <2> QED BY <1>3, <2>1, FS_Subset
  <1>6. ASSUME NEW k \in V, msgs[k].by \in Sends
        PROVE  Cardinality(V) <= Cardinality(U)
    <2> DEFINE s == msgs[k].by
    <2>1. k \in Messages /\ msgs[k].text = text /\ k \in mine
      <3> HIDE DEF V, mine
      <3> QED BY <1>4, <1>6
    <2>2. send[s] \in {"confirm", "done"} /\ s \notin lapsed
      BY <1>6, <2>1 DEF Covered, BySend
    <2>3. /\ HasEntry(s, text)
          /\ \A i \in DOMAIN entries : entries[i].send = s => entries[i].since <= k
      BY <1>6, <2>1, <2>2 DEF Traces, Traced, InTime, BySend
    <2>4. PICK i \in DOMAIN entries : entries[i].send = s /\ entries[i].text = text
      BY <2>3 DEF HasEntry
    <2>5. /\ DOMAIN entries' = DOMAIN entries /\ Kin(entries'[i], entries[i])
          /\ k <= Len(msgs)
          /\ entries[i] \in Entries /\ entries'[i] \in Entries
      BY <1>1, <1>2, <2>1, EntriesType DEF Took
    <2>6. ~Wants(entries'[i], k)
      <3>1. \/ \E j \in DOMAIN entries : entries'[j].pin = k
            \/ \A j \in DOMAIN entries : ~Wants(entries'[j], k)
        BY <1>1, <2>1, <2>5 DEF Took
      <3> QED BY <1>4, <2>5, <3>1
    <2> DEFINE p == entries'[i].pin
    <2>7. p # 0
      <3>1. entries'[i].since <= k /\ k >= entries'[i].since
        BY <1>2, <2>1, <2>3, <2>4, <2>5 DEF Kin, Entries
      <3> QED BY <2>1, <2>4, <2>5, <2>6, <3>1 DEF Wants, Kin
    <2>8. /\ p \in Messages /\ FromMe(p) /\ msgs[p].text = text
      <3>1. Echo(entries[i])'
        BY <2>5 DEF Listed
      <3>2. msgs' = msgs
        BY <1>1 DEF ReadReplies
      <3>3. msgs[p].text = entries'[i].text /\ FromMe(p)
        BY <2>7, <3>1, <3>2 DEF Echo, Pinned, FromMe
      <3> QED BY <2>4, <2>5, <2>7, <3>3 DEF Kin, Entries
    <2>9. p # k /\ p \notin V
      BY <1>4, <2>5
    <2>10. p \in U
      <3>1. msgs[p].by \notin Sends
        BY <1>6, <2>1, <2>8, <2>9, OneSend
      <3> QED BY <1>2, <2>8, <3>1 DEF FromMe, Msg, ByUser
    <2>11. \A m \in V : m # k => m \in U
      BY <1>4, <1>6, <2>1, OneSend
    <2> DEFINE f == [m \in V |-> IF m = k THEN p ELSE m]
    <2> HIDE DEF V, U, p
    <2>12. f \in [V -> U] /\ \A a, b \in V : f[a] = f[b] => a = b
      BY <2>9, <2>10, <2>11
    <2> HIDE DEF f
    <2>13. f \in Injection(V, U)
      BY <2>12 DEF Injection, IsInjective
    <2> QED BY <1>3, <2>13, FS_Injection
  <1> QED BY <1>5, <1>6

-----------------------------------------------------------------------------
(* Of a text no more rows are taken for echoes than were sent: while the   *)
(* agent calls one tool at a time, whatever the scripts come to, each row  *)
(* a wait silences has a send of its own to account for it.                *)
THEOREM NothingIsSwallowed ==
  ASSUME EchoAssumption, ~Overlap
  PROVE  Spec => []NoSwallow
  BY EchoInvHolds, NoSwallowIs, PTL

(* No row is an echo to one wait and an answer to another while the sends  *)
(* of its text have their entries, as the comment of the registry has it.  *)
THEOREM WaitsAgree ==
  ASSUME EchoAssumption, ~Overlap
  PROVE  Spec => Consistent
  <1>1. EchoInv /\ [Next]_vars =>
          [\A v, w \in Waits : told'[w] # told[w] =>
             \A m \in told'[w] \cap silenced[v] : ~Covered(msgs[m].text)]_vars
    BY ConsistentIs
  <1> QED BY <1>1, EchoInvHolds, PTL DEF Spec, Consistent

(* Whatever the agent sends while it waits, its own messages do not come   *)
(* back as the user's while they have their entries and are not older than *)
(* these tolerate: when no script is killed with its message handed over   *)
(* and no two sends say the same. The text of a send whose attachment's    *)
(* script outlasts the tolerance is older, and comes back.                 *)
THEOREM NoPhantoms ==
  ASSUME EchoAssumption, Apart, "lost" \notin Outcomes
  PROVE  Spec => NoPhantom
  <1> DEFINE Inv == TypeOK /\ Listed /\ Traces
             Step == \A w \in Waits : told'[w] # told[w] => \A text \in Texts :
                       Covered(text) /\ InTime(text) =>
                         Cardinality({m \in told'[w] : FromMe(m) /\ msgs[m].text = text})
                           <= Cardinality(ByUser(text))
  <1>1. Init => Inv
    <2>1. Init => Traces
      <3>1. Init => /\ Messages = {} /\ file = {} /\ \A s \in Sends : send[s] = "idle"
        BY DEF Init, Messages
      <3> QED BY <3>1 DEF Traces, OneMessage, Carried
    <2> QED BY <2>1, TypeInit, ListedInit
  <1>2. Inv /\ [Next]_vars => Inv'
    BY TypeStep, ListedStep, TracesStep
  <1>3. Inv /\ [Next]_vars => [Step]_vars
    <2> SUFFICES ASSUME TypeOK, Listed, Traces, [Next]_vars
                 PROVE  Step
      OBVIOUS
    <2>1. Listed'
      BY ListedStep
    <2> QED BY <2>1, NoPhantomIs
  <1> QED BY <1>1, <1>2, <1>3, PTL DEF Spec, NoPhantom
=============================================================================
