---------------------------- MODULE RelayProofs ----------------------------
(***************************************************************************)
(* Proofs about RelaySession for any number of sockets, turns, tokens and  *)
(* inputs, both modes, with and without a fallback model.                  *)
(***************************************************************************)
EXTENDS RelaySession, FiniteSetTheorems, SequenceTheorems, TLAPS

-----------------------------------------------------------------------------
(* The type invariant by parts.                                            *)
ServiceTypes ==
  /\ mode \in Modes /\ over \in BOOLEAN /\ ending \in Nat
  /\ registered \in Sockets \cup {NoSocket}
  /\ timings \in [0..MaxTurns -> SUBSET Columns]
  /\ timed \in [Sockets -> [Turns -> Nat]]
  /\ inputs \in Nat
TurnTypes ==
  /\ sock \in [Sockets -> {"none", "open", "closing", "closed"}]
  /\ turn \in [Sockets -> 0..MaxTurns]
  /\ current \in [Sockets -> 0..MaxTurns]
  /\ aborted \in [Sockets -> SUBSET Turns]
  /\ pending \in [Sockets -> 0..MaxTurns]
StreamTypes ==
  /\ stream \in [Sockets -> [Turns -> StreamStates]]
  /\ got \in [Sockets -> [Turns -> Nat]]
  /\ partial \in [Sockets -> Nat]
LogTypes ==
  /\ history \in [Sockets -> Seq(Lines)]
  /\ wire \in [Sockets -> Seq(Frames)]
  /\ blamed \subseteq Turns

LEMMA TypeParts ==
  /\ TypeOK <=> ServiceTypes /\ TurnTypes /\ StreamTypes /\ LogTypes
  /\ TypeOK' <=> ServiceTypes' /\ TurnTypes' /\ StreamTypes' /\ LogTypes'
  <1>1. TypeOK <=> ServiceTypes /\ TurnTypes /\ StreamTypes /\ LogTypes
    BY Zenon DEF TypeOK, ServiceTypes, TurnTypes, StreamTypes, LogTypes
  <1>2. TypeOK' <=> ServiceTypes' /\ TurnTypes' /\ StreamTypes' /\ LogTypes'
    BY Zenon DEF TypeOK, ServiceTypes, TurnTypes, StreamTypes, LogTypes
  <1> QED BY <1>1, <1>2

LEMMA SetTurn ==
  ASSUME NEW S, NEW f \in [Sockets -> [Turns -> S]], NEW s \in Sockets,
         NEW t \in Turns, NEW x \in S
  PROVE  [f EXCEPT ![s][t] = x] \in [Sockets -> [Turns -> S]]
  OBVIOUS

LEMMA SetStream ==
  ASSUME TypeOK, NEW s \in Sockets, NEW t \in Turns, NEW x \in StreamStates,
         stream' = [stream EXCEPT ![s][t] = x]
  PROVE  stream' \in [Sockets -> [Turns -> StreamStates]]
  BY DEF TypeOK

(* There is room for one more turn on every socket.                        *)
LEMMA RoomForTurn ==
  ASSUME RelayAssumption, TypeOK, NEW s \in Sockets, Prompts < MaxTurns
  PROVE  turn[s] + 1 \in Turns
  <1> DEFINE n == turn[s]
             Had == {st \in Sockets \X Turns : st[2] <= turn[st[1]]}
             f == [i \in 1..n |-> <<s, i>>]
  <1>1. n \in 0..MaxTurns /\ n \in Nat /\ MaxTurns \in Nat
    BY DEF TypeOK, RelayAssumption
  <1>2. IsFiniteSet(Had)
    <2>1. IsFiniteSet(Turns)
      BY <1>1, FS_Interval DEF Turns
    <2>2. IsFiniteSet(Sockets \X Turns)
      BY <2>1, FS_Product DEF RelayAssumption
    <2> QED BY <2>2, FS_Subset
  <1>3. f \in Injection(1..n, Had)
    <2>1. ASSUME NEW i \in 1..n
          PROVE  <<s, i>> \in Had
      BY <1>1 DEF Turns
    <2>2. f \in [1..n -> Had]
      BY <2>1
    <2>3. \A i, j \in 1..n : f[i] = f[j] => i = j
      OBVIOUS
    <2> QED BY <2>2, <2>3 DEF Injection, IsInjective
  <1>4. Cardinality(1..n) = n
    <2> HIDE DEF n
    <2>1. n \in Nat /\ n \in Int /\ 1 \in Int /\ (1 > n => n = 0) /\ n - 1 + 1 = n
      BY <1>1
    <2>2. Cardinality(1..n) = IF 1 > n THEN 0 ELSE n - 1 + 1
      BY <2>1, FS_Interval
    <2> QED BY <2>1, <2>2
  <1>5. Cardinality(1..n) <= Cardinality(Had)
    BY <1>2, <1>3, FS_Injection
  <1>6. Prompts = Cardinality(Had)
    BY DEF Prompts
  <1>7. Cardinality(Had) \in Nat
    BY <1>2, FS_CardinalityType
  <1> HIDE DEF n, Had
  <1>8. n < MaxTurns
    BY <1>1, <1>4, <1>5, <1>6, <1>7
  <1>9. n + 1 \in Turns
    BY <1>1, <1>8 DEF Turns
  <1> QED BY <1>9 DEF n

LEMMA AbortType ==
  ASSUME TypeOK, NEW s \in Sockets
  PROVE  Abort(s) \in SUBSET Turns /\ aborted[s] \subseteq Abort(s)
  <1>1. current[s] \in 0..MaxTurns /\ aborted[s] \in SUBSET Turns
    BY DEF TypeOK
  <1> QED BY <1>1 DEF Abort, Turns

LEMMA SendType ==
  ASSUME TypeOK, NEW s \in Sockets, NEW frames \in Seq(Frames)
  PROVE  Send(s, frames) \in Seq(Frames)
  BY DEF Send, TypeOK

LEMMA FrameType ==
  ASSUME NEW t \in 0..MaxTurns,
         NEW kind \in {"prompt", "token", "last", "verbatim", "interrupt", "end"}
  PROVE  Frame(kind, t) \in Frames
  BY DEF Frame, Frames

LEMMA StampType ==
  ASSUME TypeOK, NEW t \in 0..MaxTurns, NEW cs \in SUBSET Columns
  PROVE  Stamped(t, cs) \in [0..MaxTurns -> SUBSET Columns]
  BY DEF Stamped, TypeOK

LEMMA TimedType ==
  ASSUME TypeOK, NEW s \in Sockets, NEW t \in Turns, NEW row, EmitTiming(s, t, row)
  PROVE  timed' \in [Sockets -> [Turns -> Nat]]
  BY DEF TypeOK, EmitTiming

LEMMA FinishType ==
  ASSUME RelayAssumption, TypeOK, NEW s \in Sockets, NEW t \in Turns,
         Finish(s, t)
  PROVE  /\ stream' \in [Sockets -> [Turns -> StreamStates]]
         /\ current' \in [Sockets -> 0..MaxTurns]
  <1>1. "over" \in StreamStates
    BY DEF StreamStates
  <1>2. stream' \in [Sockets -> [Turns -> StreamStates]]
    BY <1>1 DEF TypeOK, Finish
  <1>3. 0 \in 0..MaxTurns
    BY DEF RelayAssumption
  <1>4. current' \in [Sockets -> 0..MaxTurns]
    BY <1>3 DEF TypeOK, Finish
  <1> QED BY <1>2, <1>4

LEMMA EndType ==
  ASSUME TypeOK, NEW s \in Sockets, NEW before \in Seq(Frames),
         EndSession(s, before)
  PROVE  /\ sock' \in [Sockets -> {"none", "open", "closing", "closed"}]
         /\ aborted' \in [Sockets -> SUBSET Turns]
         /\ wire' \in [Sockets -> Seq(Frames)]
  <1> DEFINE sent == [wire EXCEPT ![s] = Send(s, before)]
  <1>1. sent \in [Sockets -> Seq(Frames)]
    BY SendType DEF TypeOK
  <1>2. CASE registered = NoSocket
    BY <1>1, <1>2 DEF EndSession, TypeOK
  <1>3. CASE registered # NoSocket
    <2> DEFINE r == registered
    <2>1. r \in Sockets
      BY <1>3 DEF TypeOK
    <2>2. Abort(r) \in SUBSET Turns
      BY <2>1, AbortType
    <2>3. Frame("end", turn[r]) \in Frames
      BY <2>1, FrameType DEF TypeOK
    <2>4. [sent EXCEPT ![r] = Append(@, Frame("end", turn[r]))] \in [Sockets -> Seq(Frames)]
      BY <1>1, <2>1, <2>3
    <2>5. wire' \in [Sockets -> Seq(Frames)]
      BY <1>1, <1>3, <2>4 DEF EndSession
    <2>6. sock' \in [Sockets -> {"none", "open", "closing", "closed"}]
      BY <1>3 DEF EndSession, TypeOK
    <2>7. aborted' \in [Sockets -> SUBSET Turns]
      BY <1>3, <2>2 DEF EndSession, TypeOK
    <2> QED BY <2>5, <2>6, <2>7
  <1> QED BY <1>2, <1>3

LEMMA TypeInit == RelayAssumption /\ Init => TypeOK
  <1> SUFFICES ASSUME RelayAssumption, Init
               PROVE  TypeOK
    OBVIOUS
  <1>1. MaxTurns \in Nat /\ 0 \in 0..MaxTurns
    BY DEF RelayAssumption
  <1>2. ServiceTypes
    BY DEF Init, ServiceTypes
  <1>3. TurnTypes
    BY <1>1 DEF Init, TurnTypes
  <1>4. StreamTypes
    BY DEF Init, StreamTypes, StreamStates
  <1>5. LogTypes
    BY DEF Init, LogTypes
  <1> QED BY <1>2, <1>3, <1>4, <1>5, TypeParts

(* The sockets' side of each action.                                       *)
LEMMA TurnTypeStep ==
  ASSUME RelayAssumption, TypeOK, [Next]_vars
  PROVE  TurnTypes'
  <1>t. TurnTypes
    BY TypeParts
  <1>0. 0 \in 0..MaxTurns
    BY DEF RelayAssumption
  <1>1. ASSUME NEW s \in Sockets, Attach(s) \/ SetupMismatch(s)
        PROVE  TurnTypes'
    <2>1. CASE Attach(s)
      BY <1>t, <2>1 DEF Attach, TurnTypes
    <2>2. CASE SetupMismatch(s)
      BY <1>t, <2>2 DEF SetupMismatch, TurnTypes
    <2> QED BY <1>1, <2>1, <2>2
  <1>2. ASSUME NEW s \in Sockets, SocketClosed(s) \/ SendText(s)
        PROVE  TurnTypes'
    <2>a. aborted' = [aborted EXCEPT ![s] = Abort(s)]
      BY <1>2 DEF SocketClosed, SendText
    <2>1. aborted' \in [Sockets -> SUBSET Turns]
      BY <1>t, <2>a, AbortType DEF TurnTypes
    <2>2. CASE SocketClosed(s)
      BY <1>t, <2>1, <2>2 DEF SocketClosed, TurnTypes
    <2>3. CASE SendText(s)
      <3>1. UNCHANGED <<sock, turn, current>>
        BY <2>3 DEF SendText
      <3>2. pending' = pending \/ pending' = [pending EXCEPT ![s] = 0]
        BY <2>3 DEF SendText
      <3> QED BY <1>t, <1>0, <2>1, <3>1, <3>2 DEF TurnTypes
    <2> QED BY <1>2, <2>2, <2>3
  <1>3. ASSUME NEW s \in Sockets, Prompt(s)
        PROVE  TurnTypes'
    <2> DEFINE t == turn[s] + 1
    <2>1. t \in 0..MaxTurns
      BY <1>3, RoomForTurn DEF Prompt, Turns
    <2>2. aborted' \in [Sockets -> SUBSET Turns]
      BY <1>t, <1>3, AbortType DEF Prompt, TurnTypes
    <2>3. /\ UNCHANGED sock
          /\ turn' = [turn EXCEPT ![s] = t]
          /\ current' = current \/ current' = [current EXCEPT ![s] = t]
          /\ \/ pending' = pending
             \/ pending' = [pending EXCEPT ![s] = IF @ = 0 THEN t ELSE @]
      BY <1>3 DEF Prompt, StartTurn
    <2> HIDE DEF t
    <2> QED BY <1>t, <2>1, <2>2, <2>3 DEF TurnTypes
  <1>4. ASSUME NEW s \in Sockets, NEW heard \in BOOLEAN, Interrupt(s, heard)
        PROVE  TurnTypes'
    <2>1. aborted' \in [Sockets -> SUBSET Turns]
      BY <1>t, <1>4, AbortType DEF Interrupt, TurnTypes
    <2> QED BY <1>t, <1>0, <1>4, <2>1 DEF Interrupt, TurnTypes
  <1>5. ASSUME NEW s \in Sockets, NEW t \in Turns,
               FinishStream(s, t) \/ DropStream(s, t) \/ CloseRecord(s, t)
        PROVE  TurnTypes'
    <2>1. current' \in [Sockets -> 0..MaxTurns]
      BY <1>5, FinishType DEF FinishStream, DropStream, CloseRecord
    <2>2. UNCHANGED <<sock, turn, aborted, pending>>
      BY <1>5 DEF FinishStream, DropStream, CloseRecord
    <2> QED BY <1>t, <2>1, <2>2 DEF TurnTypes
  <1>6. ASSUME NEW s \in Sockets, NEW t \in Turns,
               SpeakToken(s, t) \/ Fallback(s, t) \/ RefuseFallback(s, t)
        PROVE  TurnTypes'
    BY <1>t, <1>6 DEF SpeakToken, Fallback, RefuseFallback, TurnTypes
  <1>7. ASSUME NEW s \in Sockets, NEW t \in Turns, FailStream(s, t)
        PROVE  TurnTypes'
    <2>1. UNCHANGED <<turn, pending>>
      BY <1>7 DEF FailStream
    <2>2. CASE Finish(s, t) /\ UNCHANGED <<sock, aborted>>
      BY <1>t, <2>1, <2>2, FinishType DEF TurnTypes
    <2>3. CASE EndSession(s, <<Frame("end", t)>>) /\ UNCHANGED current
      <3>1. <<Frame("end", t)>> \in Seq(Frames)
        <4>1. t \in 0..MaxTurns
          BY DEF Turns
        <4>2. Frame("end", t) \in Frames
          BY <4>1, FrameType
        <4> QED BY <4>2
      <3> QED BY <1>t, <2>1, <2>3, <3>1, EndType DEF TurnTypes
    <2> QED BY <1>7, <2>2, <2>3 DEF FailStream
  <1>8. CASE EndCall \/ Shutdown
    <2>1. UNCHANGED <<turn, current, pending>>
      BY <1>8 DEF EndCall, Shutdown
    <2>2. UNCHANGED <<sock, aborted>> \/ (registered # NoSocket /\ EndSession(registered, <<>>))
      BY <1>8 DEF EndCall, Shutdown
    <2>3. registered # NoSocket => registered \in Sockets
      BY DEF TypeOK
    <2>4. <<>> \in Seq(Frames)
      OBVIOUS
    <2> QED BY <1>t, <2>1, <2>2, <2>3, <2>4, EndType DEF TurnTypes
  <1>9. CASE EndCallDone \/ CarrierEnds \/ UNCHANGED vars
    BY <1>t, <1>9 DEF EndCallDone, CarrierEnds, vars, session, TurnTypes
  <1>10. Talking \subseteq Sockets
    BY DEF RelayAssumption
  <1> QED BY <1>1, <1>2, <1>3, <1>4, <1>5, <1>6, <1>7, <1>8, <1>9, <1>10
          DEF Next, LlmStep

LEMMA StreamTypeStep ==
  ASSUME RelayAssumption, TypeOK, [Next]_vars
  PROVE  StreamTypes'
  <1>t. StreamTypes
    BY TypeParts
  <1>s. {"primary", "fallback", "refused", "ending"} \subseteq StreamStates
    BY DEF StreamStates
  <1>1. CASE UNCHANGED <<stream, got, partial>>
    BY <1>t, <1>1 DEF StreamTypes
  <1>2. ASSUME NEW s \in Sockets,
               Attach(s) \/ SetupMismatch(s) \/ SocketClosed(s) \/ SendText(s)
        PROVE  UNCHANGED <<stream, got, partial>>
    BY <1>2 DEF Attach, SetupMismatch, SocketClosed, SendText
  <1>3. ASSUME NEW s \in Sockets, Prompt(s)
        PROVE  StreamTypes'
    <2>1. turn[s] + 1 \in Turns
      BY <1>3, RoomForTurn DEF Prompt
    <2>2. /\ got' = got
          /\ \/ UNCHANGED <<stream, partial>>
             \/ /\ stream' = [stream EXCEPT ![s][turn[s] + 1] = "primary"]
                /\ partial' = [partial EXCEPT ![s] = 0]
      BY <1>3 DEF Prompt, StartTurn
    <2>3. stream' \in [Sockets -> [Turns -> StreamStates]]
      <3>1. CASE stream' = [stream EXCEPT ![s][turn[s] + 1] = "primary"]
        BY <1>s, <2>1, <3>1, SetStream
      <3>2. CASE stream' = stream
        BY <1>t, <3>2 DEF StreamTypes
      <3> QED BY <2>2, <3>1, <3>2
    <2>4. partial' \in [Sockets -> Nat]
      BY <1>t, <2>2 DEF StreamTypes
    <2> QED BY <1>t, <2>2, <2>3, <2>4 DEF StreamTypes
  <1>4. ASSUME NEW s \in Sockets, NEW heard \in BOOLEAN, Interrupt(s, heard)
        PROVE  StreamTypes'
    <2>1. /\ UNCHANGED <<stream, got>>
          /\ partial' = partial \/ partial' = [partial EXCEPT ![s] = 0]
      BY <1>4 DEF Interrupt
    <2> QED BY <1>t, <2>1 DEF StreamTypes
  <1>5. ASSUME NEW s \in Sockets, NEW t \in Turns,
               FinishStream(s, t) \/ DropStream(s, t) \/ CloseRecord(s, t)
        PROVE  StreamTypes'
    <2>1. stream' \in [Sockets -> [Turns -> StreamStates]]
      BY <1>5, FinishType DEF FinishStream, DropStream, CloseRecord
    <2>2. got' = got /\ (partial' = partial \/ partial' = [partial EXCEPT ![s] = 0])
      BY <1>5 DEF FinishStream, DropStream, CloseRecord
    <2>3. partial' \in [Sockets -> Nat]
      BY <1>t, <2>2 DEF StreamTypes
    <2> QED BY <1>t, <2>1, <2>2, <2>3 DEF StreamTypes
  <1>6. ASSUME NEW s \in Sockets, NEW t \in Turns, SpeakToken(s, t)
        PROVE  StreamTypes'
    <2>1. /\ stream' = stream
          /\ got' = [got EXCEPT ![s][t] = @ + 1]
          /\ partial' = [partial EXCEPT ![s] = @ + 1]
      BY <1>6 DEF SpeakToken
    <2>2. got[s][t] + 1 \in Nat /\ partial[s] + 1 \in Nat
      BY <1>t DEF StreamTypes
    <2>3. got' = [got EXCEPT ![s][t] = got[s][t] + 1]
      BY <1>t, <2>1 DEF StreamTypes
    <2>4. got' \in [Sockets -> [Turns -> Nat]]
      BY <1>t, <2>2, <2>3, SetTurn DEF StreamTypes
    <2>5. partial' \in [Sockets -> Nat]
      BY <1>t, <2>1, <2>2 DEF StreamTypes
    <2> QED BY <1>t, <2>1, <2>4, <2>5 DEF StreamTypes
  <1>7. ASSUME NEW s \in Sockets, NEW t \in Turns,
               Fallback(s, t) \/ RefuseFallback(s, t)
        PROVE  StreamTypes'
    <2>1. /\ UNCHANGED <<got, partial>>
          /\ \/ stream' = [stream EXCEPT ![s][t] = "fallback"]
             \/ stream' = [stream EXCEPT ![s][t] = "refused"]
      BY <1>7 DEF Fallback, RefuseFallback
    <2>2. stream' \in [Sockets -> [Turns -> StreamStates]]
      <3>1. CASE stream' = [stream EXCEPT ![s][t] = "fallback"]
        BY <1>s, <3>1, SetStream
      <3>2. CASE stream' = [stream EXCEPT ![s][t] = "refused"]
        BY <1>s, <3>2, SetStream
      <3> QED BY <2>1, <3>1, <3>2
    <2> QED BY <1>t, <2>1, <2>2 DEF StreamTypes
  <1>8. ASSUME NEW s \in Sockets, NEW t \in Turns, FailStream(s, t)
        PROVE  StreamTypes'
    <2>1. /\ UNCHANGED <<got, partial>>
          /\ Finish(s, t) \/ stream' = [stream EXCEPT ![s][t] = "ending"]
      BY <1>8 DEF FailStream
    <2>2. stream' \in [Sockets -> [Turns -> StreamStates]]
      <3>1. CASE stream' = [stream EXCEPT ![s][t] = "ending"]
        BY <1>s, <3>1, SetStream
      <3> QED BY <2>1, <3>1, FinishType
    <2> QED BY <1>t, <2>1, <2>2 DEF StreamTypes
  <1>9. CASE EndCall \/ EndCallDone \/ CarrierEnds \/ Shutdown \/ UNCHANGED vars
    BY <1>1, <1>9 DEF EndCall, EndCallDone, CarrierEnds, Shutdown, vars, session
  <1>10. Talking \subseteq Sockets
    BY DEF RelayAssumption
  <1> QED BY <1>1, <1>2, <1>3, <1>4, <1>5, <1>6, <1>7, <1>8, <1>9, <1>10
          DEF Next, LlmStep

LEMMA ServiceTypeStep ==
  ASSUME RelayAssumption, TypeOK, [Next]_vars
  PROVE  ServiceTypes'
  <1>t. ServiceTypes
    BY TypeParts
  <1>c. /\ {"endOfTurn"} \in SUBSET Columns /\ {"interrupted"} \in SUBSET Columns
        /\ {"firstModelToken", "reply", "firstToken"} \in SUBSET Columns
        /\ {"firstModelToken"} \in SUBSET Columns /\ {"firstToken"} \in SUBSET Columns
        /\ {} \in SUBSET Columns
    BY DEF Columns
  <1>1. ASSUME NEW s \in Sockets,
               Attach(s) \/ SetupMismatch(s) \/ SocketClosed(s)
        PROVE  ServiceTypes'
    <2>1. /\ UNCHANGED <<mode, over, ending, timings, timed>>
          /\ registered' \in {registered, s, NoSocket}
          /\ inputs' = inputs \/ inputs' = inputs + 1
      BY <1>1 DEF Attach, SetupMismatch, SocketClosed, Spend, service
    <2> QED BY <1>t, <2>1 DEF ServiceTypes
  <1>2. ASSUME NEW s \in Sockets, SendText(s)
        PROVE  ServiceTypes'
    <2> DEFINE t == IF hostAnswersTurns THEN pending[s] ELSE 0
    <2>1. UNCHANGED <<mode, over, registered, ending>> /\ inputs' = inputs + 1
      BY <1>2 DEF SendText, Spend
    <2>2. t \in 0..MaxTurns
      BY DEF TypeOK, RelayAssumption
    <2>3. CASE t = 0
      <3>1. UNCHANGED <<timings, timed>>
        BY <1>2, <2>3 DEF SendText
      <3> QED BY <1>t, <2>1, <3>1 DEF ServiceTypes
    <2>4. CASE t # 0
      <3> DEFINE columns == {"firstModelToken", "reply", "firstToken"}
      <3>1. /\ timings' = Stamped(t, columns)
            /\ EmitTiming(s, t, timings[t] \cup columns)
        BY <1>2, <2>4 DEF SendText
      <3>2. t \in Turns
        BY <2>2, <2>4 DEF Turns
      <3> HIDE DEF t
      <3>3. timings' \in [0..MaxTurns -> SUBSET Columns]
        BY <1>c, <2>2, <3>1, StampType
      <3>4. timed' \in [Sockets -> [Turns -> Nat]]
        BY <3>1, <3>2, TimedType
      <3> QED BY <1>t, <2>1, <3>3, <3>4 DEF ServiceTypes
    <2> QED BY <2>3, <2>4
  <1>3. ASSUME NEW s \in Sockets, Prompt(s)
        PROVE  ServiceTypes'
    <2>1. turn[s] + 1 \in 0..MaxTurns
      BY <1>3, RoomForTurn DEF Prompt, Turns
    <2>2. timings' \in [0..MaxTurns -> SUBSET Columns]
      BY <1>3, <1>c, <2>1, StampType DEF Prompt
    <2>3. UNCHANGED <<mode, over, registered, ending, timed, inputs>>
      BY <1>3 DEF Prompt
    <2> QED BY <1>t, <2>2, <2>3 DEF ServiceTypes
  <1>4. ASSUME NEW s \in Sockets, NEW heard \in BOOLEAN, Interrupt(s, heard)
        PROVE  ServiceTypes'
    <2>1. turn[s] \in 0..MaxTurns
      BY DEF TypeOK
    <2>2. timings' \in [0..MaxTurns -> SUBSET Columns]
      BY <1>4, <1>c, <2>1, StampType DEF Interrupt
    <2>3. UNCHANGED <<mode, over, registered, ending, timed>> /\ inputs' = inputs + 1
      BY <1>4 DEF Interrupt, Spend
    <2> QED BY <1>t, <2>2, <2>3 DEF ServiceTypes
  <1>5. ASSUME NEW s \in Sockets, NEW t \in Turns, FinishStream(s, t)
        PROVE  ServiceTypes'
    <2>1. UNCHANGED <<mode, over, registered, ending, timings, inputs>>
      BY <1>5 DEF FinishStream
    <2>2. timed' = timed \/ EmitTiming(s, t, timings[t])
      BY <1>5 DEF FinishStream
    <2>3. timed' \in [Sockets -> [Turns -> Nat]]
      BY <1>t, <2>2, TimedType DEF ServiceTypes
    <2> QED BY <1>t, <2>1, <2>3 DEF ServiceTypes
  <1>6. ASSUME NEW s \in Sockets, NEW t \in Turns, SpeakToken(s, t)
        PROVE  ServiceTypes'
    <2> DEFINE cs == (IF got[s][t] = 0 THEN {"firstModelToken"} ELSE {})
                       \cup (IF partial[s] = 0 THEN {"firstToken"} ELSE {})
    <2>1. cs \in SUBSET Columns
      BY <1>c
    <2>2. timings' = Stamped(t, cs)
      BY <1>6 DEF SpeakToken
    <2> HIDE DEF cs
    <2>3. t \in 0..MaxTurns
      BY DEF Turns
    <2>4. timings' \in [0..MaxTurns -> SUBSET Columns]
      BY <2>1, <2>2, <2>3, StampType
    <2>5. UNCHANGED <<mode, over, registered, ending, timed, inputs>>
      BY <1>6 DEF SpeakToken
    <2> QED BY <1>t, <2>4, <2>5 DEF ServiceTypes
  <1>7. CASE UNCHANGED <<service, inputs>>
    BY <1>t, <1>7 DEF service, ServiceTypes
  <1>8. ASSUME NEW s \in Sockets, NEW t \in Turns,
               \/ DropStream(s, t) \/ Fallback(s, t) \/ RefuseFallback(s, t)
               \/ FailStream(s, t)
        PROVE  UNCHANGED <<service, inputs>>
    BY <1>8 DEF DropStream, Fallback, RefuseFallback, FailStream
  <1>9. ASSUME NEW s \in Sockets, NEW t \in Turns, CloseRecord(s, t)
        PROVE  ServiceTypes'
    BY <1>t, <1>9 DEF CloseRecord, ServiceTypes
  <1>10. CASE EndCall \/ Shutdown
    <2>1. /\ UNCHANGED <<mode, over, timings, timed>> /\ inputs' = inputs + 1
          /\ ending' = ending \/ ending' = ending + 1
          /\ registered' \in {registered, NoSocket}
      BY <1>10 DEF EndCall, Shutdown, Spend
    <2> QED BY <1>t, <2>1 DEF ServiceTypes
  <1>11. CASE EndCallDone
    BY <1>t, <1>11 DEF EndCallDone, ServiceTypes
  <1>12. CASE CarrierEnds
    BY <1>t, <1>12 DEF CarrierEnds, Spend, ServiceTypes
  <1>13. CASE UNCHANGED vars
    BY <1>7, <1>13 DEF vars
  <1>14. Talking \subseteq Sockets
    BY DEF RelayAssumption
  <1> QED BY <1>1, <1>2, <1>3, <1>4, <1>5, <1>6, <1>7, <1>8, <1>9, <1>10,
             <1>11, <1>12, <1>13, <1>14
          DEF Next, LlmStep

LEMMA AddFrame ==
  ASSUME TypeOK, NEW s \in Sockets, NEW f \in Frames
  PROVE  /\ [wire EXCEPT ![s] = Append(@, f)] \in [Sockets -> Seq(Frames)]
         /\ [wire EXCEPT ![s] = Send(s, <<f>>)] \in [Sockets -> Seq(Frames)]
  <1>1. wire \in [Sockets -> Seq(Frames)]
    BY DEF TypeOK
  <1>2. <<f>> \in Seq(Frames)
    OBVIOUS
  <1>3. Append(wire[s], f) \in Seq(Frames)
    BY <1>1
  <1>4. Send(s, <<f>>) \in Seq(Frames)
    BY <1>2, SendType
  <1> QED BY <1>1, <1>3, <1>4

LEMMA AddLine ==
  ASSUME TypeOK, NEW s \in Sockets, NEW t \in 0..MaxTurns, NEW n \in Nat,
         NEW role \in {"user", "assistant"},
         NEW how \in {"said", "full", "cut", "verbatim"}
  PROVE  [history EXCEPT ![s] = Append(@, Line(role, t, how, n))]
           \in [Sockets -> Seq(Lines)]
  <1>1. history \in [Sockets -> Seq(Lines)]
    BY DEF TypeOK
  <1>2. Line(role, t, how, n) \in Lines
    BY DEF Line, Lines
  <1>3. Append(history[s], Line(role, t, how, n)) \in Seq(Lines)
    BY <1>1, <1>2
  <1> QED BY <1>1, <1>3

LEMMA LogTypeStep ==
  ASSUME RelayAssumption, TypeOK, [Next]_vars
  PROVE  LogTypes'
  <1>t. LogTypes
    BY TypeParts
  <1>u. /\ turn \in [Sockets -> 0..MaxTurns] /\ Turns \subseteq 0..MaxTurns
        /\ partial \in [Sockets -> Nat]
    BY DEF TypeOK, Turns
  <1>f. \A t \in 0..MaxTurns :
          {Frame("prompt", t), Frame("interrupt", t), Frame("verbatim", t),
           Frame("token", t), Frame("last", t), Frame("end", t)} \subseteq Frames
    BY FrameType
  <1>1. CASE UNCHANGED <<history, wire, blamed>>
    BY <1>t, <1>1 DEF LogTypes
  <1>2. ASSUME NEW s \in Sockets,
               Attach(s) \/ SetupMismatch(s) \/ SocketClosed(s)
        PROVE  UNCHANGED <<history, wire, blamed>>
    BY <1>2 DEF Attach, SetupMismatch, SocketClosed
  <1>3. ASSUME NEW s \in Sockets, Prompt(s)
        PROVE  LogTypes'
    <2>1. turn[s] + 1 \in 0..MaxTurns
      BY <1>3, RoomForTurn DEF Prompt, Turns
    <2>2. /\ history' = [history EXCEPT ![s] = Append(@, Line("user", turn[s] + 1, "said", 0))]
          /\ wire' = [wire EXCEPT ![s] = Append(@, Frame("prompt", turn[s] + 1))]
          /\ blamed' = blamed
      BY <1>3 DEF Prompt
    <2>3. wire' \in [Sockets -> Seq(Frames)]
      BY <1>f, <2>1, <2>2, AddFrame
    <2>4. history' \in [Sockets -> Seq(Lines)]
      BY <2>1, <2>2, AddLine
    <2> QED BY <1>t, <2>2, <2>3, <2>4 DEF LogTypes
  <1>4. ASSUME NEW s \in Sockets, NEW heard \in BOOLEAN, Interrupt(s, heard)
        PROVE  LogTypes'
    <2>1. turn[s] \in 0..MaxTurns
      BY <1>u
    <2>2. /\ \/ history' = history
             \/ history' = [history EXCEPT ![s] = Append(@, Line("assistant", turn[s], "cut", 0))]
          /\ wire' = [wire EXCEPT ![s] = Append(@, Frame("interrupt", turn[s]))]
          /\ blamed' = blamed
      BY <1>4 DEF Interrupt
    <2>3. wire' \in [Sockets -> Seq(Frames)]
      BY <1>f, <2>1, <2>2, AddFrame
    <2>4. history' \in [Sockets -> Seq(Lines)]
      <3>1. CASE history' = history
        BY <1>t, <3>1 DEF LogTypes
      <3>2. CASE history' = [history EXCEPT ![s] = Append(@, Line("assistant", turn[s], "cut", 0))]
        BY <2>1, <3>2, AddLine
      <3> QED BY <2>2, <3>1, <3>2
    <2> QED BY <1>t, <2>2, <2>3, <2>4 DEF LogTypes
  <1>5. ASSUME NEW s \in Sockets, SendText(s)
        PROVE  LogTypes'
    <2>1. turn[s] \in 0..MaxTurns
      BY <1>u
    <2>2. /\ history' = [history EXCEPT ![s] = Append(@, Line("assistant", turn[s], "verbatim", 0))]
          /\ wire' = [wire EXCEPT ![s] = Send(s, <<Frame("verbatim", turn[s])>>)]
          /\ blamed' = blamed
      BY <1>5 DEF SendText
    <2>3. wire' \in [Sockets -> Seq(Frames)]
      BY <1>f, <2>1, <2>2, AddFrame
    <2>4. history' \in [Sockets -> Seq(Lines)]
      BY <2>1, <2>2, AddLine
    <2> QED BY <1>t, <2>2, <2>3, <2>4 DEF LogTypes
  <1>6. ASSUME NEW s \in Sockets, NEW t \in Turns, SpeakToken(s, t)
        PROVE  LogTypes'
    <2>1. wire' = [wire EXCEPT ![s] = Send(s, <<Frame("token", t)>>)]
      BY <1>6 DEF SpeakToken
    <2>2. UNCHANGED <<history, blamed>>
      BY <1>6 DEF SpeakToken
    <2>3. wire' \in [Sockets -> Seq(Frames)]
      BY <1>f, <1>u, <2>1, AddFrame
    <2> QED BY <1>t, <2>2, <2>3 DEF LogTypes
  <1>7. ASSUME NEW s \in Sockets, NEW t \in Turns, FinishStream(s, t)
        PROVE  LogTypes'
    <2>1. /\ wire' = [wire EXCEPT ![s] = Send(s, <<Frame("last", t)>>)]
          /\ blamed' = blamed
          /\ \/ history' = history
             \/ history' = [history EXCEPT ![s] = Append(@, Line("assistant", t, "full", partial[s]))]
      BY <1>7 DEF FinishStream
    <2>2. t \in 0..MaxTurns /\ partial[s] \in Nat
      BY <1>u
    <2>3. wire' \in [Sockets -> Seq(Frames)]
      BY <1>f, <2>1, <2>2, AddFrame
    <2>4. history' \in [Sockets -> Seq(Lines)]
      <3>1. CASE history' = history
        BY <1>t, <3>1 DEF LogTypes
      <3>2. CASE history' = [history EXCEPT ![s] = Append(@, Line("assistant", t, "full", partial[s]))]
        BY <2>2, <3>2, AddLine
      <3> QED BY <2>1, <3>1, <3>2
    <2> QED BY <1>t, <2>1, <2>3, <2>4 DEF LogTypes
  <1>8. ASSUME NEW s \in Sockets, NEW t \in Turns,
               \/ DropStream(s, t) \/ Fallback(s, t) \/ RefuseFallback(s, t)
               \/ CloseRecord(s, t)
        PROVE  UNCHANGED <<history, wire, blamed>>
    BY <1>8 DEF DropStream, Fallback, RefuseFallback, CloseRecord
  <1>9. ASSUME NEW s \in Sockets, NEW t \in Turns, FailStream(s, t)
        PROVE  LogTypes'
    <2>1. Frame("end", t) \in Frames /\ <<Frame("end", t)>> \in Seq(Frames)
      BY <1>f, <1>u
    <2>2. \/ wire' = wire
          \/ wire' = [wire EXCEPT ![s] = Send(s, <<Frame("end", t)>>)]
          \/ EndSession(s, <<Frame("end", t)>>)
      BY <1>9 DEF FailStream
    <2>3. wire' \in [Sockets -> Seq(Frames)]
      <3>1. CASE wire' = wire
        BY <1>t, <3>1 DEF LogTypes
      <3>2. CASE wire' = [wire EXCEPT ![s] = Send(s, <<Frame("end", t)>>)]
        BY <2>1, <3>2, AddFrame
      <3>3. CASE EndSession(s, <<Frame("end", t)>>)
        BY <2>1, <3>3, EndType
      <3> QED BY <2>2, <3>1, <3>2, <3>3
    <2>4. history' = history
      BY <1>9 DEF FailStream
    <2>5. \/ blamed' = blamed
          \/ blamed' = blamed \cup {t}
      BY <1>9 DEF FailStream
    <2>6. blamed' \subseteq Turns
      BY <1>t, <2>5 DEF LogTypes
    <2> QED BY <1>t, <2>3, <2>4, <2>6 DEF LogTypes
  <1>10. CASE EndCall \/ Shutdown
    <2>1. UNCHANGED <<history, blamed>>
      BY <1>10 DEF EndCall, Shutdown
    <2>2. wire' = wire \/ (registered \in Sockets /\ EndSession(registered, <<>>))
      BY <1>10 DEF EndCall, Shutdown, TypeOK
    <2>3. <<>> \in Seq(Frames)
      OBVIOUS
    <2>4. wire' \in [Sockets -> Seq(Frames)]
      BY <1>t, <2>2, <2>3, EndType DEF LogTypes
    <2> QED BY <1>t, <2>1, <2>4 DEF LogTypes
  <1>11. CASE EndCallDone \/ CarrierEnds \/ UNCHANGED vars
    BY <1>1, <1>11 DEF EndCallDone, CarrierEnds, vars, session
  <1>12. Talking \subseteq Sockets
    BY DEF RelayAssumption
  <1> QED BY <1>1, <1>2, <1>3, <1>4, <1>5, <1>6, <1>7, <1>8, <1>9, <1>10,
             <1>11, <1>12
          DEF Next, LlmStep

LEMMA TypeStep ==
  ASSUME RelayAssumption, TypeOK, [Next]_vars
  PROVE  TypeOK'
  BY ServiceTypeStep, TurnTypeStep, StreamTypeStep, LogTypeStep, TypeParts

-----------------------------------------------------------------------------
(* What an action is to one socket v: nothing; a cut of its stream, maybe  *)
(* with a frame that is no token; or one of its own turn's actions.        *)
Still(v) ==
  /\ UNCHANGED <<turn[v], current[v], aborted[v], stream[v], pending[v],
                 wire[v], timed[v]>>
  /\ sock[v] = "closed" <=> sock'[v] = "closed"

MoreWire(v, t) ==
  wire'[v] = wire[v] \/ \E kind \in {"verbatim", "interrupt", "end"} :
                          wire'[v] = Append(wire[v], Frame(kind, t))

Cuts(v) ==
  /\ UNCHANGED <<turn[v], current[v], stream[v]>>
  /\ aborted'[v] = Abort(v)
  /\ sock[v] = "closed" => sock'[v] = "closed"
  /\ MoreWire(v, turn[v])

Silences(v) ==
  /\ Cuts(v) /\ timed'[v] = timed[v]
  /\ pending'[v] = pending[v] \/ pending'[v] = 0

(* A stream leaves its loop, by the end, the cut or an error.              *)
Leaves(v, t) ==
  /\ UNCHANGED <<turn[v], pending[v]>>
  /\ \E x \in {"over", "ending"} : stream'[v] = [stream[v] EXCEPT ![t] = x]
  /\ current'[v] = current[v] \/ current[v] = t
  /\ aborted'[v] = aborted[v] \/ aborted'[v] = Abort(v)
  /\ sock[v] = "closed" <=> sock'[v] = "closed"

LEMMA EndsOther ==
  ASSUME TypeOK, NEW v \in Sockets, NEW s \in Sockets, s # v,
         NEW before, EndSession(s, before),
         UNCHANGED <<turn, current, pending, timed>>, stream'[v] = stream[v]
  PROVE  Still(v) \/ Silences(v)
  <1>t. /\ wire \in [Sockets -> Seq(Frames)]
        /\ aborted \in [Sockets -> SUBSET Turns]
        /\ sock \in [Sockets -> {"none", "open", "closing", "closed"}]
    BY DEF TypeOK
  <1>1. CASE registered = v
    <2>1. registered # NoSocket \/ registered = NoSocket
      OBVIOUS
    <2>2. CASE registered # NoSocket
      <3>1. aborted'[v] = Abort(v)
        BY <1>1, <1>t, <2>2 DEF EndSession
      <3>2. wire'[v] = wire[v] \/ wire'[v] = Append(wire[v], Frame("end", turn[v]))
        BY <1>1, <1>t, <2>2 DEF EndSession
      <3>3. sock[v] = "closed" => sock'[v] = "closed"
        BY <1>1, <1>t, <2>2 DEF EndSession
      <3> QED BY <3>1, <3>2, <3>3 DEF Silences, Cuts, MoreWire
    <2>3. CASE registered = NoSocket
      BY <1>t, <2>3 DEF EndSession, Still
    <2> QED BY <2>2, <2>3
  <1>2. CASE registered # v
    BY <1>2, <1>t DEF EndSession, Still
  <1> QED BY <1>1, <1>2

LEMMA EndsOwn ==
  ASSUME TypeOK, NEW v \in Sockets, EndSession(v, <<>>), v = registered,
         registered # NoSocket, UNCHANGED <<turn, current, pending, timed, stream>>
  PROVE  Silences(v)
  <1>t. /\ wire \in [Sockets -> Seq(Frames)]
        /\ aborted \in [Sockets -> SUBSET Turns]
        /\ sock \in [Sockets -> {"none", "open", "closing", "closed"}]
    BY DEF TypeOK
  <1>1. Send(v, <<>>) = wire[v]
    BY <1>t DEF Send
  <1>2. [wire EXCEPT ![v] = Send(v, <<>>)] = wire
    BY <1>1, <1>t
  <1>3. aborted'[v] = Abort(v)
    BY <1>t DEF EndSession
  <1>4. wire'[v] = wire[v] \/ wire'[v] = Append(wire[v], Frame("end", turn[v]))
    BY <1>2, <1>t DEF EndSession
  <1>5. sock[v] = "closed" => sock'[v] = "closed"
    BY <1>t DEF EndSession
  <1> QED BY <1>3, <1>4, <1>5 DEF Silences, Cuts, MoreWire

LEMMA OthersStill ==
  ASSUME RelayAssumption, TypeOK, NEW v \in Sockets, NEW s \in Sockets, s # v,
         \/ Attach(s) \/ SetupMismatch(s) \/ SocketClosed(s) \/ SendText(s)
         \/ Prompt(s) \/ \E heard \in BOOLEAN : Interrupt(s, heard)
         \/ \E t \in Turns :
              \/ SpeakToken(s, t) \/ FinishStream(s, t) \/ DropStream(s, t)
              \/ Fallback(s, t) \/ RefuseFallback(s, t) \/ CloseRecord(s, t)
  PROVE  Still(v)
  <1>t. /\ sock \in [Sockets -> {"none", "open", "closing", "closed"}]
        /\ turn \in [Sockets -> 0..MaxTurns]
        /\ current \in [Sockets -> 0..MaxTurns]
        /\ aborted \in [Sockets -> SUBSET Turns]
        /\ pending \in [Sockets -> 0..MaxTurns]
        /\ stream \in [Sockets -> [Turns -> StreamStates]]
        /\ wire \in [Sockets -> Seq(Frames)]
        /\ timed \in [Sockets -> [Turns -> Nat]]
    BY DEF TypeOK
  <1>1. CASE Attach(s) \/ SetupMismatch(s) \/ SocketClosed(s)
    BY <1>t, <1>1 DEF Attach, SetupMismatch, SocketClosed, service, Still
  <1>2. CASE SendText(s)
    <2>1. timed'[v] = timed[v] /\ pending'[v] = pending[v]
      BY <1>t, <1>2 DEF SendText, EmitTiming
    <2>2. /\ UNCHANGED <<sock, turn, current, stream>>
          /\ aborted'[v] = aborted[v] /\ wire'[v] = wire[v]
      BY <1>t, <1>2 DEF SendText
    <2> QED BY <2>1, <2>2 DEF Still
  <1>3. CASE Prompt(s)
    <2>1. /\ current'[v] = current[v] /\ stream'[v] = stream[v]
          /\ pending'[v] = pending[v]
      BY <1>t, <1>3 DEF Prompt, StartTurn
    <2>2. /\ UNCHANGED <<sock, timed>> /\ turn'[v] = turn[v]
          /\ aborted'[v] = aborted[v] /\ wire'[v] = wire[v]
      BY <1>t, <1>3 DEF Prompt
    <2> QED BY <2>1, <2>2 DEF Still
  <1>4. ASSUME NEW heard \in BOOLEAN, Interrupt(s, heard)
        PROVE  Still(v)
    BY <1>t, <1>4 DEF Interrupt, Still
  <1>5. ASSUME NEW t \in Turns,
               \/ SpeakToken(s, t) \/ DropStream(s, t)
               \/ Fallback(s, t) \/ RefuseFallback(s, t) \/ CloseRecord(s, t)
        PROVE  Still(v)
    <2>1. CASE SpeakToken(s, t)
      BY <1>t, <2>1 DEF SpeakToken, Still
    <2>2. CASE DropStream(s, t) \/ CloseRecord(s, t)
      BY <1>t, <2>2 DEF DropStream, CloseRecord, Finish, service, Still
    <2>3. CASE Fallback(s, t) \/ RefuseFallback(s, t)
      BY <1>t, <2>3 DEF Fallback, RefuseFallback, service, Still
    <2> QED BY <1>5, <2>1, <2>2, <2>3
  <1>6. ASSUME NEW t \in Turns, FinishStream(s, t)
        PROVE  Still(v)
    <2>1. timed'[v] = timed[v]
      BY <1>t, <1>6 DEF FinishStream, EmitTiming
    <2>2. /\ UNCHANGED <<sock, turn, aborted, pending>> /\ wire'[v] = wire[v]
          /\ stream'[v] = stream[v] /\ current'[v] = current[v]
      BY <1>t, <1>6 DEF FinishStream, Finish
    <2> QED BY <2>1, <2>2 DEF Still
  <1> QED BY <1>1, <1>2, <1>3, <1>4, <1>5, <1>6

Own(v) ==
  \/ Prompt(v) \/ SendText(v)
  \/ \E t \in Turns :
       \/ SpeakToken(v, t) \/ FinishStream(v, t) \/ DropStream(v, t)
       \/ Fallback(v, t) \/ RefuseFallback(v, t) \/ FailStream(v, t)
       \/ CloseRecord(v, t)

LEMMA Effect ==
  ASSUME RelayAssumption, TypeOK, [Next]_vars, NEW v \in Sockets
  PROVE  mode' = mode /\ (Still(v) \/ Silences(v) \/ Own(v))
  <1>t. /\ sock \in [Sockets -> {"none", "open", "closing", "closed"}]
        /\ aborted \in [Sockets -> SUBSET Turns]
        /\ pending \in [Sockets -> 0..MaxTurns]
        /\ wire \in [Sockets -> Seq(Frames)]
        /\ registered \in Sockets \cup {NoSocket}
    BY DEF TypeOK
  <1>1. CASE Attach(v) \/ SetupMismatch(v)
    BY <1>t, <1>1 DEF Attach, SetupMismatch, service, Still
  <1>2. CASE SocketClosed(v)
    BY <1>t, <1>2 DEF SocketClosed, Silences, Cuts, MoreWire
  <1>3. ASSUME NEW heard \in BOOLEAN, Interrupt(v, heard)
        PROVE  Silences(v) /\ mode' = mode
    BY <1>t, <1>3 DEF Interrupt, Silences, Cuts, MoreWire
  <1>4. ASSUME NEW s \in Sockets, s # v, NEW t \in Turns, FailStream(s, t)
        PROVE  (Still(v) \/ Silences(v)) /\ mode' = mode
    <2>1. UNCHANGED <<mode, turn, pending, timed>>
      BY <1>4 DEF FailStream, service
    <2>2. stream'[v] = stream[v]
      BY <1>4 DEF FailStream, Finish, TypeOK
    <2>3. CASE EndSession(s, <<Frame("end", t)>>) /\ UNCHANGED current
      BY <1>4, <2>1, <2>2, <2>3, EndsOther
    <2>4. CASE /\ Finish(s, t) /\ UNCHANGED <<sock, aborted>>
               /\ wire' = wire \/ wire' = [wire EXCEPT ![s] = Send(s, <<Frame("end", t)>>)]
      <3>1. current'[v] = current[v] /\ wire'[v] = wire[v]
        BY <1>4, <1>t, <2>4 DEF Finish, TypeOK
      <3> QED BY <2>1, <2>2, <2>4, <3>1 DEF Still
    <2> QED BY <1>4, <2>1, <2>3, <2>4 DEF FailStream
  <1>5. CASE EndCall \/ Shutdown
    <2>1. UNCHANGED <<mode, turn, current, pending, timed, stream>>
      BY <1>5 DEF EndCall, Shutdown
    <2>2. \/ UNCHANGED <<sock, aborted, wire>>
          \/ registered # NoSocket /\ EndSession(registered, <<>>)
      BY <1>5 DEF EndCall, Shutdown
    <2>3. CASE UNCHANGED <<sock, aborted, wire>>
      BY <2>1, <2>3 DEF Still
    <2>4. CASE registered # NoSocket /\ EndSession(registered, <<>>)
      <3>1. registered \in Sockets
        BY <1>t, <2>4
      <3>2. CASE registered = v
        BY <2>1, <2>4, <3>2, EndsOwn
      <3>3. CASE registered # v
        BY <2>1, <2>4, <3>1, <3>3, EndsOther
      <3> QED BY <2>1, <3>2, <3>3
    <2> QED BY <2>1, <2>2, <2>3, <2>4
  <1>6. CASE EndCallDone \/ CarrierEnds \/ UNCHANGED vars
    BY <1>6 DEF EndCallDone, CarrierEnds, vars, service, session, Still
  <1>7. ASSUME Own(v)
        PROVE  mode' = mode
    BY <1>7 DEF Own, Prompt, SendText, SpeakToken, FinishStream, DropStream,
                Fallback, RefuseFallback, FailStream, CloseRecord, service
  <1>8. ASSUME NEW s \in Sockets, s # v,
               \/ Attach(s) \/ SetupMismatch(s) \/ SocketClosed(s) \/ SendText(s)
               \/ Prompt(s) \/ \E heard \in BOOLEAN : Interrupt(s, heard)
               \/ \E t \in Turns :
                    \/ SpeakToken(s, t) \/ FinishStream(s, t) \/ DropStream(s, t)
                    \/ Fallback(s, t) \/ RefuseFallback(s, t) \/ CloseRecord(s, t)
        PROVE  Still(v) /\ mode' = mode
    <2>1. mode' = mode
      BY <1>8 DEF Attach, SetupMismatch, SocketClosed, SendText, Prompt, Interrupt,
                  SpeakToken, FinishStream, DropStream, Fallback,
                  RefuseFallback, CloseRecord, service
    <2> QED BY <1>8, <2>1, OthersStill
  <1>9. mode' = mode \/ ~(Attach(v) \/ SetupMismatch(v) \/ SocketClosed(v))
    BY DEF Attach, SetupMismatch, SocketClosed, service
  <1>10. Talking \subseteq Sockets
    BY DEF RelayAssumption
  <1> QED BY <1>1, <1>2, <1>3, <1>4, <1>5, <1>6, <1>7, <1>8, <1>9, <1>10
          DEF Next, LlmStep, Own

-----------------------------------------------------------------------------
(* The stream of a socket that is not cut is the one of its turn; a stream *)
(* belongs to a turn that was, and in direct mode there is none.           *)
Live(v) ==
  \A t \in Turns :
    stream[v][t] \in Streaming /\ ~Cut(v, t) => current[v] = t /\ turn[v] = t
Past(v) == \A t \in Turns : stream[v][t] # "none" => t <= turn[v]
ModeFits(v) ==
  /\ mode = "direct" => \A t \in Turns : stream[v][t] = "none"
  /\ mode = "byo-model" => pending[v] = 0
StreamsFit(v) == Live(v) /\ Past(v) /\ ModeFits(v)

LEMMA ModeIs ==
  ASSUME RelayAssumption, TypeOK
  PROVE  mode \in {"direct", "byo-model"}
  BY DEF RelayAssumption, TypeOK

(* After a cut no stream of the socket is live.                            *)
LEMMA CutIsCut ==
  ASSUME RelayAssumption, TypeOK, NEW v \in Sockets, Live(v), Cuts(v)
  PROVE  \A t \in Turns : stream'[v][t] \in Streaming => Cut(v, t)'
  <1> SUFFICES ASSUME NEW t \in Turns, stream'[v][t] \in Streaming
               PROVE  Cut(v, t)'
    OBVIOUS
  <1>1. stream[v][t] \in Streaming /\ aborted'[v] = Abort(v)
    BY DEF Cuts
  <1>2. CASE Cut(v, t)
    BY <1>1, <1>2, AbortType DEF Cuts, Cut
  <1>3. CASE ~Cut(v, t)
    <2>1. current[v] = t /\ t # 0
      BY <1>1, <1>3 DEF Live, Turns
    <2>2. t \in aborted'[v]
      BY <1>1, <2>1 DEF Abort
    <2> QED BY <2>2 DEF Cut
  <1> QED BY <1>2, <1>3

(* Each of the ways out of the loop is a Leaves.                           *)
LEMMA WaysOut ==
  ASSUME RelayAssumption, TypeOK, NEW v \in Sockets, NEW t \in Turns,
         \/ FinishStream(v, t) \/ DropStream(v, t) \/ FailStream(v, t)
         \/ CloseRecord(v, t)
  PROVE  Leaves(v, t)
  <1>t. /\ sock \in [Sockets -> {"none", "open", "closing", "closed"}]
        /\ current \in [Sockets -> 0..MaxTurns]
        /\ aborted \in [Sockets -> SUBSET Turns]
        /\ stream \in [Sockets -> [Turns -> StreamStates]]
    BY DEF TypeOK
  <1>1. ASSUME Finish(v, t)
        PROVE  /\ stream'[v] = [stream[v] EXCEPT ![t] = "over"]
               /\ current'[v] = current[v] \/ current[v] = t
    BY <1>t, <1>1 DEF Finish
  <1>2. CASE FinishStream(v, t) \/ DropStream(v, t) \/ CloseRecord(v, t)
    <2>1. Finish(v, t) /\ UNCHANGED <<sock, turn, aborted, pending>>
      BY <1>2 DEF FinishStream, DropStream, CloseRecord
    <2> QED BY <1>1, <2>1 DEF Leaves
  <1>3. CASE FailStream(v, t)
    <2>1. UNCHANGED <<turn, pending>>
      BY <1>3 DEF FailStream
    <2>2. CASE Finish(v, t) /\ UNCHANGED <<sock, aborted>>
      BY <1>1, <2>1, <2>2 DEF Leaves
    <2>3. CASE /\ EndSession(v, <<Frame("end", t)>>)
               /\ stream' = [stream EXCEPT ![v][t] = "ending"]
               /\ UNCHANGED current
      <3>1. aborted'[v] = aborted[v] \/ aborted'[v] = Abort(v)
        BY <1>t, <2>3 DEF EndSession
      <3>2. sock[v] = "closed" <=> sock'[v] = "closed"
        BY <1>t, <2>3 DEF EndSession
      <3>3. stream'[v] = [stream[v] EXCEPT ![t] = "ending"]
        BY <1>t, <2>3
      <3> QED BY <2>1, <2>3, <3>1, <3>2, <3>3 DEF Leaves
    <2> QED BY <1>3, <2>2, <2>3 DEF FailStream
  <1> QED BY <1>2, <1>3

(* Whoever leaves is no longer streaming; the others are as before.        *)
LEMMA LeavesLive ==
  ASSUME RelayAssumption, TypeOK, NEW v \in Sockets, NEW t \in Turns,
         Leaves(v, t), NEW u \in Turns,
         stream'[v][u] \in Streaming, ~Cut(v, u)'
  PROVE  u # t /\ stream'[v][u] = stream[v][u] /\ ~Cut(v, u)
  <1>1. stream[v] \in [Turns -> StreamStates]
    BY DEF TypeOK
  <1>2. u # t /\ stream'[v][u] = stream[v][u]
    BY <1>1 DEF Leaves, Streaming
  <1>3. ~Cut(v, u)
    BY AbortType DEF Leaves, Cut
  <1> QED BY <1>2, <1>3

LEMMA StreamsFitStep ==
  ASSUME RelayAssumption, TypeOK, NEW v \in Sockets, StreamsFit(v), [Next]_vars
  PROVE  StreamsFit(v)'
  <1>m. mode' = mode /\ mode \in {"direct", "byo-model"}
    BY Effect, ModeIs
  <1>t. /\ stream \in [Sockets -> [Turns -> StreamStates]]
        /\ turn \in [Sockets -> 0..MaxTurns]
        /\ current \in [Sockets -> 0..MaxTurns]
        /\ aborted \in [Sockets -> SUBSET Turns]
        /\ pending \in [Sockets -> 0..MaxTurns]
    BY DEF TypeOK
  <1>1. CASE Still(v)
    BY <1>m, <1>1 DEF Still, StreamsFit, Live, Past, ModeFits, Cut
  <1>2. CASE Silences(v)
    <2>1. Live(v)'
      BY <1>2, CutIsCut DEF Silences, StreamsFit, Live
    <2>2. Past(v)' /\ ModeFits(v)'
      BY <1>m, <1>2 DEF Silences, Cuts, StreamsFit, Past, ModeFits
    <2> QED BY <2>1, <2>2 DEF StreamsFit
  <1>3. CASE Prompt(v)
    <2> DEFINE n == turn[v] + 1
    <2>1. n \in Turns /\ turn[v] \in Nat
      BY <1>3, <1>t, RoomForTurn DEF Prompt
    <2>2. turn'[v] = n /\ aborted'[v] = Abort(v) /\ sock' = sock
      BY <1>3, <1>t DEF Prompt
    <2>3. CASE mode = "direct"
      <3>1. stream' = stream
        BY <1>3, <2>3 DEF Prompt, StartTurn, gatewayDrivesTurns
      <3> QED BY <1>m, <2>3, <3>1 DEF StreamsFit, Live, Past, ModeFits, Streaming
    <2>4. CASE mode = "byo-model"
      <3>1. /\ stream'[v] = [stream[v] EXCEPT ![n] = "primary"]
            /\ current'[v] = n /\ pending' = pending
        BY <1>3, <1>t, <2>1, <2>4 DEF Prompt, StartTurn, gatewayDrivesTurns
      <3> HIDE DEF n
      <3>2. ASSUME NEW u \in Turns, stream'[v][u] \in Streaming, ~Cut(v, u)', u # n
            PROVE  FALSE
        <4>1. stream[v][u] \in Streaming
          BY <1>t, <3>1, <3>2
        <4>2. ~Cut(v, u)
          BY <2>2, <3>2, AbortType DEF Cut
        <4>3. current[v] = u /\ u # 0
          BY <4>1, <4>2 DEF StreamsFit, Live, Turns
        <4> QED BY <2>2, <3>2, <4>3 DEF Abort, Cut
      <3>3. Live(v)'
        BY <2>2, <3>1, <3>2 DEF Live
      <3>4. Past(v)'
        <4>1. \A u \in Turns : u <= turn[v] => u <= n
          BY <2>1 DEF n, Turns
        <4>2. \A u \in Turns : stream'[v][u] # "none" => u = n \/ stream[v][u] # "none"
          BY <1>t, <3>1
        <4>3. n <= n
          BY <2>1 DEF Turns
        <4> QED BY <2>2, <4>1, <4>2, <4>3 DEF StreamsFit, Past
      <3>5. ModeFits(v)'
        BY <1>m, <2>4, <3>1 DEF StreamsFit, ModeFits
      <3> QED BY <3>3, <3>4, <3>5 DEF StreamsFit
    <2> QED BY <1>m, <2>3, <2>4
  <1>4. CASE SendText(v)
    <2>1. UNCHANGED <<stream, turn, current, sock>> /\ aborted'[v] = Abort(v)
      BY <1>4, <1>t DEF SendText
    <2>2. pending'[v] = pending[v] \/ pending'[v] = 0
      BY <1>4, <1>t DEF SendText
    <2>3. \A t \in Turns : Cut(v, t) => Cut(v, t)'
      BY <2>1, AbortType DEF Cut
    <2>4. Live(v)'
      BY <2>1, <2>3 DEF StreamsFit, Live
    <2>5. Past(v)' /\ ModeFits(v)'
      BY <1>m, <2>1, <2>2 DEF StreamsFit, Past, ModeFits
    <2> QED BY <2>4, <2>5 DEF StreamsFit
  <1>5. ASSUME NEW t \in Turns, SpeakToken(v, t)
        PROVE  StreamsFit(v)'
    BY <1>m, <1>5 DEF SpeakToken, StreamsFit, Live, Past, ModeFits, Cut
  <1>6. ASSUME NEW t \in Turns, Fallback(v, t) \/ RefuseFallback(v, t)
        PROVE  StreamsFit(v)'
    <2>1. UNCHANGED <<sock, turn, current, aborted, pending>>
      BY <1>6 DEF Fallback, RefuseFallback
    <2>2. stream[v][t] \in Streaming
      BY <1>6 DEF Fallback, RefuseFallback, Streaming
    <2>3. \A u \in Turns : u # t => stream'[v][u] = stream[v][u]
      BY <1>6, <1>t DEF Fallback, RefuseFallback
    <2>4. stream[v][t] # "none"
      BY <2>2 DEF Streaming
    <2>5. Live(v)'
      BY <2>1, <2>2, <2>3 DEF StreamsFit, Live, Cut
    <2>6. Past(v)'
      BY <2>1, <2>3, <2>4 DEF StreamsFit, Past
    <2>7. ModeFits(v)'
      BY <1>m, <2>1, <2>3, <2>4 DEF StreamsFit, ModeFits
    <2> QED BY <2>5, <2>6, <2>7 DEF StreamsFit
  <1>7. ASSUME NEW t \in Turns,
               \/ FinishStream(v, t) \/ DropStream(v, t) \/ FailStream(v, t)
               \/ CloseRecord(v, t)
        PROVE  StreamsFit(v)'
    <2>1. Leaves(v, t)
      BY <1>7, WaysOut
    <2>2. stream[v][t] # "none"
      BY <1>7 DEF FinishStream, DropStream, FailStream, CloseRecord, Throws
    <2>3. \A u \in Turns : u # t => stream'[v][u] = stream[v][u]
      BY <1>t, <2>1 DEF Leaves
    <2>4. Live(v)'
      <3> SUFFICES ASSUME NEW u \in Turns, stream'[v][u] \in Streaming, ~Cut(v, u)'
                   PROVE  current'[v] = u /\ turn'[v] = u
        BY DEF Live
      <3>1. u # t /\ stream[v][u] \in Streaming /\ ~Cut(v, u)
        BY <2>1, LeavesLive
      <3>2. current[v] = u /\ turn[v] = u
        BY <3>1 DEF StreamsFit, Live
      <3> QED BY <2>1, <3>1, <3>2 DEF Leaves
    <2>5. Past(v)'
      BY <2>1, <2>2, <2>3 DEF Leaves, StreamsFit, Past
    <2>6. ModeFits(v)'
      BY <1>m, <2>1, <2>2, <2>3 DEF Leaves, StreamsFit, ModeFits
    <2> QED BY <2>4, <2>5, <2>6 DEF StreamsFit
  <1> QED BY <1>1, <1>2, <1>3, <1>4, <1>5, <1>6, <1>7, Effect DEF Own

-----------------------------------------------------------------------------
(* What is on the wire.                                                    *)
Answers(w, t, n) ==
  \E i \in 1..n :
    /\ w[i] = Frame("prompt", t)
    /\ \A k \in (i + 1)..n : \/ w[k] = Frame("token", t)
                             \/ w[k].kind = "end" /\ w[k].turn < t
TokensAnswer(w) ==
  \A j \in DOMAIN w : w[j].kind = "token" => Answers(w, w[j].turn, j - 1)
Said(v) ==
  /\ TokensAnswer(wire[v])
  /\ \A t \in Turns : stream[v][t] \in {"primary", "fallback"} /\ ~Cut(v, t)
       => Answers(wire[v], t, Len(wire[v]))

LEMMA AppendIs ==
  ASSUME NEW w \in Seq(Frames), NEW f \in Frames
  PROVE  /\ Append(w, f) \in Seq(Frames) /\ Len(Append(w, f)) = Len(w) + 1
         /\ Append(w, f)[Len(w) + 1] = f /\ Len(w) \in Nat
         /\ \A i \in 1..Len(w) : Append(w, f)[i] = w[i]
         /\ DOMAIN Append(w, f) = 1..(Len(w) + 1) /\ DOMAIN w = 1..Len(w)
         /\ w \o <<f>> = Append(w, f)
  OBVIOUS

LEMMA AnswersKept ==
  ASSUME NEW w \in Seq(Frames), NEW f \in Frames, NEW t, NEW n \in 0..Len(w),
         Answers(w, t, n)
  PROVE  Answers(Append(w, f), t, n)
  <1> DEFINE x == Append(w, f)
  <1>1. Len(w) \in Nat /\ \A i \in 1..Len(w) : x[i] = w[i]
    BY AppendIs
  <1>2. \A i \in 1..n : i \in 1..Len(w)
    BY <1>1
  <1>3. \A i \in 1..n : \A k \in (i + 1)..n : k \in 1..n
    BY <1>1
  <1> HIDE DEF x
  <1>4. Answers(x, t, n)
    BY <1>1, <1>2, <1>3 DEF Answers
  <1> QED BY <1>4 DEF x

LEMMA AnswersOn ==
  ASSUME NEW w \in Seq(Frames), NEW f \in Frames, NEW t, Answers(w, t, Len(w)),
         f = Frame("token", t) \/ (f.kind = "end" /\ f.turn < t)
  PROVE  Answers(Append(w, f), t, Len(w) + 1)
  <1> DEFINE x == Append(w, f)
  <1>1. /\ Len(w) \in Nat /\ \A i \in 1..Len(w) : x[i] = w[i]
        /\ x[Len(w) + 1] = f
    BY AppendIs
  <1> HIDE DEF x
  <1>2. PICK i \in 1..Len(w) :
          /\ w[i] = Frame("prompt", t)
          /\ \A k \in (i + 1)..Len(w) : \/ w[k] = Frame("token", t)
                                        \/ w[k].kind = "end" /\ w[k].turn < t
    BY DEF Answers
  <1>3. i \in 1..(Len(w) + 1) /\ x[i] = Frame("prompt", t)
    BY <1>1, <1>2
  <1>4. ASSUME NEW k \in (i + 1)..(Len(w) + 1)
        PROVE  x[k] = Frame("token", t) \/ (x[k].kind = "end" /\ x[k].turn < t)
    <2>1. CASE k \in (i + 1)..Len(w)
      <3>1. k \in 1..Len(w)
        BY <1>1, <2>1
      <3> QED BY <1>1, <1>2, <2>1, <3>1
    <2>2. CASE k = Len(w) + 1
      BY <1>1, <2>2
    <2> QED BY <1>1, <2>1, <2>2
  <1>5. Answers(x, t, Len(w) + 1)
    BY <1>3, <1>4 DEF Answers
  <1> QED BY <1>5 DEF x

LEMMA AnswersStart ==
  ASSUME NEW w \in Seq(Frames), NEW t, Frame("prompt", t) \in Frames
  PROVE  Answers(Append(w, Frame("prompt", t)), t, Len(w) + 1)
  <1> DEFINE x == Append(w, Frame("prompt", t))
  <1>1. Len(w) \in Nat /\ x[Len(w) + 1] = Frame("prompt", t)
    BY AppendIs
  <1> HIDE DEF x
  <1>2. Len(w) + 1 \in 1..(Len(w) + 1) /\ (Len(w) + 1 + 1)..(Len(w) + 1) = {}
    BY <1>1
  <1>3. Answers(x, t, Len(w) + 1)
    BY <1>1, <1>2 DEF Answers
  <1> QED BY <1>3 DEF x

LEMMA TokensKept ==
  ASSUME NEW w \in Seq(Frames), NEW f \in Frames, TokensAnswer(w),
         f.kind = "token" => Answers(w, f.turn, Len(w))
  PROVE  TokensAnswer(Append(w, f))
  <1> DEFINE x == Append(w, f)
  <1>1. /\ Len(w) \in Nat /\ \A i \in 1..Len(w) : x[i] = w[i]
        /\ x[Len(w) + 1] = f /\ DOMAIN x = 1..(Len(w) + 1)
        /\ DOMAIN w = 1..Len(w)
    BY AppendIs
  <1>2. SUFFICES ASSUME NEW j \in DOMAIN x, x[j].kind = "token"
                 PROVE  Answers(x, x[j].turn, j - 1)
    BY DEF TokensAnswer
  <1>3. CASE j \in 1..Len(w)
    <2>1. Answers(w, w[j].turn, j - 1) /\ x[j] = w[j]
      BY <1>1, <1>2, <1>3 DEF TokensAnswer
    <2>2. j - 1 \in 0..Len(w)
      BY <1>1, <1>3
    <2> QED BY <2>1, <2>2, AnswersKept
  <1>4. CASE j = Len(w) + 1
    <2>1. x[j] = f /\ j - 1 = Len(w) /\ Len(w) \in 0..Len(w)
      BY <1>1, <1>4
    <2>2. Answers(w, f.turn, Len(w))
      BY <1>2, <2>1
    <2>3. Answers(x, f.turn, Len(w))
      BY <2>1, <2>2, AnswersKept
    <2> QED BY <2>1, <2>3
  <1> QED BY <1>1, <1>2, <1>3, <1>4

(* A frame that is no token, at the end of a wire whose streams are cut.   *)
LEMMA SaidWhenCut ==
  ASSUME RelayAssumption, TypeOK, NEW v \in Sockets, Said(v),
         NEW f \in Frames, f.kind # "token",
         wire'[v] = wire[v] \/ wire'[v] = Append(wire[v], f),
         \A t \in Turns : stream'[v][t] \in Streaming => Cut(v, t)'
  PROVE  Said(v)'
  <1>1. wire[v] \in Seq(Frames)
    BY DEF TypeOK
  <1>2. TokensAnswer(wire'[v])
    BY <1>1, TokensKept DEF Said
  <1> QED BY <1>2 DEF Said, Streaming

(* A failing stream writes up to two end frames: its own, and the one of   *)
(* the session it ends, which cuts the session's turn.                     *)
LEMMA FailWire ==
  ASSUME RelayAssumption, TypeOK, NEW v \in Sockets, NEW t \in Turns,
         FailStream(v, t)
  PROVE  LET w == wire[v]
             e == Append(w, Frame("end", t)) IN
         \/ wire'[v] \in {w, e}
         \/ /\ wire'[v] \in {Append(w, Frame("end", turn[v])),
                             Append(e, Frame("end", turn[v]))}
            /\ aborted'[v] = Abort(v)
  <1> DEFINE f == Frame("end", t)
             e == Append(wire[v], f)
             sent == [wire EXCEPT ![v] = Send(v, <<f>>)]
  <1>t. /\ wire \in [Sockets -> Seq(Frames)] /\ wire[v] \in Seq(Frames)
        /\ aborted \in [Sockets -> SUBSET Turns]
    BY DEF TypeOK
  <1>1. f \in Frames
    BY FrameType DEF Turns
  <1> HIDE DEF f
  <1>2. Send(v, <<f>>) \in {wire[v], e}
    BY <1>t, <1>1, AppendIs DEF Send
  <1>3. sent[v] = Send(v, <<f>>) /\ sent \in [Sockets -> Seq(Frames)]
    <2>1. e \in Seq(Frames)
      BY <1>t, <1>1, AppendIs
    <2> QED BY <1>t, <1>2, <2>1
  <1>4. CASE wire' = wire \/ wire' = sent
    BY <1>2, <1>3, <1>4 DEF f
  <1>5. CASE EndSession(v, <<f>>)
    <2>1. CASE registered = NoSocket
      <3>1. wire' = sent
        BY <1>5, <2>1 DEF EndSession
      <3> QED BY <1>4, <3>1
    <2>2. CASE registered # NoSocket /\ registered # v
      <3>1. registered \in Sockets
        BY <2>2 DEF TypeOK
      <3>2. \/ wire' = sent
            \/ wire' = [sent EXCEPT ![registered] = Append(@, Frame("end", turn[registered]))]
        BY <1>5, <2>2 DEF EndSession
      <3>3. wire'[v] = sent[v]
        BY <1>3, <2>2, <3>1, <3>2
      <3> QED BY <1>2, <1>3, <3>3 DEF f
    <2>3. CASE registered = v /\ v # NoSocket
      <3>1. \/ wire' = sent
            \/ wire' = [sent EXCEPT ![v] = Append(@, Frame("end", turn[v]))]
        BY <1>5, <2>3 DEF EndSession
      <3>2. aborted'[v] = Abort(v)
        BY <1>5, <1>t, <2>3 DEF EndSession
      <3>3. \/ wire' = sent
            \/ wire'[v] = Append(sent[v], Frame("end", turn[v]))
        BY <1>3, <3>1
      <3> QED BY <1>2, <1>3, <1>4, <3>2, <3>3 DEF f
    <2> QED BY <2>1, <2>2, <2>3
  <1> QED BY <1>4, <1>5 DEF FailStream, f

LEMMA SaidStep ==
  ASSUME RelayAssumption, TypeOK, NEW v \in Sockets, StreamsFit(v), Said(v),
         [Next]_vars
  PROVE  Said(v)'
  <1>t. /\ wire \in [Sockets -> Seq(Frames)] /\ wire[v] \in Seq(Frames)
        /\ stream \in [Sockets -> [Turns -> StreamStates]]
        /\ turn \in [Sockets -> 0..MaxTurns] /\ turn[v] \in Nat
        /\ current \in [Sockets -> 0..MaxTurns]
        /\ aborted \in [Sockets -> SUBSET Turns]
        /\ Turns \subseteq 0..MaxTurns /\ Turns \subseteq Nat
    BY DEF TypeOK, Turns, RelayAssumption
  <1>k. \A kind \in {"last", "verbatim", "interrupt", "end"}, t \in 0..MaxTurns :
          Frame(kind, t) \in Frames /\ Frame(kind, t).kind # "token"
    BY FrameType DEF Frame
  <1>1. CASE Still(v)
    BY <1>1 DEF Still, Said, Cut
  <1>2. CASE Cuts(v)
    <2>1. \A t \in Turns : stream'[v][t] \in Streaming => Cut(v, t)'
      BY <1>2, CutIsCut DEF StreamsFit
    <2>2. PICK f \in Frames : /\ f.kind # "token"
                              /\ wire'[v] = wire[v] \/ wire'[v] = Append(wire[v], f)
      BY <1>2, <1>k, <1>t DEF Cuts, MoreWire
    <2> QED BY <2>1, <2>2, SaidWhenCut
  <1>3. CASE Prompt(v)
    <2> DEFINE n == turn[v] + 1
    <2>1. n \in Turns
      BY <1>3, RoomForTurn DEF Prompt
    <2>2. /\ aborted'[v] = Abort(v) /\ sock' = sock
          /\ wire'[v] = Append(wire[v], Frame("prompt", n))
      BY <1>3, <1>t DEF Prompt
    <2>3. stream'[v] = stream[v] \/ stream'[v] = [stream[v] EXCEPT ![n] = "primary"]
      BY <1>3, <1>t, <2>1 DEF Prompt, StartTurn
    <2> HIDE DEF n
    <2>4. Frame("prompt", n) \in Frames /\ Frame("prompt", n).kind # "token"
      BY <1>t, <2>1, FrameType DEF Frame
    <2>5. TokensAnswer(wire'[v])
      BY <1>t, <2>2, <2>4, TokensKept DEF Said
    <2>6. ASSUME NEW u \in Turns, stream'[v][u] \in {"primary", "fallback"}, ~Cut(v, u)'
          PROVE  Answers(wire'[v], u, Len(wire'[v]))
      <3>1. Len(wire'[v]) = Len(wire[v]) + 1
        BY <1>t, <2>2, <2>4, AppendIs
      <3>2. u = n
        <4>1. u # n => stream[v][u] \in Streaming
          BY <1>t, <2>3, <2>6 DEF Streaming
        <4>2. ~Cut(v, u)
          BY <2>2, <2>6, AbortType DEF Cut
        <4>3. u # n => current[v] = u /\ u # 0
          BY <4>1, <4>2 DEF StreamsFit, Live, Turns
        <4>4. current[v] = u /\ u # 0 => u \in aborted'[v]
          BY <2>2 DEF Abort
        <4> QED BY <2>6, <4>3, <4>4 DEF Cut
      <3>3. Answers(wire'[v], n, Len(wire[v]) + 1)
        BY <1>t, <2>2, <2>4, AnswersStart
      <3> QED BY <3>1, <3>2, <3>3
    <2> QED BY <2>5, <2>6 DEF Said
  <1>4. CASE SendText(v)
    <2>1. UNCHANGED <<turn, current, stream, sock>> /\ aborted'[v] = Abort(v)
      BY <1>4, <1>t DEF SendText
    <2>2. wire'[v] = Send(v, <<Frame("verbatim", turn[v])>>)
      BY <1>4, <1>t DEF SendText
    <2>3. Frame("verbatim", turn[v]) \in Frames
      BY <1>k, <1>t
    <2>4. wire'[v] = wire[v] \/ wire'[v] = Append(wire[v], Frame("verbatim", turn[v]))
      BY <1>t, <2>2, <2>3, AppendIs DEF Send
    <2>5. Cuts(v)
      BY <2>1, <2>4 DEF Cuts, MoreWire
    <2> QED BY <1>2, <2>5
  <1>5. ASSUME NEW t \in Turns, SpeakToken(v, t)
        PROVE  Said(v)'
    <2>1. /\ stream[v][t] \in {"primary", "fallback"} /\ ~Cut(v, t)
          /\ UNCHANGED <<stream, sock, aborted>>
      BY <1>5 DEF SpeakToken
    <2>2. Answers(wire[v], t, Len(wire[v]))
      BY <2>1 DEF Said
    <2>3. Frame("token", t) \in Frames /\ Frame("token", t).turn = t
      BY <1>t, FrameType DEF Frame
    <2>4. wire'[v] = wire[v] \/ wire'[v] = Append(wire[v], Frame("token", t))
      BY <1>5, <1>t, <2>3, AppendIs DEF SpeakToken, Send
    <2>5. CASE wire'[v] = wire[v]
      BY <2>1, <2>5 DEF Said, Cut
    <2>6. CASE wire'[v] = Append(wire[v], Frame("token", t))
      <3>1. TokensAnswer(wire'[v])
        BY <1>t, <2>2, <2>3, <2>6, TokensKept DEF Said
      <3>2. ASSUME NEW u \in Turns, stream'[v][u] \in {"primary", "fallback"}, ~Cut(v, u)'
            PROVE  Answers(wire'[v], u, Len(wire'[v]))
        <4>1. stream[v][u] \in Streaming /\ ~Cut(v, u) /\ stream[v][t] \in Streaming
          BY <2>1, <3>2 DEF Cut, Streaming
        <4>2. u = t
          BY <2>1, <4>1 DEF StreamsFit, Live
        <4>3. Len(wire'[v]) = Len(wire[v]) + 1
          BY <1>t, <2>3, <2>6, AppendIs
        <4>4. Answers(wire'[v], t, Len(wire[v]) + 1)
          BY <1>t, <2>2, <2>3, <2>6, AnswersOn
        <4> QED BY <4>2, <4>3, <4>4
      <3> QED BY <3>1, <3>2 DEF Said
    <2> QED BY <2>4, <2>5, <2>6
  <1>6. ASSUME NEW t \in Turns, FinishStream(v, t)
        PROVE  Said(v)'
    <2>1. Leaves(v, t) /\ stream[v][t] \in Streaming /\ ~Cut(v, t)
      BY <1>6, WaysOut DEF FinishStream, Streaming
    <2>2. ASSUME NEW u \in Turns, stream'[v][u] \in Streaming, ~Cut(v, u)'
          PROVE  FALSE
      <3>1. u # t /\ stream[v][u] \in Streaming /\ ~Cut(v, u)
        BY <2>1, <2>2, LeavesLive
      <3> QED BY <2>1, <3>1 DEF StreamsFit, Live
    <2>3. wire'[v] = wire[v] \/ wire'[v] = Append(wire[v], Frame("last", t))
      <3>1. Frame("last", t) \in Frames
        BY <1>k, <1>t
      <3> QED BY <1>6, <1>t, <3>1, AppendIs DEF FinishStream, Send
    <2>4. Frame("last", t) \in Frames /\ Frame("last", t).kind # "token"
      BY <1>k, <1>t
    <2> QED BY <2>2, <2>3, <2>4, SaidWhenCut
  <1>7. ASSUME NEW t \in Turns,
               \/ DropStream(v, t) \/ CloseRecord(v, t)
        PROVE  Said(v)'
    <2>1. Leaves(v, t) /\ wire' = wire
      BY <1>7, WaysOut DEF DropStream, CloseRecord
    <2>2. ASSUME NEW u \in Turns, stream'[v][u] \in {"primary", "fallback"}, ~Cut(v, u)'
          PROVE  Answers(wire'[v], u, Len(wire'[v]))
      <3>1. stream[v][u] = stream'[v][u] /\ ~Cut(v, u)
        BY <2>1, <2>2, LeavesLive DEF Streaming
      <3> QED BY <2>1, <2>2, <3>1 DEF Said
    <2> QED BY <2>1, <2>2 DEF Said
  <1>8. ASSUME NEW t \in Turns, Fallback(v, t) \/ RefuseFallback(v, t)
        PROVE  Said(v)'
    <2>1. UNCHANGED <<sock, aborted, wire>>
      BY <1>8 DEF Fallback, RefuseFallback
    <2>2. stream[v][t] \in {"primary", "fallback"}
      BY <1>8 DEF Fallback, RefuseFallback
    <2>3. \A u \in Turns : u # t => stream'[v][u] = stream[v][u]
      BY <1>8, <1>t DEF Fallback, RefuseFallback
    <2> QED BY <2>1, <2>2, <2>3 DEF Said, Cut
  <1>9. ASSUME NEW t \in Turns, FailStream(v, t)
        PROVE  Said(v)'
    <2> DEFINE w == wire[v]
               f == Frame("end", t)
               g == Frame("end", turn[v])
               e == Append(w, f)
    <2>1. Leaves(v, t) /\ stream[v][t] \in Streaming
      BY <1>9, WaysOut DEF FailStream, Throws, Streaming
    <2>2. f \in Frames /\ g \in Frames /\ f.kind = "end" /\ g.kind = "end" /\ f.turn = t
      BY <1>k, <1>t DEF Frame
    <2>3. w \in Seq(Frames) /\ e \in Seq(Frames)
      BY <1>t, <2>2, AppendIs
    <2>4. TokensAnswer(w) /\ TokensAnswer(e)
      BY <2>2, <2>3, TokensKept DEF Said
    <2>5. TokensAnswer(Append(w, g)) /\ TokensAnswer(Append(e, g))
      BY <2>2, <2>3, <2>4, TokensKept
    <2>6. TokensAnswer(wire'[v])
      BY <1>9, <2>4, <2>5, FailWire
    <2>7. ASSUME NEW u \in Turns, stream'[v][u] \in {"primary", "fallback"}, ~Cut(v, u)'
          PROVE  Answers(wire'[v], u, Len(wire'[v]))
      <3>1. u # t /\ stream[v][u] = stream'[v][u] /\ ~Cut(v, u)
        BY <2>1, <2>7, LeavesLive DEF Streaming
      <3>2. current[v] = u /\ turn[v] = u /\ u # 0
        BY <2>7, <3>1 DEF StreamsFit, Live, Streaming, Turns
      <3>3. t < u
        <4>1. stream[v][t] # "none"
          BY <2>1 DEF Streaming
        <4>2. t <= turn[v]
          BY <4>1 DEF StreamsFit, Past
        <4>3. t \in Nat /\ u \in Nat
          BY <1>t
        <4> QED BY <3>1, <3>2, <4>2, <4>3
      <3>4. aborted'[v] # Abort(v)
        BY <2>7, <3>2 DEF Abort, Cut
      <3>5. wire'[v] \in {w, e}
        BY <1>9, <3>4, FailWire
      <3>6. Answers(w, u, Len(w))
        BY <2>7, <3>1 DEF Said
      <3> HIDE DEF w, f
      <3>7. Answers(e, u, Len(w) + 1) /\ Len(e) = Len(w) + 1
        BY <2>2, <2>3, <3>3, <3>6, AnswersOn, AppendIs
      <3> QED BY <3>5, <3>6, <3>7
    <2> QED BY <2>6, <2>7 DEF Said
  <1>10. Silences(v) => Cuts(v)
    BY DEF Silences
  <1> QED BY <1>1, <1>2, <1>3, <1>4, <1>5, <1>6, <1>7, <1>8, <1>9, <1>10, Effect
          DEF Own

-----------------------------------------------------------------------------
(* A turn that was timed has its reply: its stream is over, or the host's  *)
(* answer to it is no longer awaited.                                      *)
Timed(v) ==
  /\ pending[v] <= turn[v]
  /\ \A t \in Turns :
       /\ timed[v][t] <= 1
       /\ timed[v][t] = 1 => /\ t <= turn[v] /\ pending[v] # t
                             /\ mode = "byo-model" => stream[v][t] = "over"

LEMMA TimedKept ==
  ASSUME RelayAssumption, TypeOK, NEW v \in Sockets, Timed(v),
         mode' = mode, timed'[v] = timed[v],
         turn'[v] \in Nat, turn[v] <= turn'[v],
         \/ pending'[v] \in {pending[v], 0}
         \/ turn[v] < pending'[v] /\ pending'[v] <= turn'[v],
         \A t \in Turns : stream[v][t] = "over" => stream'[v][t] = "over"
  PROVE  Timed(v)'
  <1>1. SUFFICES ASSUME NEW t \in Turns
                 PROVE  /\ timed'[v][t] <= 1
                        /\ timed'[v][t] = 1 =>
                             /\ t <= turn'[v] /\ pending'[v] # t
                             /\ mode' = "byo-model" => stream'[v][t] = "over"
    <2>1. pending[v] <= turn[v] /\ turn[v] \in Nat /\ pending[v] \in Nat
      BY DEF TypeOK, Timed, RelayAssumption
    <2>2. pending'[v] <= turn'[v]
      BY <2>1
    <2> QED BY <2>2 DEF Timed
  <1>2. t \in Nat /\ t # 0 /\ turn[v] \in Nat
    BY DEF TypeOK, Turns, RelayAssumption
  <1>3. timed[v][t] <= 1
    BY DEF Timed
  <1>4. ASSUME timed[v][t] = 1
        PROVE  /\ t <= turn'[v] /\ pending'[v] # t
               /\ mode = "byo-model" => stream'[v][t] = "over"
    <2>1. /\ t <= turn[v] /\ pending[v] # t
          /\ mode = "byo-model" => stream[v][t] = "over"
      BY <1>4 DEF Timed
    <2>2. t <= turn'[v]
      BY <1>2, <2>1
    <2>3. pending'[v] # t
      BY <1>2, <2>1
    <2> QED BY <2>1, <2>2, <2>3
  <1> QED BY <1>3, <1>4

(* One turn is timed, for the first time.                                  *)
LEMMA TimedNow ==
  ASSUME RelayAssumption, TypeOK, NEW v \in Sockets, Timed(v),
         NEW t \in Turns, timed[v][t] = 0, t <= turn[v],
         mode' = mode, turn' = turn,
         timed' \in {timed, [timed EXCEPT ![v][t] = @ + 1]},
         pending'[v] \in {pending[v], 0}, pending'[v] # t,
         mode = "byo-model" => stream'[v][t] = "over",
         \A u \in Turns : stream[v][u] = "over" => stream'[v][u] = "over"
  PROVE  Timed(v)'
  <1>t. timed \in [Sockets -> [Turns -> Nat]]
    BY DEF TypeOK
  <1>1. SUFFICES ASSUME NEW u \in Turns
                 PROVE  /\ timed'[v][u] <= 1
                        /\ timed'[v][u] = 1 =>
                             /\ u <= turn'[v] /\ pending'[v] # u
                             /\ mode' = "byo-model" => stream'[v][u] = "over"
    <2>1. pending[v] <= turn[v] /\ turn[v] \in Nat
      BY DEF TypeOK, Timed, RelayAssumption
    <2>2. pending'[v] <= turn'[v]
      BY <2>1
    <2> QED BY <2>2 DEF Timed
  <1>2. CASE u = t
    <2>1. timed'[v][u] \in {0, 1}
      BY <1>t, <1>2
    <2>2. timed'[v][u] <= 1
      BY <2>1
    <2> QED BY <1>2, <2>2
  <1>3. CASE u # t
    <2>1. timed'[v][u] = timed[v][u]
      BY <1>t, <1>3
    <2>2. u # 0
      BY DEF Turns
    <2> QED BY <2>1, <2>2 DEF Timed
  <1> QED BY <1>2, <1>3

LEMMA TimedStep ==
  ASSUME RelayAssumption, TypeOK, NEW v \in Sockets, StreamsFit(v), Timed(v),
         [Next]_vars
  PROVE  Timed(v)'
  <1>m. mode' = mode /\ mode \in {"direct", "byo-model"}
    BY Effect, ModeIs
  <1>t. /\ stream \in [Sockets -> [Turns -> StreamStates]]
        /\ turn \in [Sockets -> 0..MaxTurns] /\ turn[v] \in Nat
        /\ pending \in [Sockets -> 0..MaxTurns]
        /\ timed \in [Sockets -> [Turns -> Nat]]
        /\ Turns \subseteq 0..MaxTurns /\ Turns \subseteq Nat
    BY DEF TypeOK, Turns, RelayAssumption
  <1>l. turn[v] <= turn[v]
    BY <1>t
  <1>1. CASE Still(v)
    BY <1>m, <1>t, <1>l, <1>1, TimedKept DEF Still
  <1>2. CASE Silences(v)
    BY <1>m, <1>t, <1>l, <1>2, TimedKept DEF Silences, Cuts
  <1>3. CASE Prompt(v)
    <2> DEFINE n == turn[v] + 1
    <2>1. n \in Turns /\ n \in Nat /\ turn[v] < n /\ turn[v] <= n /\ n <= n
      BY <1>3, <1>t, RoomForTurn DEF Prompt
    <2>2. /\ timed' = timed /\ turn'[v] = n
          /\ pending'[v] = pending[v] \/ pending'[v] = n
      BY <1>3, <1>t, <2>1 DEF Prompt, StartTurn
    <2>3. \/ stream' = stream
          \/ /\ stream'[v] = [stream[v] EXCEPT ![n] = "primary"]
             /\ mode = "byo-model"
      BY <1>3, <1>t, <2>1 DEF Prompt, StartTurn, gatewayDrivesTurns
    <2> HIDE DEF n
    <2>4. ASSUME NEW t \in Turns, stream[v][t] = "over"
          PROVE  stream'[v][t] = "over"
      <3>1. t <= turn[v]
        BY <2>4 DEF StreamsFit, Past
      <3>2. t # n
        BY <1>t, <2>1, <3>1
      <3> QED BY <1>t, <2>3, <2>4, <3>2
    <2> QED BY <1>m, <2>1, <2>2, <2>4, TimedKept
  <1>4. CASE SendText(v)
    <2> DEFINE t == IF hostAnswersTurns THEN pending[v] ELSE 0
    <2>1. UNCHANGED <<turn, stream>>
      BY <1>4 DEF SendText
    <2>2. CASE t = 0
      <3>1. UNCHANGED <<timed, pending>>
        BY <1>4, <2>2 DEF SendText
      <3> QED BY <1>m, <1>t, <1>l, <2>1, <3>1, TimedKept
    <2>3. CASE t # 0
      <3>1. t = pending[v] /\ mode = "direct"
        BY <2>3 DEF hostAnswersTurns
      <3>2. t \in Turns /\ pending[v] # 0
        BY <1>t, <2>3, <3>1 DEF Turns
      <3>3. timed' \in {timed, [timed EXCEPT ![v][t] = @ + 1]}
        BY <1>4, <2>3 DEF SendText, EmitTiming
      <3>4. pending'[v] = 0
        BY <1>4, <1>t, <2>3 DEF SendText
      <3>5. timed[v][t] = 0
        <4>1. timed[v][t] # 1 /\ timed[v][t] <= 1
          BY <3>1, <3>2 DEF Timed
        <4>2. timed[v][t] \in Nat
          BY <1>t, <3>2
        <4> HIDE DEF t
        <4> QED BY <4>1, <4>2
      <3>6. t <= turn[v]
        BY <3>1 DEF Timed
      <3> HIDE DEF t
      <3> QED BY <1>m, <2>1, <2>3, <3>1, <3>2, <3>3, <3>4, <3>5, <3>6, TimedNow
    <2> QED BY <2>2, <2>3
  <1>5. ASSUME NEW t \in Turns, SpeakToken(v, t)
        PROVE  Timed(v)'
    <2>1. UNCHANGED <<timed, turn, pending, stream>>
      BY <1>5 DEF SpeakToken
    <2> QED BY <1>m, <1>t, <1>l, <2>1, TimedKept
  <1>6. ASSUME NEW t \in Turns, Fallback(v, t) \/ RefuseFallback(v, t)
        PROVE  Timed(v)'
    <2>1. UNCHANGED <<timed, turn, pending>>
      BY <1>6 DEF Fallback, RefuseFallback, service
    <2>2. \A u \in Turns : stream[v][u] = "over" => stream'[v][u] = "over"
      BY <1>6, <1>t DEF Fallback, RefuseFallback
    <2> QED BY <1>m, <1>t, <1>l, <2>1, <2>2, TimedKept
  <1>7. ASSUME NEW t \in Turns,
               DropStream(v, t) \/ FailStream(v, t) \/ CloseRecord(v, t)
        PROVE  Timed(v)'
    <2>1. Leaves(v, t) /\ timed' = timed
      BY <1>7, WaysOut DEF DropStream, FailStream, CloseRecord, service
    <2>2. stream[v][t] # "over"
      BY <1>7 DEF DropStream, FailStream, CloseRecord, Throws
    <2>3. \A u \in Turns : stream[v][u] = "over" => stream'[v][u] = "over"
      BY <1>t, <2>1, <2>2 DEF Leaves
    <2> QED BY <1>m, <1>t, <1>l, <2>1, <2>3, TimedKept DEF Leaves
  <1>8. ASSUME NEW t \in Turns, FinishStream(v, t)
        PROVE  Timed(v)'
    <2>1. stream[v][t] \in {"primary", "fallback"} /\ UNCHANGED <<turn, pending>>
      BY <1>8 DEF FinishStream
    <2>2. mode = "byo-model" /\ pending[v] = 0
      BY <1>m, <2>1 DEF StreamsFit, ModeFits
    <2>3. timed[v][t] = 0
      <3>1. timed[v][t] # 1 /\ timed[v][t] <= 1
        BY <2>1, <2>2 DEF Timed
      <3>2. timed[v][t] \in Nat
        BY <1>t
      <3> QED BY <3>1, <3>2
    <2>4. t <= turn[v] /\ t # 0
      BY <2>1 DEF StreamsFit, Past, Turns
    <2>5. timed' \in {timed, [timed EXCEPT ![v][t] = @ + 1]}
      BY <1>8 DEF FinishStream, EmitTiming
    <2>6. stream' = [stream EXCEPT ![v][t] = "over"]
      BY <1>8 DEF FinishStream, Finish
    <2>7. \A u \in Turns : /\ stream[v][u] = "over" => stream'[v][u] = "over"
                           /\ stream'[v][t] = "over"
      BY <1>t, <2>6
    <2> QED BY <1>m, <2>1, <2>2, <2>3, <2>4, <2>5, <2>7, TimedNow
  <1> QED BY <1>1, <1>2, <1>3, <1>4, <1>5, <1>6, <1>7, <1>8, Effect DEF Own

-----------------------------------------------------------------------------
(* The registered session's socket is one the carrier still holds.         *)
LEMMA RegisteredStep ==
  ASSUME RelayAssumption, TypeOK, RegisteredIsOpen, [Next]_vars
  PROVE  RegisteredIsOpen'
  <1>t. /\ sock \in [Sockets -> {"none", "open", "closing", "closed"}]
        /\ registered \in Sockets \cup {NoSocket} /\ NoSocket \notin Sockets
    BY DEF TypeOK, RelayAssumption
  <1>1. ASSUME NEW s \in Sockets, Attach(s)
        PROVE  RegisteredIsOpen'
    BY <1>t, <1>1 DEF Attach, RegisteredIsOpen, Receives
  <1>2. ASSUME NEW s \in Sockets, SetupMismatch(s)
        PROVE  RegisteredIsOpen'
    BY <1>t, <1>2 DEF SetupMismatch, RegisteredIsOpen, Receives, service
  <1>3. ASSUME registered' = NoSocket
        PROVE  RegisteredIsOpen'
    BY <1>3 DEF RegisteredIsOpen
  <1>4. ASSUME registered' = registered, sock' = sock
        PROVE  RegisteredIsOpen'
    BY <1>4 DEF RegisteredIsOpen, Receives
  <1>5. ASSUME registered' = registered, NEW s \in Sockets, NEW before,
               EndSession(s, before)
        PROVE  RegisteredIsOpen'
    <2>1. \/ sock' = sock
          \/ sock' = [sock EXCEPT ![registered] = IF @ = "open" THEN "closing" ELSE @]
      BY <1>5 DEF EndSession
    <2> QED BY <1>t, <1>5, <2>1 DEF RegisteredIsOpen, Receives
  <1>6. ASSUME NEW s \in Sockets, NEW t \in Turns, FailStream(s, t)
        PROVE  RegisteredIsOpen'
    <2>1. registered' = registered
      BY <1>6 DEF FailStream, service
    <2>2. sock' = sock \/ EndSession(s, <<Frame("end", t)>>)
      BY <1>6 DEF FailStream
    <2> QED BY <1>4, <1>5, <2>1, <2>2
  <1>7. CASE EndCall
    <2>1. registered' = registered
      BY <1>7 DEF EndCall
    <2>2. sock' = sock \/ (registered \in Sockets /\ EndSession(registered, <<>>))
      BY <1>t, <1>7 DEF EndCall
    <2> QED BY <1>4, <1>5, <2>1, <2>2
  <1>8. ASSUME NEW s \in Sockets, SocketClosed(s)
        PROVE  RegisteredIsOpen'
    BY <1>3, <1>8 DEF SocketClosed
  <1>9. CASE Shutdown
    BY <1>3, <1>9 DEF Shutdown
  <1>10. ASSUME NEW s \in Sockets, Prompt(s) \/ SendText(s)
         PROVE  RegisteredIsOpen'
    BY <1>4, <1>10 DEF Prompt, SendText
  <1>11. ASSUME NEW s \in Sockets, NEW heard \in BOOLEAN, Interrupt(s, heard)
         PROVE  RegisteredIsOpen'
    BY <1>4, <1>11 DEF Interrupt
  <1>12. ASSUME NEW s \in Sockets, NEW t \in Turns,
                \/ SpeakToken(s, t) \/ FinishStream(s, t) \/ DropStream(s, t)
                \/ Fallback(s, t) \/ RefuseFallback(s, t) \/ CloseRecord(s, t)
         PROVE  RegisteredIsOpen'
    BY <1>4, <1>12 DEF SpeakToken, FinishStream, DropStream, Fallback,
                       RefuseFallback, CloseRecord, service
  <1>13. CASE EndCallDone \/ CarrierEnds \/ UNCHANGED vars
    BY <1>4, <1>13 DEF EndCallDone, CarrierEnds, vars, service, session
  <1>14. Talking \subseteq Sockets
    BY DEF RelayAssumption
  <1> QED BY <1>1, <1>2, <1>6, <1>7, <1>8, <1>9, <1>10, <1>11, <1>12, <1>13,
             <1>14
          DEF Next, LlmStep

-----------------------------------------------------------------------------

(* What is on record.  A socket that was never opened has no stream; the   *)
(* text so far of a stream that may still finish is what it sent; a reply  *)
(* on record is of a stream that is over.                                  *)
Unspoken(v) == sock[v] = "none" => \A t \in Turns : stream[v][t] = "none"
Counted(v) ==
  sock[v] = "open" =>
    \A t \in Turns : stream[v][t] \in {"primary", "fallback"} /\ ~Cut(v, t)
      => partial[v] = Tokens(v, t)
RecordedOn(h, w, st, open) ==
  \A i \in DOMAIN h : h[i].how = "full" =>
    /\ h[i].turn \in Turns /\ st[h[i].turn] = "over"
    /\ open => h[i].tokens = Cardinality(Spoken(w, h[i].turn))
    /\ \A j \in DOMAIN h : h[j].how = "full" /\ h[j].turn = h[i].turn => i = j
Recorded(v) == RecordedOn(history[v], wire[v], stream[v], sock[v] = "open")
InTurn(h, n) ==
  /\ \A i \in DOMAIN h : h[i].turn <= n
  /\ \A i, j \in DOMAIN h :
       i < j => /\ h[i].turn <= h[j].turn
                /\ h[j].role = "user" => h[i].turn < h[j].turn
NoneAhead(v) == \A t \in Turns : turn[v] < t => Spoken(wire[v], t) = {}
Told(v) ==
  /\ Unspoken(v) /\ Counted(v) /\ Recorded(v)
  /\ InTurn(history[v], turn[v]) /\ NoneAhead(v)

LEMMA SpokenOn ==
  ASSUME NEW w \in Seq(Frames), NEW f \in Frames, NEW t
  PROVE  /\ f # Frame("token", t) => Spoken(Append(w, f), t) = Spoken(w, t)
         /\ f = Frame("token", t) =>
              Cardinality(Spoken(Append(w, f), t)) = Cardinality(Spoken(w, t)) + 1
         /\ Cardinality(Spoken(w, t)) \in Nat
  <1> DEFINE x == Append(w, f)
  <1>1. /\ Len(w) \in Nat /\ \A j \in 1..Len(w) : x[j] = w[j]
        /\ x[Len(w) + 1] = f /\ DOMAIN x = 1..(Len(w) + 1)
        /\ DOMAIN w = 1..Len(w)
    BY AppendIs
  <1> HIDE DEF x
  <1>2. f # Frame("token", t) => Spoken(x, t) = Spoken(w, t)
    BY <1>1 DEF Spoken
  <1>3. f = Frame("token", t) => Spoken(x, t) = Spoken(w, t) \cup {Len(w) + 1}
    BY <1>1 DEF Spoken
  <1>4. IsFiniteSet(Spoken(w, t)) /\ Len(w) + 1 \notin Spoken(w, t)
    <2>1. Spoken(w, t) \subseteq 1..Len(w) /\ Len(w) + 1 \notin 1..Len(w)
      BY <1>1 DEF Spoken
    <2>2. IsFiniteSet(1..Len(w))
      BY <1>1, FS_Interval
    <2> QED BY <2>1, <2>2, FS_Subset
  <1>5. /\ Cardinality(Spoken(w, t) \cup {Len(w) + 1}) = Cardinality(Spoken(w, t)) + 1
        /\ Cardinality(Spoken(w, t)) \in Nat
    BY <1>4, FS_AddElement, FS_CardinalityType
  <1> QED BY <1>2, <1>3, <1>5 DEF x

LEMMA InTurnOn ==
  ASSUME NEW h \in Seq(Lines), NEW l \in Lines, NEW m \in Nat, NEW n \in Nat,
         InTurn(h, m), m <= l.turn, l.turn <= n, l.role = "user" => m < l.turn,
         MaxTurns \in Nat
  PROVE  InTurn(Append(h, l), n)
  <1> DEFINE x == Append(h, l)
  <1>0. \A k \in Lines : k.turn \in Nat
    BY DEF Lines
  <1>a. /\ Len(h) \in Nat /\ \A j \in 1..Len(h) : x[j] = h[j] /\ h[j] \in Lines
        /\ x[Len(h) + 1] = l /\ DOMAIN x = 1..(Len(h) + 1)
        /\ DOMAIN h = 1..Len(h)
    OBVIOUS
  <1>1. /\ Len(h) \in Nat /\ \A j \in 1..Len(h) : x[j] = h[j] /\ x[j].turn \in Nat
        /\ x[Len(h) + 1] = l /\ DOMAIN x = 1..(Len(h) + 1)
        /\ DOMAIN h = 1..Len(h) /\ l.turn \in Nat
    <2> HIDE DEF x
    <2> QED BY <1>0, <1>a
  <1> HIDE DEF x
  <1>2. \A j \in 1..Len(h) : x[j].turn <= m
    BY <1>1 DEF InTurn
  <1>3. \A j \in DOMAIN x : x[j].turn <= n
    BY <1>1, <1>2
  <1>4. ASSUME NEW i \in DOMAIN x, NEW j \in DOMAIN x, i < j
        PROVE  /\ x[i].turn <= x[j].turn
               /\ x[j].role = "user" => x[i].turn < x[j].turn
    <2>1. i \in 1..Len(h)
      BY <1>1, <1>4
    <2>2. CASE j \in 1..Len(h)
      BY <1>1, <1>4, <2>1, <2>2 DEF InTurn
    <2>3. CASE j = Len(h) + 1
      BY <1>1, <1>2, <2>1, <2>3
    <2> QED BY <1>1, <2>2, <2>3
  <1>5. InTurn(x, n)
    BY <1>3, <1>4 DEF InTurn
  <1> QED BY <1>5 DEF x

LEMMA LineIs ==
  ASSUME NEW t \in 0..MaxTurns, NEW n \in Nat, NEW role \in {"user", "assistant"},
         NEW how \in {"said", "full", "cut", "verbatim"}
  PROVE  /\ Line(role, t, how, n) \in Lines
         /\ Line(role, t, how, n).turn = t /\ Line(role, t, how, n).role = role
         /\ Line(role, t, how, n).how = how /\ Line(role, t, how, n).tokens = n
  BY DEF Line, Lines

(* A step that leaves the full replies, and the streams they came from.    *)
LEMMA RecordedKept ==
  ASSUME NEW h, NEW x, NEW w, NEW z, NEW st, NEW su, NEW o, NEW p,
         RecordedOn(h, w, st, o),
         \A i \in DOMAIN x : x[i].how = "full" => i \in DOMAIN h /\ x[i] = h[i],
         \A t \in Turns : st[t] = "over" =>
           su[t] = "over" /\ Spoken(z, t) = Spoken(w, t) /\ (p => o)
  PROVE  RecordedOn(x, z, su, p)
  <1> SUFFICES ASSUME NEW i \in DOMAIN x, x[i].how = "full"
               PROVE  /\ x[i].turn \in Turns /\ su[x[i].turn] = "over"
                      /\ p => x[i].tokens = Cardinality(Spoken(z, x[i].turn))
                      /\ \A j \in DOMAIN x :
                           x[j].how = "full" /\ x[j].turn = x[i].turn => i = j
    BY Zenon DEF RecordedOn
  <1>1. i \in DOMAIN h /\ x[i] = h[i] /\ h[i].how = "full"
    OBVIOUS
  <1>2. /\ h[i].turn \in Turns /\ st[h[i].turn] = "over"
        /\ o => h[i].tokens = Cardinality(Spoken(w, h[i].turn))
        /\ \A j \in DOMAIN h : h[j].how = "full" /\ h[j].turn = h[i].turn => i = j
    BY <1>1, Zenon DEF RecordedOn
  <1>3. /\ su[h[i].turn] = "over" /\ Spoken(z, h[i].turn) = Spoken(w, h[i].turn)
        /\ p => o
    BY <1>2, Zenon
  <1>4. p => x[i].tokens = Cardinality(Spoken(z, x[i].turn))
    <2>1. Cardinality(Spoken(z, h[i].turn)) = Cardinality(Spoken(w, h[i].turn))
      BY <1>3, Zenon
    <2> QED BY <1>1, <1>2, <1>3, <2>1, Zenon
  <1>5. ASSUME NEW j \in DOMAIN x, x[j].how = "full", x[j].turn = x[i].turn
        PROVE  i = j
    BY <1>1, <1>2, <1>5
  <1> QED BY <1>1, <1>2, <1>3, <1>4, <1>5, Zenon

(* What an action that says nothing of its own is to the record of v.      *)
Adds(v, l) == history'[v] = Append(history[v], l)
NewLine(v) ==
  \/ history'[v] = history[v]
  \/ \E how \in {"cut", "verbatim"} : Adds(v, Line("assistant", turn[v], how, 0))
SockOn(v) ==
  /\ sock'[v] = "open" => sock[v] \in {"none", "open"}
  /\ sock'[v] = "none" => sock[v] = "none"
Speaking(v, t) == stream[v][t] \in {"primary", "fallback"} /\ ~Cut(v, t)
Aside(v) ==
  /\ turn'[v] = turn[v] /\ NewLine(v) /\ SockOn(v)
  /\ \A t \in Turns :
       /\ Spoken(wire'[v], t) = Spoken(wire[v], t)
       /\ stream[v][t] = "over" => stream'[v][t] = "over"
       /\ stream[v][t] = "none" => stream'[v][t] = "none"
       /\ Speaking(v, t)' => Speaking(v, t) /\ partial'[v] = partial[v]

LEMMA ToldAside ==
  ASSUME RelayAssumption, TypeOK, NEW v \in Sockets, Told(v), Aside(v)
  PROVE  Told(v)'
  <1>t. /\ history[v] \in Seq(Lines) /\ wire[v] \in Seq(Frames)
        /\ turn[v] \in 0..MaxTurns /\ turn[v] \in Nat /\ turn[v] <= turn[v]
        /\ 0 \in Nat /\ MaxTurns \in Nat
    BY DEF TypeOK, RelayAssumption
  <1>1. Unspoken(v)'
    BY DEF Told, Unspoken, Aside, SockOn
  <1>2. Counted(v)'
    <2> SUFFICES ASSUME sock'[v] = "open", NEW t \in Turns, Speaking(v, t)'
                 PROVE  partial'[v] = Tokens(v, t)'
      BY DEF Counted, Speaking
    <2>1. Speaking(v, t) /\ partial'[v] = partial[v]
      BY DEF Aside
    <2>2. sock[v] = "open"
      BY <2>1 DEF Aside, SockOn, Told, Unspoken, Speaking
    <2>3. partial[v] = Tokens(v, t)
      BY <2>1, <2>2 DEF Told, Counted, Speaking
    <2>4. Tokens(v, t)' = Tokens(v, t)
      BY DEF Aside, Tokens
    <2> QED BY <2>1, <2>3, <2>4
  <1>3. /\ DOMAIN history[v] \subseteq DOMAIN history'[v]
        /\ \A i \in DOMAIN history'[v] : history'[v][i].how = "full" =>
             i \in DOMAIN history[v] /\ history'[v][i] = history[v][i]
    <2>1. CASE history'[v] = history[v]
      BY <2>1
    <2>2. ASSUME NEW how \in {"cut", "verbatim"},
                 Adds(v, Line("assistant", turn[v], how, 0))
          PROVE  <1>3
      <3> DEFINE l == Line("assistant", turn[v], how, 0)
      <3>1. l \in Lines /\ l.how = how
        BY <1>t, LineIs
      <3> HIDE DEF l
      <3>2. history'[v] = Append(history[v], l)
        BY <2>2 DEF Adds, l
      <3> QED BY <1>t, <3>1, <3>2
    <2> QED BY <2>1, <2>2 DEF Aside, NewLine
  <1>4. Recorded(v)'
    <2>1. Recorded(v)
      BY DEF Told
    <2>2. \A t \in Turns : stream[v][t] = "over" =>
            /\ stream'[v][t] = "over" /\ Spoken(wire'[v], t) = Spoken(wire[v], t)
            /\ sock'[v] = "open" => sock[v] = "open"
      BY DEF Aside, SockOn, Told, Unspoken
    <2> QED BY <1>3, <2>1, <2>2, RecordedKept DEF Recorded
  <1>5. InTurn(history[v], turn[v])'
    <2>1. InTurn(history[v], turn[v]) /\ turn'[v] = turn[v]
      BY DEF Told, Aside
    <2>2. CASE history'[v] = history[v]
      BY <2>1, <2>2
    <2>3. ASSUME NEW how \in {"cut", "verbatim"},
                 Adds(v, Line("assistant", turn[v], how, 0))
          PROVE  InTurn(history'[v], turn'[v])
      <3> DEFINE l == Line("assistant", turn[v], how, 0)
      <3>1. l \in Lines /\ l.turn = turn[v] /\ l.role # "user"
        BY <1>t, LineIs
      <3> HIDE DEF l
      <3>2. InTurn(Append(history[v], l), turn[v])
        BY <1>t, <2>1, <3>1, InTurnOn
      <3> QED BY <2>1, <2>3, <3>2 DEF Adds, l
    <2> QED BY <2>2, <2>3 DEF Aside, NewLine
  <1>6. NoneAhead(v)'
    BY DEF Told, NoneAhead, Aside
  <1> QED BY <1>1, <1>2, <1>4, <1>5, <1>6 DEF Told

(* How the record, the text so far and the socket change.                  *)
LEMMA LineStep ==
  ASSUME RelayAssumption, TypeOK, NEW v \in Sockets, [Next]_vars
  PROVE  NewLine(v) \/ Prompt(v) \/ \E t \in Turns : FinishStream(v, t)
  <1>t. history \in [Sockets -> Seq(Lines)]
    BY DEF TypeOK
  <1>1. ASSUME NEW s \in Sockets, NEW heard \in BOOLEAN, Interrupt(s, heard)
        PROVE  NewLine(v)
    BY <1>t, <1>1 DEF Interrupt, NewLine, Adds
  <1>2. ASSUME NEW s \in Sockets, SendText(s)
        PROVE  NewLine(v)
    BY <1>t, <1>2 DEF SendText, NewLine, Adds
  <1>3. ASSUME NEW s \in Sockets, s # v,
               Prompt(s) \/ \E t \in Turns : FinishStream(s, t)
        PROVE  NewLine(v)
    BY <1>t, <1>3 DEF Prompt, FinishStream, NewLine
  <1>4. ASSUME NEW s \in Sockets,
               \/ Attach(s) \/ SetupMismatch(s) \/ SocketClosed(s)
               \/ \E t \in Turns :
                    \/ SpeakToken(s, t) \/ DropStream(s, t) \/ Fallback(s, t)
                    \/ RefuseFallback(s, t) \/ FailStream(s, t) \/ CloseRecord(s, t)
        PROVE  NewLine(v)
    BY <1>4 DEF Attach, SetupMismatch, SocketClosed, SpeakToken, DropStream, Fallback,
       RefuseFallback, FailStream, CloseRecord, NewLine
  <1>5. CASE EndCall \/ EndCallDone \/ CarrierEnds \/ Shutdown \/ UNCHANGED vars
    BY <1>5 DEF EndCall, EndCallDone, CarrierEnds, Shutdown, vars, session, NewLine
  <1>6. Talking \subseteq Sockets
    BY DEF RelayAssumption
  <1> QED BY <1>1, <1>2, <1>3, <1>4, <1>5, <1>6 DEF Next, LlmStep

LEMMA TextStep ==
  ASSUME RelayAssumption, TypeOK, NEW v \in Sockets, [Next]_vars
  PROVE  \/ partial'[v] = partial[v] \/ Cuts(v) \/ Prompt(v)
         \/ \E t \in Turns : SpeakToken(v, t) \/ FinishStream(v, t)
  <1>t. /\ partial \in [Sockets -> Nat] /\ wire \in [Sockets -> Seq(Frames)]
        /\ aborted \in [Sockets -> SUBSET Turns]
    BY DEF TypeOK
  <1>1. ASSUME NEW s \in Sockets, NEW heard \in BOOLEAN, Interrupt(s, heard)
        PROVE  partial'[v] = partial[v] \/ Cuts(v)
    BY <1>t, <1>1 DEF Interrupt, Cuts, MoreWire
  <1>2. ASSUME NEW s \in Sockets, s # v,
               \/ Prompt(s)
               \/ \E t \in Turns : SpeakToken(s, t) \/ FinishStream(s, t)
        PROVE  partial'[v] = partial[v]
    <2>1. CASE Prompt(s)
      BY <1>t, <1>2, <2>1 DEF Prompt, StartTurn
    <2> QED BY <1>t, <1>2, <2>1 DEF SpeakToken, FinishStream
  <1>3. ASSUME NEW s \in Sockets,
               \/ Attach(s) \/ SetupMismatch(s) \/ SocketClosed(s) \/ SendText(s)
               \/ \E t \in Turns :
                    \/ DropStream(s, t) \/ Fallback(s, t) \/ RefuseFallback(s, t)
                    \/ FailStream(s, t) \/ CloseRecord(s, t)
        PROVE  partial'[v] = partial[v]
    BY <1>3 DEF Attach, SetupMismatch, SocketClosed, SendText, DropStream, Fallback,
       RefuseFallback, FailStream, CloseRecord
  <1>4. CASE EndCall \/ EndCallDone \/ CarrierEnds \/ Shutdown \/ UNCHANGED vars
    BY <1>4 DEF EndCall, EndCallDone, CarrierEnds, Shutdown, vars, session
  <1>5. Talking \subseteq Sockets
    BY DEF RelayAssumption
  <1> QED BY <1>1, <1>2, <1>3, <1>4, <1>5 DEF Next, LlmStep

LEMMA SockStep ==
  ASSUME RelayAssumption, TypeOK, NEW v \in Sockets, [Next]_vars
  PROVE  SockOn(v)
  <1>t. sock \in [Sockets -> {"none", "open", "closing", "closed"}]
    BY DEF TypeOK
  <1>1. ASSUME sock' = sock
        PROVE  SockOn(v)
    BY <1>1 DEF SockOn
  <1>2. ASSUME NEW s \in Sockets, Attach(s) \/ SetupMismatch(s) \/ SocketClosed(s)
        PROVE  SockOn(v)
    BY <1>t, <1>2 DEF Attach, SetupMismatch, SocketClosed, SockOn
  <1>3. ASSUME NEW s, NEW before, EndSession(s, before)
        PROVE  SockOn(v)
    BY <1>t, <1>3 DEF EndSession, SockOn
  <1>4. ASSUME NEW s \in Sockets, NEW heard \in BOOLEAN,
               Prompt(s) \/ SendText(s) \/ Interrupt(s, heard)
        PROVE  SockOn(v)
    BY <1>1, <1>4 DEF Prompt, SendText, Interrupt
  <1>5. ASSUME NEW s \in Sockets, NEW t \in Turns,
               \/ SpeakToken(s, t) \/ FinishStream(s, t) \/ DropStream(s, t)
               \/ Fallback(s, t) \/ RefuseFallback(s, t) \/ CloseRecord(s, t)
        PROVE  SockOn(v)
    BY <1>1, <1>5 DEF SpeakToken, FinishStream, DropStream, Fallback, RefuseFallback,
       CloseRecord
  <1>6. ASSUME NEW s \in Sockets, NEW t \in Turns, FailStream(s, t)
        PROVE  SockOn(v)
    BY <1>1, <1>3, <1>6 DEF FailStream
  <1>7. CASE EndCall \/ Shutdown
    BY <1>1, <1>3, <1>7 DEF EndCall, Shutdown
  <1>8. CASE EndCallDone \/ CarrierEnds \/ UNCHANGED vars
    BY <1>1, <1>8 DEF EndCallDone, CarrierEnds, vars, session
  <1>9. Talking \subseteq Sockets
    BY DEF RelayAssumption
  <1>10. TRUE \in BOOLEAN
    OBVIOUS
  <1> QED BY <1>2, <1>4, <1>5, <1>6, <1>7, <1>8, <1>9, <1>10 DEF Next, LlmStep

LEMMA SpokenSame ==
  ASSUME RelayAssumption, TypeOK, NEW v \in Sockets, [Next]_vars,
         ~Prompt(v), \A t \in Turns : ~SpeakToken(v, t) /\ ~FinishStream(v, t)
  PROVE  \A u \in Turns : Spoken(wire'[v], u) = Spoken(wire[v], u)
  <1>t. /\ wire \in [Sockets -> Seq(Frames)] /\ wire[v] \in Seq(Frames)
        /\ turn[v] \in 0..MaxTurns /\ Turns \subseteq 0..MaxTurns
    BY DEF TypeOK, Turns, RelayAssumption
  <1>k. \A kind \in {"verbatim", "interrupt", "end"}, t \in 0..MaxTurns :
          Frame(kind, t) \in Frames /\ \A u \in Turns : Frame(kind, t) # Frame("token", u)
    BY FrameType DEF Frame
  <1>1. CASE wire'[v] = wire[v]
    BY <1>1
  <1>2. CASE MoreWire(v, turn[v])
    <2>1. CASE wire'[v] = wire[v]
      BY <2>1
    <2>2. ASSUME NEW kind \in {"verbatim", "interrupt", "end"},
                 wire'[v] = Append(wire[v], Frame(kind, turn[v]))
          PROVE  \A u \in Turns : Spoken(wire'[v], u) = Spoken(wire[v], u)
      <3> DEFINE f == Frame(kind, turn[v])
      <3>1. f \in Frames /\ \A u \in Turns : f # Frame("token", u)
        BY <1>t, <1>k
      <3> HIDE DEF f
      <3>2. \A u \in Turns : Spoken(Append(wire[v], f), u) = Spoken(wire[v], u)
        BY <1>t, <3>1, SpokenOn
      <3> QED BY <2>2, <3>2 DEF f
    <2> QED BY <1>2, <2>1, <2>2 DEF MoreWire
  <1>3. ASSUME NEW t \in Turns, FailStream(v, t)
        PROVE  \A u \in Turns : Spoken(wire'[v], u) = Spoken(wire[v], u)
    <2> DEFINE f == Frame("end", t)
               g == Frame("end", turn[v])
               w == wire[v]
               e == Append(w, f)
    <2>1. wire'[v] \in {w, e, Append(w, g), Append(e, g)}
      BY <1>3, FailWire
    <2>2. /\ f \in Frames /\ g \in Frames
          /\ \A u \in Turns : f # Frame("token", u) /\ g # Frame("token", u)
      BY <1>t, <1>k
    <2>3. w \in Seq(Frames)
      BY <1>t
    <2> HIDE DEF f, g, w
    <2>4. e \in Seq(Frames)
      BY <2>2, <2>3, AppendIs
    <2>5. ASSUME NEW u \in Turns
          PROVE  /\ Spoken(e, u) = Spoken(w, u)
                 /\ Spoken(Append(w, g), u) = Spoken(w, u)
      BY <2>2, <2>3, SpokenOn
    <2>6. ASSUME NEW u \in Turns
          PROVE  Spoken(Append(e, g), u) = Spoken(w, u)
      <3>1. Spoken(Append(e, g), u) = Spoken(e, u)
        <4> HIDE DEF e
        <4> QED BY <2>2, <2>4, SpokenOn
      <3> QED BY <2>5, <3>1
    <2>7. \A u \in Turns : Spoken(wire'[v], u) = Spoken(w, u)
      BY <2>1, <2>5, <2>6
    <2> QED BY <2>7 DEF w
  <1>4. CASE SendText(v)
    <2>1. wire'[v] = Send(v, <<Frame("verbatim", turn[v])>>)
      BY <1>4, <1>t DEF SendText
    <2>2. MoreWire(v, turn[v])
      BY <1>t, <1>k, <2>1, AppendIs DEF Send, MoreWire
    <2> QED BY <1>2, <2>2
  <1>5. ASSUME NEW t \in Turns,
               \/ DropStream(v, t) \/ Fallback(v, t) \/ RefuseFallback(v, t)
               \/ CloseRecord(v, t)
        PROVE  wire'[v] = wire[v]
    BY <1>5 DEF DropStream, Fallback, RefuseFallback, CloseRecord
  <1> QED BY <1>1, <1>2, <1>3, <1>4, <1>5, Effect DEF Still, Silences, Cuts, Own

LEMMA Asides ==
  ASSUME RelayAssumption, TypeOK, NEW v \in Sockets, StreamsFit(v), [Next]_vars,
         ~Prompt(v), \A t \in Turns : ~SpeakToken(v, t) /\ ~FinishStream(v, t)
  PROVE  Aside(v)
  <1>t. /\ stream \in [Sockets -> [Turns -> StreamStates]]
        /\ aborted \in [Sockets -> SUBSET Turns] /\ wire \in [Sockets -> Seq(Frames)]
    BY DEF TypeOK
  <1>1. NewLine(v) /\ SockOn(v)
    BY LineStep, SockStep
  <1>2. \A t \in Turns : Spoken(wire'[v], t) = Spoken(wire[v], t)
    BY SpokenSame
  <1>3. partial'[v] = partial[v] \/ Cuts(v)
    BY TextStep
  <1>4. CASE Cuts(v)
    <2>1. \A t \in Turns : stream'[v][t] \in Streaming => Cut(v, t)'
      BY <1>4, CutIsCut DEF StreamsFit
    <2>2. \A t \in Turns : ~Speaking(v, t)'
      BY <2>1 DEF Speaking, Streaming
    <2> QED BY <1>1, <1>2, <1>4, <2>2 DEF Cuts, Aside
  <1>5. CASE Still(v) /\ partial'[v] = partial[v]
    BY <1>1, <1>2, <1>5 DEF Still, Aside, Speaking, Cut
  <1>6. CASE SendText(v)
    <2>1. /\ UNCHANGED <<turn, current, stream, sock>> /\ aborted'[v] = Abort(v)
          /\ wire'[v] = Send(v, <<Frame("verbatim", turn[v])>>)
      BY <1>6, <1>t DEF SendText
    <2>2. MoreWire(v, turn[v])
      <3>1. Frame("verbatim", turn[v]) \in Frames /\ wire[v] \in Seq(Frames)
        BY FrameType DEF TypeOK
      <3> QED BY <2>1, <3>1, AppendIs DEF Send, MoreWire
    <2>3. Cuts(v)
      BY <2>1, <2>2 DEF Cuts
    <2> QED BY <1>4, <2>3
  <1>7. ASSUME NEW t \in Turns, Fallback(v, t) \/ RefuseFallback(v, t)
        PROVE  Aside(v)
    <2>1. UNCHANGED <<sock, turn, aborted, partial>>
      BY <1>7 DEF Fallback, RefuseFallback
    <2>2. /\ stream[v][t] \in {"primary", "fallback"}
          /\ \E x \in {"fallback", "refused"} : stream'[v] = [stream[v] EXCEPT ![t] = x]
      BY <1>7, <1>t DEF Fallback, RefuseFallback
    <2>3. \A u \in Turns :
            /\ stream[v][u] = "over" => stream'[v][u] = "over"
            /\ stream[v][u] = "none" => stream'[v][u] = "none"
            /\ stream'[v][u] \in {"primary", "fallback"}
                 => stream[v][u] \in {"primary", "fallback"}
      BY <1>t, <2>2
    <2> QED BY <1>1, <1>2, <2>1, <2>3 DEF Aside, Speaking, Cut
  <1>8. ASSUME NEW t \in Turns,
               DropStream(v, t) \/ FailStream(v, t) \/ CloseRecord(v, t)
        PROVE  Aside(v)
    <2>1. Leaves(v, t)
      BY <1>8, WaysOut
    <2>2. stream[v][t] # "over" /\ stream[v][t] # "none" /\ partial' = partial
      BY <1>8 DEF DropStream, FailStream, CloseRecord, Throws
    <2>3. \A u \in Turns : u # t => stream'[v][u] = stream[v][u]
      BY <1>t, <2>1 DEF Leaves
    <2>4. ASSUME NEW u \in Turns, Speaking(v, u)'
          PROVE  Speaking(v, u)
      <3>1. stream'[v][u] \in Streaming /\ ~Cut(v, u)'
        BY <2>4 DEF Speaking, Streaming
      <3>2. stream'[v][u] = stream[v][u] /\ ~Cut(v, u)
        BY <2>1, <3>1, LeavesLive
      <3> QED BY <2>4, <3>2 DEF Speaking
    <2> QED BY <1>1, <1>2, <2>1, <2>2, <2>3, <2>4 DEF Aside, Leaves
  <1> QED BY <1>3, <1>4, <1>5, <1>6, <1>7, <1>8, Effect DEF Silences, Own

LEMMA ToldPrompt ==
  ASSUME RelayAssumption, TypeOK, NEW v \in Sockets, StreamsFit(v), Told(v), Prompt(v)
  PROVE  Told(v)'
  <1> DEFINE n == turn[v] + 1
             f == Frame("prompt", n)
             l == Line("user", n, "said", 0)
  <1>t. /\ stream \in [Sockets -> [Turns -> StreamStates]]
        /\ current \in [Sockets -> 0..MaxTurns]
        /\ aborted \in [Sockets -> SUBSET Turns]
        /\ partial \in [Sockets -> Nat]
        /\ history \in [Sockets -> Seq(Lines)] /\ history[v] \in Seq(Lines)
        /\ wire \in [Sockets -> Seq(Frames)] /\ wire[v] \in Seq(Frames)
        /\ turn \in [Sockets -> 0..MaxTurns] /\ turn[v] \in Nat
        /\ Turns \subseteq 0..MaxTurns /\ Turns \subseteq Nat
        /\ MaxTurns \in Nat /\ 0 \in Nat
    BY DEF TypeOK, Turns, RelayAssumption
  <1>1. n \in Turns /\ turn[v] < n /\ turn[v] <= n /\ n <= n /\ n \in Nat
    BY <1>t, RoomForTurn DEF Prompt
  <1>2. /\ turn'[v] = n /\ sock' = sock /\ sock[v] # "none" /\ aborted'[v] = Abort(v)
        /\ history'[v] = Append(history[v], l) /\ wire'[v] = Append(wire[v], f)
    BY <1>t DEF Prompt, Receives
  <1>3. \/ stream' = stream /\ mode # "byo-model"
        \/ stream'[v] = [stream[v] EXCEPT ![n] = "primary"] /\ partial'[v] = 0
    BY <1>t, <1>1 DEF Prompt, StartTurn, gatewayDrivesTurns
  <1>4. /\ f \in Frames /\ \A u \in Turns : f # Frame("token", u)
        /\ l \in Lines /\ l.turn = n /\ l.how # "full"
    <2>1. n \in 0..MaxTurns
      BY <1>t, <1>1
    <2> HIDE DEF n
    <2>2. f \in Frames /\ \A u \in Turns : f # Frame("token", u)
      BY <2>1, FrameType DEF Frame
    <2>3. l \in Lines /\ l.turn = n /\ l.how = "said"
      BY <1>t, <2>1, LineIs
    <2> QED BY <2>2, <2>3
  <1>5. stream[v][n] = "none"
    BY <1>t, <1>1 DEF StreamsFit, Past
  <1> HIDE DEF n, f, l
  <1>6. \A u \in Turns : Spoken(wire'[v], u) = Spoken(wire[v], u)
    <2> SUFFICES ASSUME NEW u \in Turns
                 PROVE  Spoken(wire'[v], u) = Spoken(wire[v], u)
      OBVIOUS
    <2>1. f \in Frames /\ f # Frame("token", u)
      BY <1>4
    <2> QED BY <1>t, <1>2, <2>1, SpokenOn
  <1>7. Unspoken(v)'
    BY <1>2 DEF Unspoken
  <1>8. Counted(v)'
    <2> SUFFICES ASSUME NEW u \in Turns, Speaking(v, u)'
                 PROVE  partial'[v] = Tokens(v, u)'
      BY DEF Counted, Speaking
    <2>1. u = n
      <3>1. ASSUME u # n PROVE FALSE
        <4>1. stream'[v][u] = stream[v][u]
          BY <1>t, <1>3, <3>1
        <4>2. stream[v][u] \in Streaming /\ ~Cut(v, u)
          BY <1>2, <4>1, AbortType DEF Speaking, Cut, Streaming
        <4>3. current[v] = u /\ u # 0
          BY <4>2 DEF StreamsFit, Live, Turns
        <4> QED BY <1>2, <4>3 DEF Abort, Speaking, Cut
      <3> QED BY <3>1
    <2>2. partial'[v] = 0
      BY <1>3, <1>5, <2>1 DEF Speaking
    <2>3. Spoken(wire'[v], n) = {}
      BY <1>1, <1>6 DEF Told, NoneAhead
    <2> QED BY <2>1, <2>2, <2>3, FS_EmptySet DEF Tokens
  <1>9. \A i \in DOMAIN history'[v] : history'[v][i].how = "full" =>
          i \in DOMAIN history[v] /\ history'[v][i] = history[v][i]
    BY <1>t, <1>2, <1>4
  <1>10. Recorded(v)'
    <2>1. Recorded(v)
      BY DEF Told
    <2>2. \A u \in Turns : stream[v][u] = "over" =>
            /\ stream'[v][u] = "over" /\ Spoken(wire'[v], u) = Spoken(wire[v], u)
            /\ sock'[v] = "open" => sock[v] = "open"
      BY <1>t, <1>2, <1>3, <1>5, <1>6
    <2> QED BY <1>9, <2>1, <2>2, RecordedKept DEF Recorded
  <1>11. InTurn(history[v], turn[v])'
    <2>1. InTurn(Append(history[v], l), n)
      BY <1>t, <1>1, <1>4, InTurnOn DEF Told
    <2> QED BY <1>2, <2>1
  <1>12. NoneAhead(v)'
    <2>1. \A u \in Turns : n < u => turn[v] < u
      BY <1>t, <1>1
    <2> QED BY <1>2, <1>6, <2>1 DEF Told, NoneAhead
  <1> QED BY <1>7, <1>8, <1>10, <1>11, <1>12 DEF Told

LEMMA ToldToken ==
  ASSUME RelayAssumption, TypeOK, NEW v \in Sockets, StreamsFit(v), Told(v),
         NEW t \in Turns, SpeakToken(v, t)
  PROVE  Told(v)'
  <1> DEFINE f == Frame("token", t)
  <1>t. /\ stream \in [Sockets -> [Turns -> StreamStates]]
        /\ partial \in [Sockets -> Nat] /\ partial[v] \in Nat
        /\ wire \in [Sockets -> Seq(Frames)] /\ wire[v] \in Seq(Frames)
        /\ turn \in [Sockets -> 0..MaxTurns] /\ turn[v] \in Nat
        /\ Turns \subseteq 0..MaxTurns /\ Turns \subseteq Nat
    BY DEF TypeOK, Turns, RelayAssumption
  <1>1. /\ UNCHANGED <<sock, turn, aborted, stream, history>>
        /\ stream[v][t] \in {"primary", "fallback"} /\ ~Cut(v, t)
        /\ partial'[v] = partial[v] + 1
        /\ wire'[v] = Send(v, <<f>>)
    BY <1>t DEF SpeakToken
  <1>2. f \in Frames /\ \A u \in Turns : u # t => f # Frame("token", u)
    BY <1>t, FrameType DEF Frame
  <1>3. turn[v] = t /\ \A u \in Turns : Speaking(v, u) => u = t
    BY <1>1 DEF StreamsFit, Live, Streaming, Speaking
  <1>4. wire'[v] = wire[v] \/ wire'[v] = Append(wire[v], f)
    <2> HIDE DEF f
    <2> QED BY <1>t, <1>1, <1>2, AppendIs DEF Send
  <1>5. sock[v] = "open" => wire'[v] = Append(wire[v], f)
    <2> HIDE DEF f
    <2> QED BY <1>t, <1>1, <1>2, AppendIs DEF Send
  <1>6. \A u \in Turns : u # t => Spoken(wire'[v], u) = Spoken(wire[v], u)
    <2> HIDE DEF f
    <2> SUFFICES ASSUME NEW u \in Turns, u # t
                 PROVE  Spoken(wire'[v], u) = Spoken(wire[v], u)
      OBVIOUS
    <2>1. f \in Frames /\ f # Frame("token", u)
      BY <1>2
    <2>2. wire[v] \in Seq(Frames)
      BY <1>t
    <2>3. Spoken(Append(wire[v], f), u) = Spoken(wire[v], u)
      BY <2>1, <2>2, SpokenOn
    <2> QED BY <1>4, <2>3
  <1>7. sock[v] = "open" => Tokens(v, t)' = Tokens(v, t) + 1
    <2>1. f = Frame("token", t)
      OBVIOUS
    <2> HIDE DEF f
    <2>2. Cardinality(Spoken(Append(wire[v], f), t)) = Cardinality(Spoken(wire[v], t)) + 1
      BY <1>t, <1>2, <2>1, SpokenOn
    <2> QED BY <1>5, <2>2 DEF Tokens
  <1>8. Unspoken(v)'
    BY <1>1 DEF Told, Unspoken
  <1>9. Counted(v)'
    <2> SUFFICES ASSUME sock[v] = "open", NEW u \in Turns, Speaking(v, u)'
                 PROVE  partial'[v] = Tokens(v, u)'
      BY <1>1 DEF Counted, Speaking
    <2>1. Speaking(v, u) /\ u = t
      BY <1>1, <1>3 DEF Speaking, Cut
    <2>2. partial[v] = Tokens(v, t)
      BY <2>1 DEF Told, Counted, Speaking
    <2> QED BY <1>1, <1>7, <2>1, <2>2
  <1>10. Recorded(v)'
    <2>1. Recorded(v)
      BY DEF Told
    <2>2. \A u \in Turns : stream[v][u] = "over" =>
            /\ stream'[v][u] = "over" /\ Spoken(wire'[v], u) = Spoken(wire[v], u)
            /\ sock'[v] = "open" => sock[v] = "open"
      BY <1>1, <1>6
    <2>3. history'[v] = history[v]
      BY <1>1
    <2> QED BY <2>1, <2>2, <2>3, RecordedKept DEF Recorded
  <1>11. InTurn(history[v], turn[v])'
    BY <1>1 DEF Told
  <1>12. NoneAhead(v)'
    <2>1. \A u \in Turns : turn[v] < u => u # t
      BY <1>t, <1>3
    <2> QED BY <1>1, <1>6, <2>1 DEF Told, NoneAhead
  <1> QED BY <1>8, <1>9, <1>10, <1>11, <1>12 DEF Told

(* A full reply of a stream that had none goes on record.                  *)
LEMMA RecordedMore ==
  ASSUME NEW h \in Seq(Lines), NEW l \in Lines, NEW w, NEW z, NEW st, NEW su, NEW o,
         NEW t \in Turns, RecordedOn(h, w, st, o), st[t] # "over",
         l.turn = t, o => l.tokens = Cardinality(Spoken(w, t)),
         \A u \in Turns : /\ st[u] = "over" \/ u = t => su[u] = "over"
                          /\ Spoken(z, u) = Spoken(w, u)
  PROVE  RecordedOn(Append(h, l), z, su, o)
  <1> DEFINE x == Append(h, l)
             n == Len(h) + 1
  <1>1. /\ DOMAIN x = 1..n /\ DOMAIN h = 1..Len(h) /\ Len(h) \in Nat
        /\ x[n] = l /\ \A i \in 1..Len(h) : x[i] = h[i]
    OBVIOUS
  <1> HIDE DEF x
  <1>2. /\ \A i \in DOMAIN x : i \in DOMAIN h \/ i = n
        /\ \A i \in DOMAIN h : x[i] = h[i]
    BY <1>1
  <1>3. \A i \in DOMAIN h : h[i].how = "full" =>
          /\ h[i].turn \in Turns /\ st[h[i].turn] = "over" /\ h[i].turn # t
          /\ o => h[i].tokens = Cardinality(Spoken(w, h[i].turn))
    BY DEF RecordedOn
  <1> HIDE DEF n
  <1>4. ASSUME NEW i \in DOMAIN x, x[i].how = "full"
        PROVE  /\ x[i].turn \in Turns /\ su[x[i].turn] = "over"
               /\ o => x[i].tokens = Cardinality(Spoken(z, x[i].turn))
    <2>1. CASE i \in DOMAIN h
      <3>1. x[i] = h[i] /\ h[i].how = "full"
        BY <1>2, <1>4, <2>1
      <3>2. /\ h[i].turn \in Turns /\ st[h[i].turn] = "over"
            /\ o => h[i].tokens = Cardinality(Spoken(w, h[i].turn))
        BY <1>3, <2>1, <3>1
      <3>3. su[h[i].turn] = "over" /\ Spoken(z, h[i].turn) = Spoken(w, h[i].turn)
        BY <3>2
      <3> QED BY <3>1, <3>2, <3>3, Zenon
    <2>2. CASE i = n
      <3>1. x[i] = l /\ Spoken(z, t) = Spoken(w, t) /\ su[t] = "over"
        BY <1>1, <2>2
      <3> QED BY <3>1, Zenon
    <2> QED BY <1>2, <2>1, <2>2
  <1>5. ASSUME NEW i \in DOMAIN x, NEW j \in DOMAIN x,
               x[i].how = "full", x[j].how = "full", x[j].turn = x[i].turn
        PROVE  i = j
    <2>1. CASE i \in DOMAIN h /\ j \in DOMAIN h
      BY <1>2, <1>5, <2>1 DEF RecordedOn
    <2>2. CASE i \in DOMAIN h /\ j = n
      BY <1>1, <1>2, <1>3, <1>5, <2>2
    <2>3. CASE i = n /\ j \in DOMAIN h
      BY <1>1, <1>2, <1>3, <1>5, <2>3
    <2> QED BY <1>2, <2>1, <2>2, <2>3
  <1>6. RecordedOn(x, z, su, o)
    BY <1>4, <1>5, Zenon DEF RecordedOn
  <1> QED BY <1>6 DEF x

LEMMA ToldFinish ==
  ASSUME RelayAssumption, TypeOK, NEW v \in Sockets, StreamsFit(v), Told(v),
         NEW t \in Turns, FinishStream(v, t)
  PROVE  Told(v)'
  <1> DEFINE f == Frame("last", t)
             l == Line("assistant", t, "full", partial[v])
  <1>t. /\ stream \in [Sockets -> [Turns -> StreamStates]]
        /\ partial \in [Sockets -> Nat] /\ partial[v] \in Nat
        /\ history \in [Sockets -> Seq(Lines)] /\ history[v] \in Seq(Lines)
        /\ wire \in [Sockets -> Seq(Frames)] /\ wire[v] \in Seq(Frames)
        /\ turn \in [Sockets -> 0..MaxTurns] /\ turn[v] \in Nat
        /\ Turns \subseteq 0..MaxTurns /\ Turns \subseteq Nat /\ MaxTurns \in Nat
    BY DEF TypeOK, Turns, RelayAssumption
  <1>1. /\ UNCHANGED <<sock, turn, aborted>>
        /\ Speaking(v, t) /\ stream'[v] = [stream[v] EXCEPT ![t] = "over"]
        /\ wire'[v] = Send(v, <<f>>)
        /\ \/ history' = history
           \/ history'[v] = Append(history[v], l)
    BY <1>t DEF FinishStream, Finish, Speaking
  <1>2. f \in Frames /\ \A u \in Turns : f # Frame("token", u)
    BY <1>t, FrameType DEF Frame
  <1>3. /\ l \in Lines /\ l.turn = t /\ l.role = "assistant" /\ l.how = "full"
        /\ l.tokens = partial[v]
    BY <1>t, LineIs
  <1>4. turn[v] = t /\ \A u \in Turns : Speaking(v, u) => u = t
    BY <1>1 DEF StreamsFit, Live, Streaming, Speaking
  <1> HIDE DEF f, l
  <1>5. \A u \in Turns : Spoken(wire'[v], u) = Spoken(wire[v], u)
    <2>1. wire'[v] = wire[v] \/ wire'[v] = Append(wire[v], f)
      BY <1>t, <1>1, <1>2, AppendIs DEF Send
    <2> SUFFICES ASSUME NEW u \in Turns
                 PROVE  Spoken(wire'[v], u) = Spoken(wire[v], u)
      OBVIOUS
    <2>2. f \in Frames /\ f # Frame("token", u)
      BY <1>2
    <2>3. wire[v] \in Seq(Frames)
      BY <1>t
    <2>4. Spoken(Append(wire[v], f), u) = Spoken(wire[v], u)
      BY <2>2, <2>3, SpokenOn
    <2> QED BY <2>1, <2>4
  <1>6. \A u \in Turns : /\ Tokens(v, u)' = Tokens(v, u)
                         /\ stream[v][u] = "over" => stream'[v][u] = "over"
    BY <1>t, <1>1, <1>5 DEF Tokens
  <1>7. Unspoken(v)'
    BY <1>1, <1>t DEF Told, Unspoken, Speaking
  <1>8. Counted(v)'
    <2>1. \A u \in Turns : ~Speaking(v, u)'
      BY <1>t, <1>1, <1>4 DEF Speaking, Cut
    <2> QED BY <2>1 DEF Counted, Speaking
  <1>9. Recorded(v)'
    <2> DEFINE h == history[v]
               w == wire[v]
               st == stream[v]
               o == sock[v] = "open"
    <2>1. RecordedOn(h, w, st, o) /\ st[t] # "over" /\ (o => partial[v] = Tokens(v, t))
      BY <1>1 DEF Told, Recorded, Speaking, Counted
    <2>2. \A u \in Turns : /\ st[u] = "over" \/ u = t => stream'[v][u] = "over"
                           /\ Spoken(wire'[v], u) = Spoken(w, u)
      BY <1>1, <1>t, <1>5
    <2>3. CASE history' = history
      <3>1. history'[v] = history[v] /\ sock' = sock
        BY <1>1, <2>3
      <3> QED BY <2>1, <2>2, <3>1, RecordedKept DEF Recorded
    <2>4. CASE history'[v] = Append(history[v], l)
      <3>1. RecordedOn(Append(h, l), wire'[v], stream'[v], o)
        <4>0. h \in Seq(Lines)
          BY <1>t
        <4>1. o => l.tokens = Cardinality(Spoken(w, t))
          BY <1>3, <2>1 DEF Tokens
        <4> HIDE DEF h, w, st, o
        <4> QED BY <1>3, <2>1, <2>2, <4>0, <4>1, RecordedMore
      <3>2. sock' = sock
        BY <1>1
      <3> QED BY <2>4, <3>1, <3>2 DEF Recorded
    <2> QED BY <1>1, <2>3, <2>4
  <1>10. InTurn(history[v], turn[v])'
    <2>1. InTurn(Append(history[v], l), turn[v])
      BY <1>t, <1>3, <1>4, InTurnOn DEF Told
    <2> QED BY <1>1, <2>1 DEF Told
  <1>11. NoneAhead(v)'
    BY <1>1, <1>5 DEF Told, NoneAhead
  <1> QED BY <1>7, <1>8, <1>9, <1>10, <1>11 DEF Told

LEMMA ToldStep ==
  ASSUME RelayAssumption, TypeOK, NEW v \in Sockets, StreamsFit(v), Told(v),
         [Next]_vars
  PROVE  Told(v)'
  <1>1. CASE Aside(v)
    BY <1>1, ToldAside
  <1>2. CASE ~Aside(v)
    <2>1. Prompt(v) \/ \E t \in Turns : SpeakToken(v, t) \/ FinishStream(v, t)
      BY <1>2, Asides
    <2> QED BY <2>1, ToldPrompt, ToldToken, ToldFinish
  <1> QED BY <1>1, <1>2

LEMMA ToldInit ==
  ASSUME RelayAssumption, Init, NEW v \in Sockets
  PROVE  Told(v)
  <1>1. /\ \A t \in Turns : stream[v][t] = "none"
        /\ wire[v] = <<>> /\ history[v] = <<>> /\ sock[v] = "none"
    BY DEF Init
  <1> QED BY <1>1
          DEF Told, Unspoken, Counted, Recorded, RecordedOn, InTurn, NoneAhead, Spoken

-----------------------------------------------------------------------------
SocketInv(v) == StreamsFit(v) /\ Said(v) /\ Timed(v) /\ Told(v)
IInv == TypeOK /\ (\A v \in Sockets : SocketInv(v)) /\ RegisteredIsOpen

LEMMA InvInit == RelayAssumption /\ Init => IInv
  <1> SUFFICES ASSUME RelayAssumption, Init
               PROVE  IInv
    OBVIOUS
  <1>1. TypeOK
    BY TypeInit
  <1>2. ASSUME NEW v \in Sockets
        PROVE  SocketInv(v)
    <2>1. \A t \in Turns : stream[v][t] = "none" /\ timed[v][t] = 0 /\ t # 0
      BY DEF Init, Turns
    <2>2. wire[v] = <<>> /\ pending[v] = 0
      BY DEF Init
    <2>3. pending[v] <= turn[v]
      BY DEF Init
    <2>4. StreamsFit(v)
      BY <2>1, <2>2 DEF StreamsFit, Live, Past, ModeFits, Streaming
    <2>5. Said(v)
      BY <2>1, <2>2 DEF Said, TokensAnswer
    <2>6. Timed(v)
      BY <2>1, <2>3 DEF Timed
    <2> QED BY <2>4, <2>5, <2>6, ToldInit DEF SocketInv
  <1>3. RegisteredIsOpen
    BY DEF Init, RegisteredIsOpen
  <1> QED BY <1>1, <1>2, <1>3 DEF IInv

LEMMA InvStep ==
  ASSUME RelayAssumption, IInv, [Next]_vars
  PROVE  IInv'
  <1>1. TypeOK'
    BY TypeStep DEF IInv
  <1>2. ASSUME NEW v \in Sockets
        PROVE  SocketInv(v)'
    BY StreamsFitStep, SaidStep, TimedStep, ToldStep DEF IInv, SocketInv
  <1>3. RegisteredIsOpen'
    BY RegisteredStep DEF IInv
  <1> QED BY <1>1, <1>2, <1>3 DEF IInv

LEMMA Invariant == RelayAssumption /\ Spec => []IInv
  <1>1. RelayAssumption /\ Init => IInv
    BY InvInit
  <1>2. RelayAssumption /\ IInv /\ [Next]_vars => IInv'
    BY InvStep
  <1> QED BY RelayAssumption, <1>1, <1>2, PTL DEF Spec

(* Every variable of the session and the service has its type.             *)
THEOREM Types == Spec => []TypeOK
  <1>1. IInv => TypeOK
    BY DEF IInv
  <1> QED BY <1>1, RelayAssumption, Invariant, PTL

(* Barge-in: after the frame that cuts a reply, a prompt, an interruption, *)
(* a verbatim text or an end, no token of that reply is sent.              *)
THEOREM BargeInIsSilence == Spec => []AbortedStaysSilent
  <1>1. IInv => AbortedStaysSilent
    <2> SUFFICES ASSUME IInv, NEW s \in Sockets, NEW j \in DOMAIN wire[s],
                        wire[s][j].kind = "token"
                 PROVE  \E i \in 1..(j - 1) :
                          /\ wire[s][i] = Frame("prompt", wire[s][j].turn)
                          /\ \A k \in (i + 1)..(j - 1) :
                               \/ wire[s][k] = wire[s][j]
                               \/ /\ wire[s][k].kind = "end"
                                  /\ wire[s][k].turn < wire[s][j].turn
      BY DEF AbortedStaysSilent
    <2>1. Answers(wire[s], wire[s][j].turn, j - 1)
      BY DEF IInv, SocketInv, Said, TokensAnswer
    <2>2. wire[s][j] = Frame("token", wire[s][j].turn)
      <3>1. wire[s] \in Seq(Frames)
        BY DEF IInv, TypeOK
      <3>2. wire[s][j] \in Frames
        BY <3>1
      <3> QED BY <3>2 DEF Frames, Frame
    <2> QED BY <2>1, <2>2 DEF Answers
  <1> QED BY <1>1, RelayAssumption, Invariant, PTL

(* The only stream still heard is the one currentAbort can stop: that of   *)
(* the session's newest turn.                                              *)
THEOREM OneStreamIsHeard == Spec => []OneLiveStream
  <1>1. IInv => OneLiveStream
    BY DEF IInv, SocketInv, StreamsFit, Live, OneLiveStream
  <1> QED BY <1>1, RelayAssumption, Invariant, PTL

(* A turn's latency is told at most once.                                  *)
THEOREM LatencyToldOnce == Spec => []TimedOnce
  <1>1. IInv => TimedOnce
    BY DEF IInv, SocketInv, Timed, TimedOnce
  <1> QED BY <1>1, RelayAssumption, Invariant, PTL

(* say_on_call speaks only into a socket that has not closed.              *)
THEOREM SpeaksIntoOpen == Spec => []RegisteredIsOpen
  <1>1. IInv => RegisteredIsOpen
    BY DEF IInv
  <1> QED BY <1>1, RelayAssumption, Invariant, PTL

(* One turn speaks at a time, and a host only into a socket that has not   *)
(* closed.                                                                 *)
THEOREM OneVoiceIsHeard == Spec => []OneVoice
  <1>1. OneLiveStream /\ RegisteredIsOpen => OneVoice
    BY DEF OneVoice
  <1> QED BY <1>1, OneStreamIsHeard, SpeaksIntoOpen, PTL

(* Of the transcript: a reply on record in full is what the open socket    *)
(* was sent, a turn has at most one, and the lines are in the order of the *)
(* turns.                                                                  *)
THEOREM RepliesAreAsSent == Spec => []RepliesAsSent
  <1>1. IInv => RepliesAsSent
    <2> SUFFICES ASSUME IInv, NEW v \in Sockets
                 PROVE  /\ RecordedOn(history[v], wire[v], stream[v], sock[v] = "open")
                        /\ InTurn(history[v], turn[v])
      BY DEF RepliesAsSent, FullReplyWasSent, TranscriptInOrder, RecordedOn, InTurn, Tokens
    <2> QED BY DEF IInv, SocketInv, Told, Recorded
  <1> QED BY <1>1, RelayAssumption, Invariant, PTL
=============================================================================
