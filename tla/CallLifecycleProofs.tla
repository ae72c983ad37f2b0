------------------------ MODULE CallLifecycleProofs ------------------------
(***************************************************************************)
(* Proofs about CallLifecycle for every set of calls and keys, every       *)
(* concurrency limit and every combination of faults: types, the store and *)
(* the memory, then what the component announces, watches and rings:       *)
(* events are counted, claims taken once, a key rings once per window.     *)
(***************************************************************************)
EXTENDS CallLifecycle, FiniteSetTheorems, TLAPS

USE DEF AllKinds, AllFaults, Statuses, CarrierStates, PlatformStates,
        LineStates, ProviderKeys, PollerStates, TERMINAL_STATUSES

(* CloseRecord, cut anywhere, leaves its three columns well typed.         *)
LEMMA CloseRecordType ==
  ASSUME TypeOK, NEW c \in Calls, NEW st \in {"completed", "failed"}, NEW cut,
         CloseRecord(c, st, cut)
  PROVE  /\ status' \in [Calls -> Statuses]
         /\ terminalEvents' \in [Calls -> Nat]
         /\ bearer' \subseteq Calls
  BY DEF TypeOK, CloseRecord

(* A halt leaves every in-memory variable at its empty value.              *)
LEMMA HaltType ==
  ASSUME TypeOK, Halt
  PROVE  /\ up' \in BOOLEAN
         /\ dialing' \in [Calls -> {"no", "placing", "accepted"}]
         /\ ending' \in [Calls -> Nat]
         /\ hanging' \in [Calls -> Nat]
         /\ timer' \subseteq Calls
         /\ poller' \in [Calls -> PollerStates]
         /\ crashes' \in Nat
         /\ survived' \subseteq Calls
  <1>1. up' \in BOOLEAN /\ timer' \subseteq Calls /\ survived' \subseteq Calls
    BY Zenon DEF Halt
  <1>5. crashes' \in Nat
    <2>1. crashes \in Nat /\ crashes' = crashes + 1
      BY Zenon DEF TypeOK, Halt
    <2> QED BY <2>1
  <1>2. dialing' \in [Calls -> {"no", "placing", "accepted"}]
    BY DEF Halt
  <1>3. ending' \in [Calls -> Nat] /\ hanging' \in [Calls -> Nat]
    <2>1. 0 \in Nat
      OBVIOUS
    <2> QED BY <2>1, Zenon DEF Halt
  <1>4. poller' \in [Calls -> PollerStates]
    BY DEF Halt
  <1> QED BY <1>1, <1>2, <1>3, <1>4, <1>5

(* Everything a step moves the line to is a line state.                    *)
LEMMA LineStatesReached ==
  {"initiated", "completed", "noAnswer", "processing"} \subseteq LineStates
  BY DEF TWILIO_STATUS_MAP, AGENT_STATUS_MAP

(* Asking the carrier to hang up moves nothing but the request counter.    *)
LEMMA EndRequestType ==
  ASSUME TypeOK, NEW c \in Calls, EndRequest(c), timer' \subseteq timer
  PROVE  TypeOK'
  BY DEF TypeOK, EndRequest, store, memory, world

LEMMA EndNowType ==
  ASSUME TypeOK, NEW c \in Calls, NEW cut, EndNow(c, cut)
  PROVE  TypeOK'
  <1>1. /\ status' \in [Calls -> Statuses]
        /\ terminalEvents' \in [Calls -> Nat]
        /\ bearer' \subseteq Calls
    BY CloseRecordType DEF EndNow
  <1>2. CASE cut = "none"
    BY <1>1, <1>2 DEF EndNow, TypeOK
  <1>3. CASE cut # "none"
    BY <1>1, <1>3, HaltType DEF EndNow, TypeOK
  <1> QED BY <1>2, <1>3

LEMMA TypeInit == Init => TypeOK
  BY DEF Init, TypeOK

LEMMA TypeStep ==
  ASSUME TypeOK, [Next]_vars
  PROVE  TypeOK'
  <1> USE DEF store, memory, world
  <1>1. CASE UNCHANGED vars
    BY <1>1 DEF TypeOK, vars
  <1>2. CASE shutdown
    BY <1>2, HaltType DEF shutdown, TypeOK
  <1>3. CASE startGateway
    BY <1>3 DEF startGateway, TypeOK, Resumed, Active, Swept
  <1>4. ASSUME NEW c \in Calls, NEW k \in Keys, DialTorn(c, k)
        PROVE  TypeOK'
    BY <1>4, HaltType DEF DialTorn, Claim, TypeOK
  <1>5. ASSUME NEW c \in Calls, NEW k \in Keys, NEW kd \in Kinds, Dial(c, k, kd)
        PROVE  TypeOK'
    BY <1>5, ConstantsAssumption DEF Dial, Claim, TypeOK
  <1>6. ASSUME NEW c \in Calls, DialAccepted(c) PROVE TypeOK'
    BY <1>6, LineStatesReached DEF DialAccepted, TypeOK
  <1>7. ASSUME NEW c \in Calls, NEW b \in BOOLEAN, DialResolved(c, b) PROVE TypeOK'
    BY <1>7 DEF DialResolved, armDurationTimer, TypeOK
  <1>8. ASSUME NEW c \in Calls, NEW b \in BOOLEAN, endOffDeviceFinish(c, b)
        PROVE TypeOK'
    <2>1. line' \in [Calls -> LineStates]
      BY <1>8, LineStatesReached DEF endOffDeviceFinish, TypeOK
    <2>2. /\ hanging' \in [Calls -> Nat]
          /\ hangupEvents' \in [Calls -> Nat]
          /\ claims' \in [Calls -> SUBSET ProviderKeys]
      BY <1>8 DEF endOffDeviceFinish, TypeOK
    <2> QED BY <1>8, <2>1, <2>2 DEF endOffDeviceFinish, TypeOK
  <1>9. ASSUME NEW c \in Calls, createRehearsal(c) PROVE TypeOK'
    BY <1>9 DEF createRehearsal, armDurationTimer, TypeOK
  <1>10. ASSUME NEW c \in Calls, DurationTimer(c) PROVE TypeOK'
    <2>1. CASE EndNow(c, "none")
      BY <2>1, EndNowType
    <2>2. CASE ~EndNow(c, "none")
      <3>1. CASE EndRequest(c) /\ timer' \subseteq timer
        BY <3>1, EndRequestType
      <3>2. CASE ~(EndRequest(c) /\ timer' \subseteq timer)
        BY <1>10, <2>2, <3>2 DEF DurationTimer, TypeOK
      <3> QED BY <3>1, <3>2
    <2> QED BY <2>1, <2>2
  <1>11. ASSUME NEW c \in Calls, endOffDeviceCall(c) PROVE TypeOK'
    BY <1>11 DEF endOffDeviceCall, TypeOK
  <1>12. ASSUME NEW c \in Calls, PlatformAnswers(c) PROVE TypeOK'
    BY <1>12 DEF PlatformAnswers, TypeOK
  <1>13. ASSUME NEW c \in Calls, PollError(c) PROVE TypeOK'
    BY <1>13 DEF PollError, TypeOK
  <1>14. ASSUME NEW c \in Calls, LineMoves(c) PROVE TypeOK'
    BY <1>14, ConstantsAssumption DEF LineMoves, TypeOK
  <1>15. ASSUME NEW c \in Calls, WindowPasses(c) PROVE TypeOK'
    BY <1>15 DEF WindowPasses, TypeOK
  <1>16. ASSUME NEW c \in Calls, DeadlinePasses(c) PROVE TypeOK'
    BY <1>16 DEF DeadlinePasses, TypeOK
  <1>17. ASSUME NEW c \in Calls, NEW cut \in Cuts, DialFailed(c, cut) PROVE TypeOK'
    <2>1. /\ status' \in [Calls -> Statuses]
          /\ terminalEvents' \in [Calls -> Nat]
          /\ bearer' \subseteq Calls
      BY <1>17, CloseRecordType DEF DialFailed
    <2>2. CASE cut = "none"
      BY <1>17, <2>1, <2>2 DEF DialFailed, TypeOK
    <2>3. CASE cut # "none"
      BY <1>17, <2>1, <2>3, HaltType DEF DialFailed, TypeOK
    <2> QED BY <2>2, <2>3
  <1>18. ASSUME NEW c \in Calls, NEW cut \in Cuts, endCall(c, cut) PROVE TypeOK'
    <2>1. CASE EndNow(c, cut)
      BY <2>1, EndNowType
    <2>2. CASE ~EndNow(c, cut)
      BY <1>18, <2>2, EndRequestType DEF endCall
    <2> QED BY <2>1, <2>2
  <1>19. ASSUME NEW c \in Calls, NEW cut \in Cuts, pollOnce(c, cut) PROVE TypeOK'
    <2>1. /\ status' \in [Calls -> Statuses]
          /\ terminalEvents' \in [Calls -> Nat]
          /\ bearer' \subseteq Calls
      BY <1>19, CloseRecordType DEF pollOnce, TypeOK
    <2>2. CASE cut = "none"
      BY <1>19, <2>1, <2>2 DEF pollOnce, PollerStop, TypeOK
    <2>3. CASE cut # "none"
      BY <1>19, <2>1, <2>3, HaltType DEF pollOnce, TypeOK
    <2> QED BY <2>2, <2>3
  <1>20. ASSUME NEW c \in Calls, NEW cut \in Cuts, apply(c, cut) PROVE TypeOK'
    <2>0. /\ AGENT_STATUS_MAP[poller[c]] \in Statuses
          /\ AGENT_STATUS_MAP[poller[c]] \notin TERMINAL_STATUSES =>
               ElStatus[AGENT_STATUS_MAP[poller[c]]] \in ProviderKeys
      BY <1>20 DEF apply, AGENT_STATUS_MAP, ElStatus
    <2>1. /\ status' \in [Calls -> Statuses]
          /\ terminalEvents' \in [Calls -> Nat]
          /\ bearer' \subseteq Calls
      <3>1. CASE CloseRecord(c, AGENT_STATUS_MAP[poller[c]], cut)
                 /\ AGENT_STATUS_MAP[poller[c]] \in TERMINAL_STATUSES
        BY <3>1, CloseRecordType
      <3>2. CASE ~(CloseRecord(c, AGENT_STATUS_MAP[poller[c]], cut)
                   /\ AGENT_STATUS_MAP[poller[c]] \in TERMINAL_STATUSES)
        BY <1>20, <2>0, <3>2 DEF apply, TypeOK
      <3> QED BY <3>1, <3>2
    <2>2. claims' \in [Calls -> SUBSET ProviderKeys]
      BY <1>20, <2>0 DEF apply, TypeOK
    <2>3. CASE cut = "none"
      BY <1>20, <2>1, <2>2, <2>3 DEF apply, PollerStop, TypeOK
    <2>4. CASE cut # "none"
      BY <1>20, <2>1, <2>2, <2>4, HaltType DEF apply, TypeOK
    <2> QED BY <2>3, <2>4
  <1>21. ASSUME NEW c \in Calls, NEW b \in BOOLEAN, NEW cut \in Cuts,
                endCallFinish(c, b, cut)
         PROVE  TypeOK'
    <2>1. /\ status' \in [Calls -> Statuses]
          /\ terminalEvents' \in [Calls -> Nat]
          /\ bearer' \subseteq Calls
      BY <1>21, CloseRecordType DEF endCallFinish
    <2>4. line' \in [Calls -> LineStates]
      BY <1>21, LineStatesReached DEF endCallFinish, TypeOK
    <2>2. CASE cut = "none"
      <3>1. ending' = [ending EXCEPT ![c] = @ - 1] /\ ending[c] > 0
        BY <1>21, <2>2 DEF endCallFinish
      <3>2. ending' \in [Calls -> Nat]
        BY <3>1 DEF TypeOK
      <3> QED BY <1>21, <2>1, <2>4, <2>2, <3>2 DEF endCallFinish, TypeOK
    <2>3. CASE cut # "none"
      BY <1>21, <2>1, <2>4, <2>3, HaltType DEF endCallFinish, TypeOK
    <2> QED BY <2>2, <2>3
  <1>22. ASSUME NEW c \in Calls, NEW cut \in Cuts, NEW raw \in CarrierStates,
                handleStatusCallback(c, raw, cut)
         PROVE  TypeOK'
    <2>0. TWILIO_STATUS_MAP[raw] \in Statuses
      BY <1>22 DEF TWILIO_STATUS_MAP
    <2>1. /\ status' \in [Calls -> Statuses]
          /\ terminalEvents' \in [Calls -> Nat]
          /\ bearer' \subseteq Calls
      <3>1. CASE CloseRecord(c, TWILIO_STATUS_MAP[raw], cut)
                 /\ TWILIO_STATUS_MAP[raw] \in TERMINAL_STATUSES
        BY <3>1, CloseRecordType
      <3>2. CASE ~(CloseRecord(c, TWILIO_STATUS_MAP[raw], cut)
                   /\ TWILIO_STATUS_MAP[raw] \in TERMINAL_STATUSES)
        BY <1>22, <2>0, <3>2 DEF handleStatusCallback, TypeOK
      <3> QED BY <3>1, <3>2
    <2>3. CASE cut = "none"
      BY <1>22, <2>1, <2>3 DEF handleStatusCallback, TypeOK
    <2>4. CASE cut # "none"
      BY <1>22, <2>1, <2>4, HaltType DEF handleStatusCallback, TypeOK
    <2> QED BY <2>3, <2>4
  <1> QED
    BY <1>1, <1>2, <1>3, <1>4, <1>5, <1>6, <1>7, <1>8, <1>9, <1>10, <1>11,
       <1>12, <1>13, <1>14, <1>15, <1>16, <1>17, <1>18, <1>19, <1>20, <1>21,
       <1>22 DEF Next

(* Type correctness of every reachable state.                              *)
THEOREM TypeCorrect == Spec => []TypeOK
  BY TypeInit, TypeStep, PTL DEF Spec
-----------------------------------------------------------------------------
(* How one step moves the status of a call.                                *)

(* A status stays, is that of a fresh row the gate let through, becomes    *)
(* terminal, or rises in rank on a live record.                            *)
StatusMoves(d) ==
  \/ status'[d] = status[d]
  \/ /\ Unused(d) /\ status'[d] \in {"created", "answered"}
     /\ activeCallCount < MaxConcurrent
     /\ \A e \in Calls \ {d} : status'[e] = status[e]
  \/ Exists(d) /\ status'[d] \in TERMINAL_STATUSES
  \/ /\ Exists(d) /\ ~Terminal(d)
     /\ status'[d] \in {"initiated", "ringing", "answered"}
     /\ Rank[status[d]] <= Rank[status'[d]]

(* Closing the record of an existing call is such a move.                  *)
LEMMA CloseRecordMoves ==
  ASSUME TypeOK, NEW c \in Calls, NEW st \in {"completed", "failed"}, NEW cut,
         CloseRecord(c, st, cut), Exists(c), NEW d \in Calls
  PROVE  StatusMoves(d)
  BY DEF TypeOK, CloseRecord, StatusMoves

LEMMA StatusStep ==
  ASSUME TypeOK, MemoryMatchesStore, [Next]_vars, NEW d \in Calls
  PROVE  StatusMoves(d)
  <1> USE DEF store, memory, world
  <1>1. CASE UNCHANGED status
    BY <1>1 DEF StatusMoves
  <1>2. ASSUME NEW c \in Calls, NEW k \in Keys, NEW kd \in Kinds, Dial(c, k, kd)
        PROVE  StatusMoves(d)
    BY <1>2 DEF Dial, StatusMoves, TypeOK
  <1>3. ASSUME NEW c \in Calls, createRehearsal(c)
        PROVE  StatusMoves(d)
    BY <1>3 DEF createRehearsal, StatusMoves, TypeOK
  <1>4. ASSUME NEW c \in Calls, NEW st \in {"completed", "failed"}, NEW cut,
               CloseRecord(c, st, cut), Exists(c)
        PROVE  StatusMoves(d)
    BY <1>4, CloseRecordMoves
  <1>5. ASSUME NEW c \in Calls, NEW cut \in Cuts, EndNow(c, cut), Exists(c)
        PROVE  StatusMoves(d)
    BY <1>4, <1>5 DEF EndNow
  <1>6. ASSUME NEW c \in Calls, NEW cut \in Cuts, DialFailed(c, cut)
        PROVE  StatusMoves(d)
    BY <1>4, <1>6 DEF DialFailed, MemoryMatchesStore, Placed
  <1>7. ASSUME NEW c \in Calls, NEW cut \in Cuts, endCall(c, cut)
        PROVE  StatusMoves(d)
    BY <1>1, <1>5, <1>7 DEF endCall, EndRequest
  <1>8. ASSUME NEW c \in Calls, NEW b \in BOOLEAN, NEW cut \in Cuts,
               endCallFinish(c, b, cut)
        PROVE  StatusMoves(d)
    BY <1>4, <1>8 DEF endCallFinish, MemoryMatchesStore, TypeOK
  <1>9. ASSUME NEW c \in Calls, DurationTimer(c)
        PROVE  StatusMoves(d)
    <2>1. Exists(c)
      BY <1>9 DEF DurationTimer, MemoryMatchesStore
    <2>2. CASE EndNow(c, "none")
      BY <1>4, <2>1, <2>2 DEF EndNow
    <2>3. CASE ~EndNow(c, "none")
      BY <1>1, <1>9, <2>3 DEF DurationTimer, EndRequest
    <2> QED BY <2>2, <2>3
  <1>10. ASSUME NEW c \in Calls, NEW cut \in Cuts, pollOnce(c, cut)
         PROVE  StatusMoves(d)
    BY <1>1, <1>4, <1>10 DEF pollOnce, MemoryMatchesStore, Placed
  <1>11. ASSUME NEW c \in Calls, NEW cut \in Cuts, apply(c, cut)
         PROVE  StatusMoves(d)
    <2>1. Exists(c)
      BY <1>11 DEF apply, MemoryMatchesStore, Placed, AGENT_STATUS_MAP
    <2> DEFINE mapped == AGENT_STATUS_MAP[poller[c]]
    <2>2. mapped \in {"initiated", "answered", "completed", "failed"}
      BY <1>11 DEF apply, AGENT_STATUS_MAP
    <2>3. CASE mapped \in TERMINAL_STATUSES /\ CloseRecord(c, mapped, cut)
      BY <1>4, <2>1, <2>3
    <2>4. CASE /\ ~Terminal(c) /\ Rank[mapped] > Rank[status[c]]
               /\ mapped \notin TERMINAL_STATUSES
               /\ status' = [status EXCEPT ![c] = mapped]
      <3>1. Rank[status[c]] <= Rank[mapped]
        BY <2>2, <2>4 DEF TypeOK, Rank
      <3> QED BY <2>1, <2>2, <2>4, <3>1 DEF StatusMoves, TypeOK
    <2>5. \/ mapped \in TERMINAL_STATUSES /\ CloseRecord(c, mapped, cut)
          \/ /\ ~Terminal(c) /\ Rank[mapped] > Rank[status[c]]
             /\ mapped \notin TERMINAL_STATUSES
             /\ status' = [status EXCEPT ![c] = mapped]
          \/ UNCHANGED status
      <3>1. CASE Terminal(c)
        BY <1>11, <3>1 DEF apply
      <3>2. CASE ~Terminal(c) /\ mapped \notin TERMINAL_STATUSES
        BY <1>11, <3>2 DEF apply
      <3>3. CASE ~Terminal(c) /\ mapped \in TERMINAL_STATUSES
        BY <1>11, <3>3 DEF apply
      <3> QED BY <3>1, <3>2, <3>3
    <2> QED BY <1>1, <2>3, <2>4, <2>5
  <1>12. ASSUME NEW c \in Calls, NEW cut \in Cuts, NEW raw \in CarrierStates,
                handleStatusCallback(c, raw, cut)
         PROVE  StatusMoves(d)
    <2>1. Exists(c)
      BY <1>12 DEF handleStatusCallback, MemoryMatchesStore, Placed
    <2> DEFINE mapped == TWILIO_STATUS_MAP[raw]
    <2>2. mapped \in {"initiated", "ringing", "answered", "completed", "failed"}
      BY DEF TWILIO_STATUS_MAP
    <2>3. CASE mapped \in TERMINAL_STATUSES /\ CloseRecord(c, mapped, cut)
      BY <1>4, <2>1, <2>3
    <2>4. CASE /\ ~Terminal(c) /\ ~OutOfOrder(mapped, c)
               /\ mapped \notin TERMINAL_STATUSES
               /\ status' = [status EXCEPT ![c] = mapped]
      <3>1. Rank[status[c]] <= Rank[mapped]
        BY <2>2, <2>4 DEF TypeOK, OutOfOrder, Rank
      <3> QED BY <2>1, <2>2, <2>4, <3>1 DEF StatusMoves, TypeOK
    <2>5. \/ mapped \in TERMINAL_STATUSES /\ CloseRecord(c, mapped, cut)
          \/ /\ ~Terminal(c) /\ ~OutOfOrder(mapped, c)
             /\ mapped \notin TERMINAL_STATUSES
             /\ status' = [status EXCEPT ![c] = mapped]
          \/ UNCHANGED status
      BY <1>12 DEF handleStatusCallback
    <2> QED BY <1>1, <2>3, <2>4, <2>5
  <1> QED
    BY <1>1, <1>2, <1>3, <1>6, <1>7, <1>8, <1>9, <1>10, <1>11, <1>12
       DEF Next, vars, shutdown, startGateway, DialTorn, DialAccepted,
           DialResolved, endOffDeviceFinish, endOffDeviceCall,
           PlatformAnswers, PollError, LineMoves, WindowPasses, DeadlinePasses

-----------------------------------------------------------------------------
(* The memory of the process agrees with the store.                        *)

(* Closing an existing record keeps every row there is.                    *)
LEMMA CloseRecordExists ==
  ASSUME TypeOK, NEW c \in Calls, NEW st \in {"completed", "failed"}, NEW cut,
         CloseRecord(c, st, cut), NEW d \in Calls, Exists(d)
  PROVE  Exists(d)'
  BY DEF TypeOK, CloseRecord, Exists

(* A step that halts the process and loses no row leaves it in agreement.  *)
LEMMA HaltMemory ==
  ASSUME TypeOK, MemoryMatchesStore, Halt,
         UNCHANGED <<sid, keyOf>>,
         \A d \in Calls : line[d] # "none" => line'[d] # "none",
         \A d \in Calls : Exists(d) => Exists(d)'
  PROVE  MemoryMatchesStore'
  BY DEF MemoryMatchesStore, Halt, Placed, Exists

(* What an end of c may do to the memory: nothing is added, a dial of c is *)
(* over if it was off-device, and the gateway stays up.                    *)
MemoryShrinks(c) ==
  /\ up' = up
  /\ timer' \subseteq timer
  /\ OffDevice(c) => dialing'[c] = "no"
  /\ \A d \in Calls :
       /\ dialing'[d] # "no" => dialing'[d] = dialing[d]
       /\ ending'[d] > 0 => ending[d] > 0
       /\ poller'[d] # "none" => poller[d] # "none"
       /\ line[d] # "none" => line'[d] # "none"

LEMMA ShrinkMemory ==
  ASSUME TypeOK, MemoryMatchesStore, NEW c \in Calls, MemoryShrinks(c),
         UNCHANGED <<sid, kind, keyOf>>,
         \A d \in Calls : Exists(d) => Exists(d)',
         \A d \in Calls \ {c} : status'[d] = status[d]
  PROVE  MemoryMatchesStore'
  BY DEF MemoryMatchesStore, MemoryShrinks, Placed, Exists, OffDevice, Terminal

LEMMA CloseMemory ==
  ASSUME TypeOK, MemoryMatchesStore, NEW c \in Calls, MemoryShrinks(c), Exists(c),
         NEW st \in {"completed", "failed"}, NEW cut, CloseRecord(c, st, cut),
         UNCHANGED <<sid, kind, keyOf>>
  PROVE  MemoryMatchesStore'
  <1>1. \A d \in Calls : Exists(d) => Exists(d)'
    BY CloseRecordExists
  <1>2. \A d \in Calls \ {c} : status'[d] = status[d]
    BY DEF CloseRecord, TypeOK
  <1> QED BY <1>1, <1>2, ShrinkMemory

LEMMA MemoryStep ==
  ASSUME TypeOK, MemoryMatchesStore, [Next]_vars
  PROVE  MemoryMatchesStore'
  <1> USE DEF store, memory, world
  <1>1. CASE UNCHANGED vars
    BY <1>1 DEF vars, MemoryMatchesStore, Placed, Exists, OffDevice, Terminal
  <1>2. CASE shutdown
    BY <1>2, HaltMemory DEF shutdown, Exists
  <1>3. CASE startGateway
    BY <1>3 DEF startGateway, MemoryMatchesStore, Placed, Exists, OffDevice,
                Terminal, Resumed, Resumable, Active
  <1>4. ASSUME NEW c \in Calls, NEW k \in Keys, DialTorn(c, k)
        PROVE  MemoryMatchesStore'
    BY <1>4, HaltMemory DEF DialTorn, Exists
  <1>5. ASSUME NEW c \in Calls, NEW k \in Keys, NEW kd \in Kinds, Dial(c, k, kd)
        PROVE  MemoryMatchesStore'
    BY <1>5, ConstantsAssumption
       DEF Dial, Unused, MemoryMatchesStore, Placed, Exists, OffDevice, Terminal, TypeOK
  <1>6. ASSUME NEW c \in Calls, DialAccepted(c) PROVE MemoryMatchesStore'
    BY <1>6 DEF DialAccepted, MemoryMatchesStore, Placed, Exists, OffDevice,
                Terminal, TypeOK
  <1>7. ASSUME NEW c \in Calls, NEW b \in BOOLEAN, DialResolved(c, b)
        PROVE  MemoryMatchesStore'
    BY <1>7 DEF DialResolved, armDurationTimer, MemoryMatchesStore, Placed,
                Exists, OffDevice, Terminal, TypeOK
  <1>8. ASSUME NEW c \in Calls, NEW b \in BOOLEAN, endOffDeviceFinish(c, b)
        PROVE  MemoryMatchesStore'
    BY <1>8 DEF endOffDeviceFinish, MemoryMatchesStore, Placed, Exists,
                OffDevice, Terminal, TypeOK
  <1>9. ASSUME NEW c \in Calls, createRehearsal(c) PROVE MemoryMatchesStore'
    BY <1>9 DEF createRehearsal, Unused, armDurationTimer, MemoryMatchesStore,
                Placed, Exists, OffDevice, Terminal, TypeOK
  <1>10. ASSUME NEW c \in Calls, NEW cut, EndNow(c, cut), ~OffDevice(c), Exists(c)
         PROVE  MemoryMatchesStore'
    <2>1. CASE cut # "none"
      BY <1>10, <2>1, CloseRecordExists, HaltMemory DEF EndNow
    <2>2. CASE cut = "none"
      <3>1. MemoryShrinks(c)
        BY <1>10, <2>2 DEF EndNow, MemoryShrinks
      <3> QED BY <1>10, <2>2, <3>1, CloseMemory DEF EndNow
    <2> QED BY <2>1, <2>2
  <1>11. ASSUME NEW c \in Calls, NEW cut \in Cuts, DialFailed(c, cut)
         PROVE  MemoryMatchesStore'
    <2>0. CloseRecord(c, "failed", cut) /\ Exists(c)
      BY <1>11 DEF DialFailed, MemoryMatchesStore, Placed
    <2>1. CASE cut # "none"
      BY <1>11, <2>0, <2>1, CloseRecordExists, HaltMemory DEF DialFailed
    <2>2. CASE cut = "none"
      <3>1. MemoryShrinks(c)
        BY <1>11, <2>2 DEF DialFailed, MemoryShrinks, TypeOK
      <3> QED BY <1>11, <2>0, <2>2, <3>1, CloseMemory DEF DialFailed
    <2> QED BY <2>1, <2>2
  <1>12. ASSUME NEW c \in Calls, EndRequest(c), timer' \subseteq timer,
                kind[c] = "device", Exists(c)
         PROVE  MemoryMatchesStore'
    BY <1>12 DEF EndRequest, MemoryMatchesStore, Placed, Exists, OffDevice,
                 Terminal, TypeOK
  <1>13. ASSUME NEW c \in Calls, NEW cut \in Cuts, endCall(c, cut)
         PROVE  MemoryMatchesStore'
    BY <1>10, <1>12, <1>13 DEF endCall, OffDevice
  <1>14. ASSUME NEW c \in Calls, NEW b \in BOOLEAN, NEW cut \in Cuts,
                endCallFinish(c, b, cut)
         PROVE  MemoryMatchesStore'
    <2>0. /\ CloseRecord(c, "completed", cut) /\ Exists(c) /\ kind[c] = "device"
          /\ \A d \in Calls : line[d] # "none" => line'[d] # "none"
      BY <1>14 DEF endCallFinish, MemoryMatchesStore, TypeOK
    <2>1. CASE cut # "none"
      BY <1>14, <2>0, <2>1, CloseRecordExists, HaltMemory DEF endCallFinish
    <2>2. CASE cut = "none"
      <3>1. MemoryShrinks(c)
        BY <1>14, <2>0, <2>2 DEF endCallFinish, MemoryShrinks, TypeOK, OffDevice
      <3> QED BY <1>14, <2>0, <2>2, <3>1, CloseMemory DEF endCallFinish
    <2> QED BY <2>1, <2>2
  <1>15. ASSUME NEW c \in Calls, DurationTimer(c)
         PROVE  MemoryMatchesStore'
    <2>1. Exists(c) /\ ~OffDevice(c)
      BY <1>15 DEF DurationTimer, MemoryMatchesStore
    <2>2. CASE EndNow(c, "none")
      BY <1>10, <2>1, <2>2
    <2>3. CASE Terminal(c) /\ timer' = timer \ {c}
      BY <1>15, <2>3 DEF DurationTimer, MemoryMatchesStore, Placed, Exists,
                         OffDevice, Terminal, EndNow, EndRequest
    <2>4. CASE ~Terminal(c) /\ kind[c] = "device" /\ EndRequest(c)
               /\ timer' = timer \ {c}
      BY <1>12, <2>1, <2>4
    <2> QED BY <1>15, <2>2, <2>3, <2>4 DEF DurationTimer
  <1>16. ASSUME NEW c \in Calls, endOffDeviceCall(c) PROVE MemoryMatchesStore'
    BY <1>16 DEF endOffDeviceCall, MemoryMatchesStore, Placed, Exists,
                 OffDevice, Terminal, TypeOK
  <1>17. ASSUME NEW c \in Calls, PlatformAnswers(c) PROVE MemoryMatchesStore'
    BY <1>17 DEF PlatformAnswers, MemoryMatchesStore, Placed, Exists,
                 OffDevice, Terminal, TypeOK
  <1>18. ASSUME NEW c \in Calls, PollError(c) PROVE MemoryMatchesStore'
    BY <1>18 DEF PollError, MemoryMatchesStore, Placed, Exists,
                 OffDevice, Terminal, TypeOK
  <1>19. ASSUME NEW c \in Calls,
                LineMoves(c) \/ WindowPasses(c) \/ DeadlinePasses(c)
         PROVE MemoryMatchesStore'
    <2>1. \A d \in Calls : line[d] # "none" => line'[d] # "none"
      BY <1>19 DEF LineMoves, WindowPasses, DeadlinePasses, CarrierSteps,
                   PlatformSteps, TypeOK
    <2> QED BY <1>19, <2>1 DEF LineMoves, WindowPasses, DeadlinePasses,
               MemoryMatchesStore, Placed, Exists, OffDevice, Terminal
  <1>20. ASSUME NEW c \in Calls, NEW cut \in Cuts, pollOnce(c, cut)
         PROVE  MemoryMatchesStore'
    <2>0. Exists(c) /\ dialing[c] = "no"
      BY <1>20 DEF pollOnce, MemoryMatchesStore, Placed, TypeOK
    <2>1. CASE cut # "none"
      BY <1>20, <2>0, <2>1, CloseRecordExists, HaltMemory DEF pollOnce
    <2>2. CASE cut = "none"
      <3>1. MemoryShrinks(c)
        BY <1>20, <2>0, <2>2 DEF pollOnce, PollerStop, MemoryShrinks, TypeOK
      <3>2. CASE CloseRecord(c, "failed", cut)
        BY <1>20, <2>0, <2>2, <3>1, <3>2, CloseMemory DEF pollOnce
      <3>3. CASE status' = status
        BY <1>20, <3>1, <3>3, ShrinkMemory DEF pollOnce, Exists
      <3> QED BY <1>20, <3>2, <3>3 DEF pollOnce
    <2> QED BY <2>1, <2>2
  <1>21. ASSUME NEW c \in Calls, NEW cut \in Cuts, apply(c, cut)
         PROVE  MemoryMatchesStore'
    <2>0. Exists(c) /\ dialing[c] = "no"
      BY <1>21 DEF apply, MemoryMatchesStore, Placed, TypeOK, AGENT_STATUS_MAP
    <2>1. \A d \in Calls : Exists(d) => Exists(d)'
      BY <1>21, StatusStep DEF Next, StatusMoves, Exists
    <2>2. CASE cut # "none"
      BY <1>21, <2>1, <2>2, HaltMemory DEF apply
    <2>3. CASE cut = "none"
      <3>1. MemoryShrinks(c)
        BY <1>21, <2>0, <2>3 DEF apply, PollerStop, MemoryShrinks, TypeOK,
                                 AGENT_STATUS_MAP
      <3>2. \A d \in Calls \ {c} : status'[d] = status[d]
        BY <1>21 DEF apply, CloseRecord, TypeOK
      <3> QED BY <1>21, <2>0, <2>1, <2>3, <3>1, <3>2, ShrinkMemory DEF apply
    <2> QED BY <2>2, <2>3
  <1>22. ASSUME NEW c \in Calls, NEW cut \in Cuts, NEW raw \in CarrierStates,
                handleStatusCallback(c, raw, cut)
         PROVE  MemoryMatchesStore'
    <2>0. Exists(c) /\ ~OffDevice(c) /\ dialing[c] = "no"
      BY <1>22 DEF handleStatusCallback, MemoryMatchesStore, Placed, OffDevice, TypeOK
    <2>1. \A d \in Calls : Exists(d) => Exists(d)'
      BY <1>22, StatusStep DEF Next, StatusMoves, Exists
    <2>2. CASE cut # "none"
      BY <1>22, <2>1, <2>2, HaltMemory DEF handleStatusCallback
    <2>3. CASE cut = "none"
      <3>1. MemoryShrinks(c)
        BY <1>22, <2>0, <2>3 DEF handleStatusCallback, MemoryShrinks, TypeOK
      <3>2. \A d \in Calls \ {c} : status'[d] = status[d]
        BY <1>22 DEF handleStatusCallback, CloseRecord, TypeOK
      <3> QED BY <1>22, <2>0, <2>1, <2>3, <3>1, <3>2, ShrinkMemory
              DEF handleStatusCallback
    <2> QED BY <2>2, <2>3
  <1> QED
    BY <1>1, <1>2, <1>3, <1>4, <1>5, <1>6, <1>7, <1>8, <1>9, <1>11, <1>13,
       <1>14, <1>15, <1>16, <1>17, <1>18, <1>19, <1>20, <1>21, <1>22 DEF Next

-----------------------------------------------------------------------------
(* The invariants every step keeps together.                               *)

LEMMA MemoryInit == Init => MemoryMatchesStore
  BY DEF Init, MemoryMatchesStore, Placed, Exists, OffDevice, Terminal

LEMMA BaseInvariant == Spec => [](TypeOK /\ MemoryMatchesStore)
  <1>1. Init => TypeOK /\ MemoryMatchesStore
    BY TypeInit, MemoryInit
  <1>2. TypeOK /\ MemoryMatchesStore /\ [Next]_vars
          => TypeOK' /\ MemoryMatchesStore'
    BY TypeStep, MemoryStep
  <1> QED BY <1>1, <1>2, PTL DEF Spec

(* What the process remembers of a call agrees with what the store says.   *)
THEOREM MemoryCorrect == Spec => []MemoryMatchesStore
  BY BaseInvariant, PTL

(* No step moves the record of a call to a lower rank.                     *)
THEOREM StatusNeverDowngraded == Spec => NeverDowngraded
  <1>1. ASSUME TypeOK, MemoryMatchesStore, [Next]_vars
        PROVE  [\A c \in Calls : Rank[status[c]] <= Rank[status'[c]]]_vars
    <2> SUFFICES ASSUME NEW c \in Calls
                 PROVE  Rank[status[c]] <= Rank[status'[c]]
      OBVIOUS
    <2>1. StatusMoves(c) /\ TypeOK'
      BY <1>1, StatusStep, TypeStep
    <2>2. status[c] \in Statuses /\ status'[c] \in Statuses
      BY <1>1, <2>1 DEF TypeOK
    <2> QED BY <2>1, <2>2 DEF StatusMoves, Unused, Rank
  <1> QED BY <1>1, BaseInvariant, PTL DEF Spec, NeverDowngraded

-----------------------------------------------------------------------------
(* The concurrency gate.                                                   *)

LEMMA ConcurrencyStep ==
  ASSUME TypeOK, MemoryMatchesStore, [Next]_vars, ConcurrencyLimit
  PROVE  ConcurrencyLimit'
  <1>1. IsFiniteSet(Calls) /\ MaxConcurrent \in Nat
    BY ConstantsAssumption
  <1>2. IsFiniteSet(Active) /\ Cardinality(Active) \in Nat
    BY <1>1, FS_Subset, FS_CardinalityType DEF Active
  <1>3. \A d \in Calls : StatusMoves(d)
    BY StatusStep
  <1>4. CASE \E d \in Calls :
               /\ activeCallCount < MaxConcurrent
               /\ \A e \in Calls \ {d} : status'[e] = status[e]
    <2>1. PICK d \in Calls : /\ activeCallCount < MaxConcurrent
                             /\ \A e \in Calls \ {d} : status'[e] = status[e]
      BY <1>4
    <2>2. Active' \subseteq Active \cup {d}
      BY <2>1 DEF Active, Exists, Terminal
    <2>3. /\ IsFiniteSet(Active \cup {d})
          /\ Cardinality(Active \cup {d}) \in Nat
          /\ Cardinality(Active \cup {d}) <= Cardinality(Active) + 1
      <3>1. /\ IsFiniteSet(Active \cup {d})
            /\ Cardinality(Active \cup {d}) =
                 IF d \in Active THEN Cardinality(Active) ELSE Cardinality(Active) + 1
        BY <1>2, FS_AddElement, Zenon
      <3>2. Cardinality(Active \cup {d}) \in Nat
        BY <3>1, FS_CardinalityType
      <3> HIDE DEF Active
      <3> QED BY <1>2, <3>1, <3>2
    <2>4. Cardinality(Active') \in Nat /\ Cardinality(Active') <= Cardinality(Active \cup {d})
      BY <2>2, <2>3, FS_Subset, FS_CardinalityType
    <2> QED BY <1>1, <1>2, <2>1, <2>3, <2>4 DEF ConcurrencyLimit, activeCallCount
  <1>5. CASE ~ \E d \in Calls :
               /\ activeCallCount < MaxConcurrent
               /\ \A e \in Calls \ {d} : status'[e] = status[e]
    <2>1. \A d \in Calls : Exists(d)' /\ ~Terminal(d)' => Exists(d) /\ ~Terminal(d)
      BY <1>3, <1>5 DEF StatusMoves, Exists, Terminal
    <2>3. Active' \subseteq Active
      BY <2>1 DEF Active
    <2>2. Cardinality(Active') \in Nat /\ Cardinality(Active') <= Cardinality(Active)
      BY <1>2, <2>3, FS_Subset, FS_CardinalityType
    <2> QED BY <1>1, <1>2, <2>2 DEF ConcurrencyLimit
  <1> QED BY <1>4, <1>5

(* The gate of dial and createRehearsal keeps the number of live calls at  *)
(* or below maxConcurrentCalls in every reachable state.                   *)
THEOREM ConcurrencyRespected == Spec => []ConcurrencyLimit
  <1>1. Init => ConcurrencyLimit
    <2>1. Init => Active = {}
      BY DEF Init, Active, Exists
    <2> QED BY <2>1, FS_EmptySet, ConstantsAssumption DEF ConcurrencyLimit
  <1>2. TypeOK /\ MemoryMatchesStore /\ [Next]_vars /\ ConcurrencyLimit
          => ConcurrencyLimit'
    BY ConcurrencyStep
  <1> QED BY <1>1, <1>2, BaseInvariant, PTL DEF Spec

-----------------------------------------------------------------------------
(* Terminal events.                                                        *)

(* An event is appended with, or after, the terminal status. Where the     *)
(* record was closed before, it is one of those that may announce again.   *)
EventMoves(d) ==
  \/ terminalEvents'[d] = terminalEvents[d]
  \/ /\ terminalEvents'[d] = terminalEvents[d] + 1
     /\ Terminal(d)'
     /\ Terminal(d) => MayAnnounceAgain(d)

LEMMA CloseRecordEvents ==
  ASSUME TypeOK, NEW c \in Calls, NEW st \in {"completed", "failed"},
         NEW cut \in Cuts, CloseRecord(c, st, cut), Terminal(c) => MayAnnounceAgain(c),
         NEW d \in Calls
  PROVE  EventMoves(d)
  <1>1. cut \in {"none", "claimed", "recorded", "announced"}
    BY DEF Cuts
  <1>2. CASE d = c
    BY <1>1, <1>2 DEF CloseRecord, EventMoves, Terminal, TypeOK
  <1>3. CASE d # c
    BY <1>3 DEF CloseRecord, EventMoves, TypeOK
  <1> QED BY <1>2, <1>3

LEMMA EventStep ==
  ASSUME TypeOK, MemoryMatchesStore, [Next]_vars, NEW d \in Calls
  PROVE  EventMoves(d)
  <1> USE DEF store, memory, world
  <1>1. CASE UNCHANGED terminalEvents
    BY <1>1 DEF EventMoves
  <1>n. "none" \in Cuts
    BY DEF Cuts
  <1>2. ASSUME NEW c \in Calls, NEW st \in {"completed", "failed"},
               NEW cut \in Cuts, CloseRecord(c, st, cut),
               Terminal(c) => MayAnnounceAgain(c)
        PROVE  EventMoves(d)
    BY <1>2, CloseRecordEvents
  <1>3. ASSUME NEW c \in Calls, NEW cut \in Cuts, DialFailed(c, cut)
        PROVE  EventMoves(d)
    BY <1>2, <1>3 DEF DialFailed, MemoryMatchesStore, MayAnnounceAgain, OffDevice, TypeOK
  <1>4. ASSUME NEW c \in Calls, NEW cut \in Cuts, endCall(c, cut)
        PROVE  EventMoves(d)
    BY <1>1, <1>2, <1>4 DEF endCall, EndNow, EndRequest
  <1>5. ASSUME NEW c \in Calls, NEW b \in BOOLEAN, NEW cut \in Cuts,
               endCallFinish(c, b, cut)
        PROVE  EventMoves(d)
    BY <1>2, <1>5 DEF endCallFinish, MemoryMatchesStore, MayAnnounceAgain
  <1>6. ASSUME NEW c \in Calls, DurationTimer(c)
        PROVE  EventMoves(d)
    BY <1>1, <1>2, <1>6, <1>n DEF DurationTimer, EndNow, EndRequest
  <1>7. ASSUME NEW c \in Calls, NEW cut \in Cuts, pollOnce(c, cut)
        PROVE  EventMoves(d)
    BY <1>1, <1>2, <1>7 DEF pollOnce
  <1>8. ASSUME NEW c \in Calls, NEW cut \in Cuts, apply(c, cut)
        PROVE  EventMoves(d)
    <2> DEFINE mapped == AGENT_STATUS_MAP[poller[c]]
    <2>1. CASE ~Terminal(c) /\ mapped \in TERMINAL_STATUSES /\ CloseRecord(c, mapped, cut)
      BY <1>2, <2>1
    <2>2. CASE UNCHANGED terminalEvents
      BY <1>1, <2>2
    <2> QED BY <1>8, <2>1, <2>2 DEF apply
  <1>9. ASSUME NEW c \in Calls, NEW cut \in Cuts, NEW raw \in CarrierStates,
               handleStatusCallback(c, raw, cut)
        PROVE  EventMoves(d)
    <2> DEFINE mapped == TWILIO_STATUS_MAP[raw]
    <2>1. CASE ~Terminal(c) /\ mapped \in TERMINAL_STATUSES /\ CloseRecord(c, mapped, cut)
      BY <1>2, <2>1
    <2>2. CASE UNCHANGED terminalEvents
      BY <1>1, <2>2
    <2> QED BY <1>9, <2>1, <2>2 DEF handleStatusCallback
  <1>10. CASE shutdown \/ startGateway \/ UNCHANGED vars
    BY <1>1, <1>10 DEF shutdown, startGateway, vars
  <1>11. ASSUME NEW c \in Calls, NEW k \in Keys,
                DialTorn(c, k) \/ \E kd \in Kinds : Dial(c, k, kd)
         PROVE  EventMoves(d)
    BY <1>1, <1>11 DEF DialTorn, Dial
  <1>12. ASSUME NEW c \in Calls, NEW b \in BOOLEAN,
                \/ DialResolved(c, b) \/ endOffDeviceFinish(c, b)
                \/ DialAccepted(c) \/ createRehearsal(c) \/ endOffDeviceCall(c)
                \/ PlatformAnswers(c) \/ PollError(c) \/ LineMoves(c)
                \/ WindowPasses(c) \/ DeadlinePasses(c)
         PROVE  EventMoves(d)
    BY <1>1, <1>12 DEF DialResolved, endOffDeviceFinish, DialAccepted,
       createRehearsal, endOffDeviceCall, PlatformAnswers, PollError, LineMoves,
       WindowPasses, DeadlinePasses
  <1> QED BY <1>3, <1>4, <1>5, <1>6, <1>7, <1>8, <1>9, <1>10, <1>11, <1>12 DEF Next

(* A kind is chosen once, with the row.                                    *)
LEMMA KindStep ==
  ASSUME TypeOK, [Next]_vars, NEW d \in Calls
  PROVE  kind'[d] = kind[d] \/ ~Exists(d)
  <1> USE DEF store, memory, world
  <1>1. CASE UNCHANGED kind
    BY <1>1
  <1>2. ASSUME NEW c \in Calls, NEW k \in Keys, NEW kd \in Kinds, Dial(c, k, kd)
        PROVE  kind'[d] = kind[d] \/ ~Exists(d)
    BY <1>2 DEF Dial, Unused, Exists, TypeOK
  <1>3. ASSUME NEW c \in Calls, createRehearsal(c)
        PROVE  kind'[d] = kind[d] \/ ~Exists(d)
    BY <1>3 DEF createRehearsal, Unused, Exists, TypeOK
  <1> QED BY <1>1, <1>2, <1>3 DEF Next, vars, shutdown, startGateway, DialTorn,
       DialAccepted, DialResolved, endOffDeviceFinish, DurationTimer, EndNow,
       EndRequest, endOffDeviceCall, PlatformAnswers, PollError, LineMoves,
       WindowPasses, DeadlinePasses, DialFailed, endCall, pollOnce, apply,
       endCallFinish, handleStatusCallback

LEMMA EventsInvariant == Spec => [](TerminalEventMeansTerminal /\ OffDeviceEndsOnce)
  <1>1. Init => TerminalEventMeansTerminal /\ OffDeviceEndsOnce
    BY DEF Init, TerminalEventMeansTerminal, OffDeviceEndsOnce
  <1>2. ASSUME TypeOK, MemoryMatchesStore, TerminalEventMeansTerminal,
               OffDeviceEndsOnce, [Next]_vars
        PROVE  TerminalEventMeansTerminal' /\ OffDeviceEndsOnce'
    <2> SUFFICES ASSUME NEW c \in Calls
                 PROVE  /\ terminalEvents'[c] > 0 => Terminal(c)'
                        /\ OffDevice(c)' => terminalEvents'[c] <= 1
      BY DEF TerminalEventMeansTerminal, OffDeviceEndsOnce
    <2>1. EventMoves(c) /\ StatusMoves(c) /\ (kind'[c] = kind[c] \/ ~Exists(c))
      BY <1>2, EventStep, StatusStep, KindStep
    <2>2. terminalEvents[c] \in Nat
      BY <1>2 DEF TypeOK
    <2>3. Terminal(c) => Terminal(c)'
      BY <2>1 DEF StatusMoves, Terminal, Unused
    <2>4. terminalEvents[c] > 0 => Terminal(c) /\ Exists(c)
      BY <1>2 DEF TerminalEventMeansTerminal, Terminal, Exists
    <2>5. terminalEvents'[c] > 0 => Terminal(c)'
      BY <2>1, <2>3, <2>4 DEF EventMoves
    <2>6. terminalEvents[c] = 0 => terminalEvents'[c] <= 1
      BY <2>1 DEF EventMoves
    <2>7. terminalEvents[c] > 0 /\ OffDevice(c)' => terminalEvents'[c] <= 1
      <3> SUFFICES ASSUME terminalEvents[c] > 0, OffDevice(c)'
                   PROVE  terminalEvents'[c] <= 1
        OBVIOUS
      <3>1. OffDevice(c) /\ Terminal(c)
        BY <2>1, <2>4 DEF OffDevice
      <3>2. terminalEvents'[c] = terminalEvents[c]
        BY <2>1, <3>1 DEF EventMoves, MayAnnounceAgain, OffDevice
      <3> QED BY <1>2, <3>1, <3>2 DEF OffDeviceEndsOnce
    <2> QED BY <2>2, <2>5, <2>6, <2>7
  <1> QED BY <1>1, <1>2, BaseInvariant, PTL DEF Spec

(* A terminal event is never ahead of the record, whatever path closes it  *)
(* and wherever the process dies.                                          *)
THEOREM TerminalEventsAreTrue == Spec => []TerminalEventMeansTerminal
  BY EventsInvariant, PTL

(* A call the platform holds gets at most one terminal event, across any   *)
(* number of restarts.                                                     *)
THEOREM OffDeviceEventIsOne == Spec => []OffDeviceEndsOnce
  BY EventsInvariant, PTL

-----------------------------------------------------------------------------
(* Hang-ups.  The claim tel:hangup is taken with the one event it allows.  *)
HangupClaimed ==
  \A c \in Calls :
    hangupEvents[c] = IF "tel:hangup" \in claims[c] THEN 1 ELSE 0

LEMMA HangupStep ==
  ASSUME TypeOK, HangupClaimed, [Next]_vars
  PROVE  HangupClaimed'
  <1> USE DEF store, memory, world
  <1>1. ASSUME UNCHANGED hangupEvents,
               \A d \in Calls : "tel:hangup" \in claims'[d] <=> "tel:hangup" \in claims[d]
        PROVE  HangupClaimed'
    BY <1>1 DEF HangupClaimed
  <1>2. ASSUME NEW c \in Calls, NEW b \in BOOLEAN, endOffDeviceFinish(c, b)
        PROVE  HangupClaimed'
    <2>1. CASE UNCHANGED <<claims, hangupEvents>>
      BY <1>1, <2>1
    <2>2. CASE /\ claims' = [claims EXCEPT ![c] = @ \cup {"tel:hangup"}]
               /\ hangupEvents' = IF "tel:hangup" \in claims[c] THEN hangupEvents
                                  ELSE [hangupEvents EXCEPT ![c] = @ + 1]
      BY <2>2 DEF HangupClaimed, TypeOK
    <2> QED BY <1>2, <2>1, <2>2 DEF endOffDeviceFinish
  <1>3. ASSUME NEW c \in Calls, NEW cut \in Cuts, NEW raw \in CarrierStates,
               handleStatusCallback(c, raw, cut)
        PROVE  HangupClaimed'
    <2>1. raw # "tel:hangup"
      BY DEF TWILIO_STATUS_MAP
    <2>2. /\ claims' = [claims EXCEPT ![c] = @ \cup {raw}]
          /\ UNCHANGED hangupEvents
      BY <1>3 DEF handleStatusCallback
    <2> QED BY <1>1, <2>1, <2>2 DEF TypeOK
  <1>4. ASSUME NEW c \in Calls, NEW cut \in Cuts, pollOnce(c, cut)
        PROVE  HangupClaimed'
    <2>1. /\ claims' = claims \/ claims' = [claims EXCEPT ![c] = @ \cup {"el:terminal"}]
          /\ UNCHANGED hangupEvents
      BY <1>4 DEF pollOnce
    <2> QED BY <1>1, <2>1 DEF TypeOK
  <1>5. ASSUME NEW c \in Calls, NEW cut \in Cuts, apply(c, cut)
        PROVE  HangupClaimed'
    <2> DEFINE mapped == AGENT_STATUS_MAP[poller[c]]
    <2>1. \/ UNCHANGED claims
          \/ claims' = [claims EXCEPT ![c] = @ \cup {"el:terminal"}]
          \/ /\ claims' = [claims EXCEPT ![c] = @ \cup {ElStatus[mapped]}]
             /\ mapped \notin TERMINAL_STATUSES
      BY <1>5 DEF apply
    <2>2. mapped \notin TERMINAL_STATUSES => ElStatus[mapped] # "tel:hangup"
      BY <1>5 DEF apply, AGENT_STATUS_MAP, ElStatus
    <2>3. UNCHANGED hangupEvents
      BY <1>5 DEF apply
    <2> QED BY <1>1, <2>1, <2>2, <2>3 DEF TypeOK
  <1>6. CASE UNCHANGED <<claims, hangupEvents>>
    BY <1>1, <1>6
  <1> QED BY <1>2, <1>3, <1>4, <1>5, <1>6 DEF Next, vars, shutdown, startGateway,
       DialTorn, Dial, DialAccepted, DialResolved, createRehearsal, DurationTimer,
       EndNow, EndRequest, endOffDeviceCall, PlatformAnswers, PollError,
       LineMoves, WindowPasses, DeadlinePasses, DialFailed, endCall, endCallFinish

(* However many hang-ups of a call overlap, one is announced.              *)
THEOREM HangupIsAnnouncedOnce == Spec => []HangupAnnouncedOnce
  <1>1. Init => HangupClaimed
    BY DEF Init, HangupClaimed
  <1>2. HangupClaimed => HangupAnnouncedOnce
    BY DEF HangupClaimed, HangupAnnouncedOnce
  <1> QED BY <1>1, <1>2, HangupStep, BaseInvariant, PTL DEF Spec

-----------------------------------------------------------------------------
(* The dedupe claim.  As long as no dial outlives its window, a call that  *)
(* is being placed, rings or rang holds its key until the window passes or *)
(* its dial throws.                                                        *)
ClaimHeld ==
  \A c \in Calls :
    /\ Rung(c) /\ c \notin aged \cup released => claimedBy[keyOf[c]] = c
    /\ dialing[c] # "no" => c \notin aged \cup released
    /\ Rung(c) => Exists(c) /\ keyOf[c] \in Keys
    /\ c \in released => Exists(c)

LEMMA ClaimStep ==
  ASSUME "slowDial" \notin Faults, TypeOK, MemoryMatchesStore, ClaimHeld, [Next]_vars
  PROVE  ClaimHeld'
  <1> USE DEF store, memory, world
  <1>e. \A d \in Calls : Exists(d) => Exists(d)'
    BY StatusStep DEF StatusMoves, Exists
  <1>1. ASSUME \A d \in Calls : line'[d] # "none" => line[d] # "none",
               \A d \in Calls : dialing'[d] # "no" => dialing[d] # "no",
               UNCHANGED <<keyOf, claimedBy, aged, released>>
        PROVE  ClaimHeld'
    BY <1>1, <1>e DEF ClaimHeld, Rung
  <1>h. ASSUME Halt PROVE \A d \in Calls : dialing'[d] = "no"
    BY <1>h DEF Halt
  <1>c. ASSUME NEW c \in Calls, NEW k \in Keys, Unused(c), ~Deduped(k), Claim(k, c)
        PROVE  /\ claimedBy'[k] = c
               /\ \A d \in Calls : Rung(d) /\ d \notin aged \cup released
                                     => claimedBy'[keyOf[d]] = d
    <2>1. claimedBy'[k] = c
      BY <1>c DEF Claim
    <2>2. ASSUME NEW d \in Calls, Rung(d), d \notin aged \cup released
          PROVE  claimedBy'[keyOf[d]] = d
      <3>1. claimedBy[keyOf[d]] = d /\ keyOf[d] \in Keys /\ Exists(d) /\ d # NoCall
        BY <2>2, ConstantsAssumption DEF ClaimHeld
      <3>2. keyOf[d] # k
        BY <1>c, <2>2, <3>1 DEF Deduped
      <3> QED BY <1>c, <2>2, <3>1, <3>2 DEF Claim
    <2> QED BY <2>1, <2>2
  <1>2. ASSUME NEW c \in Calls, NEW k \in Keys, NEW kd \in Kinds, Dial(c, k, kd)
        PROVE  ClaimHeld'
    <2>1. /\ claimedBy'[k] = c /\ c \notin aged
          /\ \A d \in Calls : Rung(d) /\ d \notin aged \cup released
                                => claimedBy'[keyOf[d]] = d
      BY <1>2, <1>c DEF Dial, Unused
    <2>2. ~Exists(c) /\ c \notin released
      BY <1>2 DEF Dial, Unused, Exists, ClaimHeld
    <2>3. Exists(c)' /\ keyOf'[c] = k /\ UNCHANGED <<line, aged, released>>
      BY <1>2 DEF Dial, Exists, TypeOK
    <2>4. \A d \in Calls \ {c} : keyOf'[d] = keyOf[d] /\ dialing'[d] = dialing[d]
      BY <1>2 DEF Dial, TypeOK
    <2>5. \A d \in Calls \ {c} : Rung(d)' <=> Rung(d)
      BY <2>3, <2>4 DEF Rung
    <2> QED BY <1>e, <2>1, <2>2, <2>3, <2>4, <2>5 DEF ClaimHeld
  <1>3. ASSUME NEW c \in Calls, NEW k \in Keys, DialTorn(c, k)
        PROVE  ClaimHeld'
    <2>1. \A d \in Calls : Rung(d) /\ d \notin aged \cup released
                             => claimedBy'[keyOf[d]] = d
      BY <1>3, <1>c DEF DialTorn
    <2>2. UNCHANGED <<line, keyOf, aged, released>> /\ \A d \in Calls : dialing'[d] = "no"
      BY <1>3, <1>h DEF DialTorn
    <2>3. \A d \in Calls : Rung(d)' => Rung(d)
      BY <2>2 DEF Rung
    <2> QED BY <1>e, <2>1, <2>2, <2>3 DEF ClaimHeld
  <1>4. ASSUME NEW c \in Calls, DialAccepted(c) PROVE ClaimHeld'
    <2>1. \A d \in Calls : Rung(d)' => Rung(d)
      BY <1>4 DEF DialAccepted, Rung, TypeOK
    <2>2. \A d \in Calls : dialing'[d] # "no" => dialing[d] # "no"
      BY <1>4 DEF DialAccepted, TypeOK
    <2>3. UNCHANGED <<keyOf, claimedBy, aged, released>>
      BY <1>4 DEF DialAccepted
    <2> QED BY <1>e, <2>1, <2>2, <2>3 DEF ClaimHeld
  <1>5. ASSUME NEW c \in Calls, NEW b \in BOOLEAN, DialResolved(c, b) PROVE ClaimHeld'
    BY <1>1, <1>5 DEF DialResolved, TypeOK
  <1>6. ASSUME NEW c \in Calls, NEW cut \in Cuts, DialFailed(c, cut)
        PROVE  ClaimHeld'
    <2>1. /\ dialing[c] # "no" /\ Rung(c)
          /\ claimedBy' = [claimedBy EXCEPT ![keyOf[c]] = NoCall]
          /\ released' = released \cup {c} /\ UNCHANGED <<line, keyOf, aged>>
      BY <1>6 DEF DialFailed, Rung
    <2>2. /\ dialing'[c] = "no"
          /\ \A d \in Calls : dialing'[d] # "no" => dialing'[d] = dialing[d]
      BY <1>6, <1>h DEF DialFailed, TypeOK
    <2>3. claimedBy[keyOf[c]] = c /\ keyOf[c] \in Keys /\ Exists(c)
      BY <2>1 DEF ClaimHeld
    <2>4. \A d \in Calls : Rung(d)' => Rung(d)
      BY <2>1, <2>2 DEF Rung
    <2>5. ASSUME NEW d \in Calls, Rung(d), d \notin aged \cup released, d # c
          PROVE  claimedBy'[keyOf[d]] = d
      <3>1. claimedBy[keyOf[d]] = d /\ keyOf[d] \in Keys
        BY <2>5 DEF ClaimHeld
      <3> QED BY <2>1, <2>3, <2>5, <3>1 DEF TypeOK
    <2> QED BY <1>e, <2>1, <2>2, <2>3, <2>4, <2>5 DEF ClaimHeld
  <1>7. ASSUME NEW c \in Calls, WindowPasses(c) PROVE ClaimHeld'
    BY <1>7, <1>e DEF WindowPasses, ClaimHeld, Rung
  <1>8. CASE shutdown \/ startGateway \/ UNCHANGED vars
    BY <1>1, <1>8, <1>h DEF shutdown, startGateway, vars
  <1>9. ASSUME UNCHANGED <<keyOf, claimedBy, aged, released>>,
               UNCHANGED dialing \/ Halt,
               \A d \in Calls : line'[d] # "none" => line[d] # "none"
        PROVE  ClaimHeld'
    BY <1>1, <1>9, <1>h
  <1>10. ASSUME NEW c \in Calls, NEW b \in BOOLEAN,
                \/ endOffDeviceFinish(c, b) \/ LineMoves(c)
         PROVE  ClaimHeld'
    <2>1. \A d \in Calls : line'[d] # "none" => line[d] # "none"
      BY <1>10 DEF endOffDeviceFinish, LineMoves, CarrierSteps, PlatformSteps, TypeOK
    <2> QED BY <1>9, <1>10, <2>1 DEF endOffDeviceFinish, LineMoves
  <1>11. ASSUME NEW c \in Calls,
                \/ createRehearsal(c)
                \/ DurationTimer(c) \/ endOffDeviceCall(c) \/ PlatformAnswers(c)
                \/ PollError(c) \/ DeadlinePasses(c)
         PROVE  ClaimHeld'
    BY <1>9, <1>11 DEF createRehearsal, DurationTimer, EndNow, EndRequest,
       endOffDeviceCall, PlatformAnswers, PollError, DeadlinePasses
  <1>12. ASSUME NEW c \in Calls, NEW cut \in Cuts, NEW b \in BOOLEAN,
                endCallFinish(c, b, cut)
         PROVE  ClaimHeld'
    <2>1. \A d \in Calls : line'[d] # "none" => line[d] # "none"
      BY <1>12 DEF endCallFinish, LineLive, TypeOK
    <2> QED BY <1>9, <1>12, <2>1 DEF endCallFinish
  <1>13. ASSUME NEW c \in Calls, NEW cut \in Cuts,
                \/ endCall(c, cut) \/ pollOnce(c, cut) \/ apply(c, cut)
                \/ \E raw \in CarrierStates : handleStatusCallback(c, raw, cut)
         PROVE  ClaimHeld'
    BY <1>9, <1>13 DEF endCall, EndNow, EndRequest, pollOnce, apply,
       handleStatusCallback
  <1> QED BY <1>2, <1>3, <1>4, <1>5, <1>6, <1>7, <1>8, <1>10, <1>11, <1>12, <1>13
          DEF Next

LEMMA ClaimInvariant ==
  ASSUME "slowDial" \notin Faults
  PROVE  Spec => []ClaimHeld
  <1>1. Init => ClaimHeld
    BY DEF Init, ClaimHeld, Rung
  <1>2. TypeOK /\ MemoryMatchesStore /\ ClaimHeld /\ [Next]_vars => ClaimHeld'
    BY ClaimStep
  <1> QED BY <1>1, <1>2, BaseInvariant, PTL DEF Spec

(* Of the calls of one key inside its window that are being placed, ring   *)
(* or rang, at most one did not give the key back, if no dial outlives it. *)
THEOREM OneKeeper ==
  ASSUME "slowDial" \notin Faults
  PROVE  Spec => []OneRingPerWindow
  <1>1. ClaimHeld => OneRingPerWindow
    BY DEF ClaimHeld, OneRingPerWindow
  <1> QED BY <1>1, ClaimInvariant, PTL

(* A dial that threw did so before its phone rang, unless an answer of the *)
(* carrier can be lost.                                                    *)
RefusedUnheard ==
  \A c \in Calls :
    /\ dialing[c] = "placing" => line[c] = "none"
    /\ c \in released => ~Rung(c)

LEMMA RefusedStep ==
  ASSUME "answerLost" \notin Faults, TypeOK, ClaimHeld, RefusedUnheard, [Next]_vars
  PROVE  RefusedUnheard'
  <1> USE DEF store, memory, world
  <1>1. ASSUME \A d \in Calls : line'[d] # "none" => line[d] # "none",
               \A d \in Calls : dialing'[d] = "no" \/ dialing'[d] = dialing[d],
               UNCHANGED released
        PROVE  RefusedUnheard'
    BY <1>1 DEF RefusedUnheard, Rung
  <1>h. ASSUME Halt PROVE \A d \in Calls : dialing'[d] = "no"
    BY <1>h DEF Halt
  <1>2. ASSUME NEW c \in Calls, NEW k \in Keys, NEW kd \in Kinds, Dial(c, k, kd)
        PROVE  RefusedUnheard'
    <2>1. ~Rung(c) /\ c \notin released
      BY <1>2 DEF Dial, Unused, ClaimHeld, Exists
    <2>2. /\ UNCHANGED <<line, released>>
          /\ \A d \in Calls \ {c} : dialing'[d] = dialing[d]
      BY <1>2 DEF Dial, TypeOK
    <2> QED BY <2>1, <2>2 DEF RefusedUnheard, Rung
  <1>3. ASSUME NEW c \in Calls, DialAccepted(c)
        PROVE  RefusedUnheard'
    <2>1. Rung(c) /\ c \notin released
      BY <1>3 DEF DialAccepted, RefusedUnheard, Rung
    <2>2. /\ dialing'[c] = "accepted" /\ UNCHANGED released
          /\ \A d \in Calls \ {c} : dialing'[d] = dialing[d] /\ line'[d] = line[d]
      BY <1>3 DEF DialAccepted, TypeOK
    <2> QED BY <2>1, <2>2 DEF RefusedUnheard, Rung
  <1>4. ASSUME NEW c \in Calls, NEW cut \in Cuts, DialFailed(c, cut)
        PROVE  RefusedUnheard'
    <2>1. line[c] = "none" /\ released' = released \cup {c} /\ UNCHANGED line
      BY <1>4 DEF DialFailed, RefusedUnheard
    <2>2. /\ dialing'[c] = "no"
          /\ \A d \in Calls : dialing'[d] = "no" \/ dialing'[d] = dialing[d]
      BY <1>4, <1>h DEF DialFailed, TypeOK
    <2> QED BY <2>1, <2>2 DEF RefusedUnheard, Rung
  <1>5. ASSUME NEW c \in Calls, NEW b \in BOOLEAN,
               DialResolved(c, b) \/ endOffDeviceFinish(c, b) \/ LineMoves(c)
        PROVE  RefusedUnheard'
    <2>1. \A d \in Calls : line'[d] # "none" => line[d] # "none"
      BY <1>5 DEF DialResolved, endOffDeviceFinish, LineMoves, CarrierSteps,
                  PlatformSteps, TypeOK
    <2>2. \A d \in Calls : dialing'[d] = "no" \/ dialing'[d] = dialing[d]
      BY <1>5 DEF DialResolved, endOffDeviceFinish, LineMoves, TypeOK
    <2> QED BY <1>1, <1>5, <2>1, <2>2 DEF DialResolved, endOffDeviceFinish, LineMoves
  <1>6. ASSUME UNCHANGED released, UNCHANGED dialing \/ Halt,
               \A d \in Calls : line'[d] # "none" => line[d] # "none"
        PROVE  RefusedUnheard'
    BY <1>1, <1>6, <1>h
  <1>7. ASSUME NEW c \in Calls, NEW cut \in Cuts, NEW b \in BOOLEAN,
               endCallFinish(c, b, cut)
        PROVE  RefusedUnheard'
    <2>1. \A d \in Calls : line'[d] # "none" => line[d] # "none"
      BY <1>7 DEF endCallFinish, LineLive, TypeOK
    <2> QED BY <1>6, <1>7, <2>1 DEF endCallFinish
  <1>8. ASSUME NEW c \in Calls,
               \/ createRehearsal(c) \/ WindowPasses(c)
               \/ DurationTimer(c) \/ endOffDeviceCall(c) \/ PlatformAnswers(c)
               \/ PollError(c) \/ DeadlinePasses(c)
        PROVE  RefusedUnheard'
    BY <1>6, <1>8 DEF createRehearsal, WindowPasses, DurationTimer, EndNow,
       EndRequest, endOffDeviceCall, PlatformAnswers, PollError, DeadlinePasses
  <1>9. ASSUME NEW c \in Calls, NEW cut \in Cuts,
               \/ endCall(c, cut) \/ pollOnce(c, cut) \/ apply(c, cut)
               \/ \E raw \in CarrierStates : handleStatusCallback(c, raw, cut)
        PROVE  RefusedUnheard'
    BY <1>6, <1>9 DEF endCall, EndNow, EndRequest, pollOnce, apply,
       handleStatusCallback
  <1>10. CASE shutdown \/ startGateway \/ UNCHANGED vars
    BY <1>6, <1>10 DEF shutdown, startGateway, vars
  <1>11. ASSUME NEW c \in Calls, NEW k \in Keys, DialTorn(c, k)
         PROVE  RefusedUnheard'
    BY <1>6, <1>11 DEF DialTorn
  <1> QED BY <1>2, <1>3, <1>4, <1>5, <1>7, <1>8, <1>9, <1>10, <1>11 DEF Next

(* A retry inside the window never rings the person twice: every dial that *)
(* reached a phone is counted, whatever became of it. It rests on no dial  *)
(* being slower than the window and on no answer to a dial being lost;     *)
(* with either the model rings twice.                                      *)
THEOREM OneRing ==
  ASSUME "slowDial" \notin Faults, "answerLost" \notin Faults
  PROVE  Spec => []NeverRungTwice
  <1>1. Init => RefusedUnheard
    BY DEF Init, RefusedUnheard, Rung
  <1>2. TypeOK /\ ClaimHeld /\ RefusedUnheard /\ [Next]_vars => RefusedUnheard'
    BY RefusedStep
  <1>3. OneRingPerWindow /\ RefusedUnheard => NeverRungTwice
    BY DEF OneRingPerWindow, RefusedUnheard, NeverRungTwice
  <1> QED BY <1>1, <1>2, <1>3, OneKeeper, ClaimInvariant, BaseInvariant, PTL DEF Spec

-----------------------------------------------------------------------------
(* Consult bearers.  A step of a running gateway either ends it, or closes *)
(* no record that keeps its bearer and revives none that lost it.          *)
BearerMoves ==
  \/ ~up'
  \/ /\ up
     /\ \A d \in bearer' : Terminal(d)' => d \in bearer /\ Terminal(d)

LEMMA BearerCloses ==
  ASSUME TypeOK, NEW c \in Calls, NEW st \in {"completed", "failed"},
         CloseRecord(c, st, "none"), up, UNCHANGED up
  PROVE  BearerMoves
  BY DEF CloseRecord, BearerMoves, Terminal, TypeOK

LEMMA BearerStep ==
  ASSUME TypeOK, MemoryMatchesStore, BearerDiesWithCall, [Next]_vars
  PROVE  BearerDiesWithCall'
  <1> USE DEF store, memory, world
  <1>m. ASSUME BearerMoves PROVE BearerDiesWithCall'
    BY <1>m DEF BearerMoves, BearerDiesWithCall
  <1>h. ASSUME Halt PROVE BearerDiesWithCall'
    BY <1>h DEF Halt, BearerDiesWithCall
  <1>1. ASSUME UNCHANGED <<status, bearer, up>>
        PROVE  BearerDiesWithCall'
    BY <1>1 DEF BearerDiesWithCall, Terminal
  <1>2. ASSUME NEW c \in Calls, NEW st \in {"completed", "failed"}, NEW cut \in Cuts,
               CloseRecord(c, st, cut), (cut = "none" /\ UNCHANGED up) \/ Halt
        PROVE  BearerDiesWithCall'
    <2>1. CASE Halt
      BY <2>1, <1>h
    <2>2. CASE up /\ cut = "none" /\ UNCHANGED up
      BY <1>2, <2>2, <1>m, BearerCloses
    <2>3. CASE ~up /\ UNCHANGED up
      BY <2>3, <1>m DEF BearerMoves
    <2> QED BY <1>2, <2>1, <2>2, <2>3
  <1>3. ASSUME NEW c \in Calls, NEW k \in Keys, NEW kd \in Kinds, Dial(c, k, kd)
        PROVE  BearerDiesWithCall'
    BY <1>3 DEF Dial, BearerDiesWithCall, Terminal, TypeOK
  <1>4. ASSUME NEW c \in Calls, createRehearsal(c)
        PROVE  BearerDiesWithCall'
    BY <1>4 DEF createRehearsal, BearerDiesWithCall, Terminal, TypeOK
  <1>5. ASSUME NEW c \in Calls, NEW cut \in Cuts, DialFailed(c, cut)
        PROVE  BearerDiesWithCall'
    BY <1>5, <1>2 DEF DialFailed
  <1>6. ASSUME NEW c \in Calls, NEW cut \in Cuts, EndNow(c, cut)
        PROVE  BearerDiesWithCall'
    BY <1>6, <1>2 DEF EndNow
  <1>7. ASSUME NEW c \in Calls, EndRequest(c)
        PROVE  BearerDiesWithCall'
    BY <1>7, <1>1 DEF EndRequest
  <1>n. "none" \in Cuts
    BY DEF Cuts
  <1>8. ASSUME NEW c \in Calls, NEW cut \in Cuts, endCall(c, cut)
        PROVE  BearerDiesWithCall'
    BY <1>6, <1>7, <1>8 DEF endCall
  <1>9. ASSUME NEW c \in Calls, NEW cut \in Cuts, NEW b \in BOOLEAN,
               endCallFinish(c, b, cut)
        PROVE  BearerDiesWithCall'
    BY <1>9, <1>2 DEF endCallFinish
  <1>10. ASSUME NEW c \in Calls, DurationTimer(c)
         PROVE  BearerDiesWithCall'
    BY <1>1, <1>6, <1>7, <1>n, <1>10 DEF DurationTimer
  <1>11. ASSUME NEW c \in Calls, NEW cut \in Cuts, pollOnce(c, cut)
         PROVE  BearerDiesWithCall'
    <2>1. CASE Halt
      BY <2>1, <1>h
    <2>2. CASE UNCHANGED <<status, bearer, up>>
      BY <2>2, <1>1
    <2>3. CASE CloseRecord(c, "failed", cut) /\ cut = "none" /\ UNCHANGED up
      BY <1>2, <2>3
    <2> QED BY <1>11, <2>1, <2>2, <2>3 DEF pollOnce
  <1>12. ASSUME NEW c \in Calls, NEW cut \in Cuts, apply(c, cut)
         PROVE  BearerDiesWithCall'
    <2> DEFINE mapped == AGENT_STATUS_MAP[poller[c]]
    <2>1. CASE Halt
      BY <2>1, <1>h
    <2>2. CASE UNCHANGED <<status, bearer, up>>
      BY <2>2, <1>1
    <2>3. CASE /\ mapped \in TERMINAL_STATUSES /\ CloseRecord(c, mapped, cut)
               /\ cut = "none" /\ UNCHANGED up
      BY <1>2, <2>3
    <2>4. CASE /\ mapped \notin TERMINAL_STATUSES
               /\ status' = [status EXCEPT ![c] = mapped]
               /\ UNCHANGED <<bearer, up>>
      BY <2>4 DEF BearerDiesWithCall, Terminal, TypeOK
    <2> QED BY <1>12, <2>1, <2>2, <2>3, <2>4 DEF apply
  <1>13. ASSUME NEW c \in Calls, NEW cut \in Cuts, NEW raw \in CarrierStates,
                handleStatusCallback(c, raw, cut)
         PROVE  BearerDiesWithCall'
    <2> DEFINE mapped == TWILIO_STATUS_MAP[raw]
    <2>1. CASE Halt
      BY <2>1, <1>h
    <2>2. CASE UNCHANGED <<status, bearer, up>>
      BY <2>2, <1>1
    <2>3. CASE /\ mapped \in TERMINAL_STATUSES /\ CloseRecord(c, mapped, cut)
               /\ cut = "none" /\ UNCHANGED up
      BY <1>2, <2>3
    <2>4. CASE /\ mapped \notin TERMINAL_STATUSES
               /\ status' = [status EXCEPT ![c] = mapped]
               /\ UNCHANGED <<bearer, up>>
      BY <2>4 DEF BearerDiesWithCall, Terminal, TypeOK
    <2> QED BY <1>13, <2>1, <2>2, <2>3, <2>4 DEF handleStatusCallback
  <1>14. CASE startGateway
    BY <1>14 DEF startGateway, BearerDiesWithCall, Swept, Terminal, TypeOK
  <1>15. CASE shutdown \/ UNCHANGED vars
    BY <1>1, <1>h, <1>15 DEF shutdown, vars
  <1>16. ASSUME NEW c \in Calls, NEW k \in Keys, DialTorn(c, k)
         PROVE  BearerDiesWithCall'
    BY <1>16, <1>h DEF DialTorn
  <1>17. ASSUME NEW c \in Calls, NEW b \in BOOLEAN,
                \/ DialResolved(c, b) \/ endOffDeviceFinish(c, b)
                \/ DialAccepted(c) \/ endOffDeviceCall(c)
                \/ PlatformAnswers(c) \/ PollError(c) \/ LineMoves(c)
                \/ WindowPasses(c) \/ DeadlinePasses(c)
         PROVE  BearerDiesWithCall'
    BY <1>1, <1>17 DEF DialResolved, endOffDeviceFinish, DialAccepted,
       endOffDeviceCall, PlatformAnswers, PollError, LineMoves, WindowPasses,
       DeadlinePasses
  <1> QED BY <1>3, <1>4, <1>5, <1>8, <1>9, <1>10, <1>11, <1>12, <1>13, <1>14,
          <1>15, <1>16, <1>17 DEF Next

(* While the gateway is up no closed call keeps a consult bearer: each     *)
(* closing deletes it, and a restart sweeps what a crash left behind.      *)
THEOREM BearersDie == Spec => []BearerDiesWithCall
  <1>1. Init => BearerDiesWithCall
    BY DEF Init, BearerDiesWithCall
  <1> QED BY <1>1, BearerStep, BaseInvariant, PTL DEF Spec

-----------------------------------------------------------------------------
(* Watchers.  What LiveCallWatched says of one call, with every row that   *)
(* is there while the gateway is down being one that survives; and the     *)
(* steps that leave it alone: the gateway goes down, the record is closed, *)
(* or nothing that attends to the call is taken away.                      *)
Watched(d) ==
  /\ up /\ Exists(d) /\ ~Terminal(d) => Attended(d) \/ Unwatched(d)
  /\ ~up /\ Exists(d) => d \in survived

WatchKept(d) ==
  \/ ~up' /\ (Exists(d)' => d \in survived')
  \/ /\ UNCHANGED <<up, survived>>
     /\ Exists(d)' => Exists(d)
     /\ \/ Terminal(d)'
        \/ /\ kind'[d] = kind[d]
           /\ d \in sid' => d \in sid
           /\ claims[d] \subseteq claims'[d]
           /\ dialing[d] # "no" => dialing'[d] # "no"
           /\ ending[d] > 0 => ending'[d] > 0
           /\ d \in timer => d \in timer' \/ ending'[d] > 0
           /\ poller[d] # "none" =>
                \/ poller'[d] # "none"
                \/ OffDevice(d) /\ "el:terminal" \in claims'[d]

LEMMA WatchKeeps ==
  ASSUME NEW d \in Calls, Watched(d), StatusMoves(d), WatchKept(d)
  PROVE  Watched(d)'
  <1>1. ~Terminal(d)' => ~Terminal(d)
    BY DEF StatusMoves, Terminal, Unused, TERMINAL_STATUSES
  <1> QED BY <1>1 DEF Watched, WatchKept, Attended, Unwatched, OffDevice

LEMMA WatchStep ==
  ASSUME TypeOK, MemoryMatchesStore, [Next]_vars, NEW d \in Calls, Watched(d)
  PROVE  Watched(d)'
  <1> USE DEF store, memory, world
  <1>s. StatusMoves(d)
    BY StatusStep
  <1>k. ASSUME WatchKept(d) PROVE Watched(d)'
    BY <1>k, <1>s, WatchKeeps
  <1>h. ASSUME Halt, Exists(d)' => Exists(d) PROVE Watched(d)'
    BY <1>h, <1>k DEF Halt, WatchKept
  <1>p. poller[d] # "none" => OffDevice(d)
    BY DEF MemoryMatchesStore
  <1>1. ASSUME UNCHANGED <<up, survived, kind, sid, dialing>>, Exists(d)' => Exists(d),
               claims[d] \subseteq claims'[d], timer \subseteq timer',
               ending[d] > 0 => ending'[d] > 0,
               poller[d] # "none" => poller'[d] # "none"
        PROVE  Watched(d)'
    BY <1>1, <1>k DEF WatchKept
  (* A record closed, its watchers let go or the process with them.        *)
  <1>2. ASSUME NEW c \in Calls, Exists(c), NEW st \in {"completed", "failed"},
               NEW cut \in Cuts, CloseRecord(c, st, cut),
               UNCHANGED <<kind, sid>>,
               \A e \in Calls : claims[e] \subseteq claims'[e],
               \/ Halt
               \/ /\ cut = "none" /\ UNCHANGED <<up, survived>>
                  /\ timer \ {c} \subseteq timer'
                  /\ \A e \in Calls \ {c} : /\ poller'[e] = poller[e]
                                            /\ dialing'[e] = dialing[e]
                                            /\ ending'[e] = ending[e]
        PROVE  Watched(d)'
    <2>1. Exists(d)' => Exists(d)
      BY <1>2 DEF CloseRecord, Exists, TypeOK
    <2>2. CASE Halt
      BY <1>h, <2>1, <2>2
    <2>3. CASE d = c /\ ~Halt
      BY <1>2, <1>k, <2>1, <2>3 DEF CloseRecord, Terminal, WatchKept, TypeOK
    <2>4. CASE d # c /\ ~Halt
      BY <1>2, <1>k, <2>1, <2>4 DEF WatchKept
    <2> QED BY <2>2, <2>3, <2>4
  <1>3. ASSUME NEW c \in Calls, NEW k \in Keys, NEW kd \in Kinds, Dial(c, k, kd)
        PROVE  Watched(d)'
    <2>1. CASE d = c
      BY <1>3, <2>1 DEF Dial, Watched, Attended, TypeOK
    <2>2. CASE d # c
      BY <1>3, <1>k, <2>2 DEF Dial, WatchKept, Exists, TypeOK
    <2> QED BY <2>1, <2>2
  <1>4. ASSUME NEW c \in Calls, createRehearsal(c)
        PROVE  Watched(d)'
    <2>1. CASE d = c
      BY <1>4, <2>1 DEF createRehearsal, armDurationTimer, Watched, Attended
    <2>2. CASE d # c
      BY <1>4, <1>k, <2>2 DEF createRehearsal, armDurationTimer, WatchKept,
         Exists, TypeOK
    <2> QED BY <2>1, <2>2
  <1>5. ASSUME NEW c \in Calls, NEW b \in BOOLEAN, DialResolved(c, b)
        PROVE  Watched(d)'
    <2>1. CASE d = c
      <3>1. Attended(d)'
        BY <1>5, <2>1 DEF DialResolved, armDurationTimer, Attended, TypeOK
      <3>2. up' /\ up
        BY <1>5, <2>1 DEF DialResolved, MemoryMatchesStore
      <3> QED BY <3>1, <3>2 DEF Watched
    <2>2. CASE d # c
      BY <1>5, <1>k, <2>2 DEF DialResolved, armDurationTimer, WatchKept, Exists, TypeOK
    <2> QED BY <2>1, <2>2
  <1>6. ASSUME NEW c \in Calls, NEW cut \in Cuts, DialFailed(c, cut)
        PROVE  Watched(d)'
    <2>1. Exists(c)
      BY <1>6 DEF DialFailed, MemoryMatchesStore, Placed
    <2> QED BY <1>2, <1>6, <2>1 DEF DialFailed, TypeOK
  <1>7. ASSUME NEW c \in Calls, Exists(c), NEW cut \in Cuts, EndNow(c, cut)
        PROVE  Watched(d)'
    BY <1>2, <1>7 DEF EndNow
  <1>8. ASSUME NEW c \in Calls, EndRequest(c), timer \ {c} \subseteq timer'
        PROVE  Watched(d)'
    BY <1>8, <1>k DEF EndRequest, WatchKept, Exists, TypeOK
  <1>9. ASSUME NEW c \in Calls, NEW cut \in Cuts, endCall(c, cut)
        PROVE  Watched(d)'
    BY <1>7, <1>8, <1>9 DEF endCall
  <1>10. ASSUME NEW c \in Calls, NEW cut \in Cuts, NEW b \in BOOLEAN,
                endCallFinish(c, b, cut)
         PROVE  Watched(d)'
    <2>1. Exists(c)
      BY <1>10 DEF endCallFinish, MemoryMatchesStore
    <2> QED BY <1>2, <1>10, <2>1 DEF endCallFinish, TypeOK
  <1>11. ASSUME NEW c \in Calls, DurationTimer(c)
         PROVE  Watched(d)'
    <2>0. Exists(c)
      BY <1>11 DEF DurationTimer, MemoryMatchesStore
    <2>1. CASE /\ Terminal(c) /\ timer' = timer \ {c}
               /\ UNCHANGED <<status, up, dialing, ending, survived, kind, sid, claims, poller>>
      BY <1>k, <2>1 DEF WatchKept, Terminal, Exists
    <2>2. CASE EndNow(c, "none")
      BY <1>7, <2>0, <2>2 DEF Cuts
    <2>3. CASE timer' = timer \ {c} /\ EndRequest(c)
      BY <1>8, <2>3
    <2> QED BY <1>11, <2>1, <2>2, <2>3 DEF DurationTimer
  <1>12. ASSUME NEW c \in Calls, NEW cut \in Cuts, pollOnce(c, cut)
         PROVE  Watched(d)'
    <2> USE DEF PollerStop
    <2>0. /\ UNCHANGED <<kind, sid>>
          /\ \/ UNCHANGED <<up, survived, dialing, ending, timer>> /\ cut = "none"
             \/ Halt
          /\ \A e \in Calls : claims[e] \subseteq claims'[e]
      BY <1>12 DEF pollOnce, TypeOK
    <2>x. Exists(c)
      BY <1>12 DEF pollOnce, MemoryMatchesStore, Placed
    <2>1. CASE /\ Terminal(c) /\ PollerStop(c)
               /\ UNCHANGED <<status, up, survived, dialing, ending, timer>>
      BY <2>0, <2>1, <1>k DEF WatchKept, Terminal, Exists, TypeOK
    <2>2. CASE /\ poller' = [poller EXCEPT ![c] = "asked"]
               /\ UNCHANGED <<status, up, survived, dialing, ending, timer>>
      BY <2>0, <2>2, <1>k DEF WatchKept, Exists, TypeOK
    <2>3. CASE /\ "el:terminal" \in claims'[c] /\ PollerStop(c)
               /\ UNCHANGED <<status, up, survived, dialing, ending, timer>>
      BY <2>0, <2>3, <1>k, <1>p DEF WatchKept, Exists, TypeOK
    <2>4. CASE CloseRecord(c, "failed", cut) /\ (Halt \/ PollerStop(c))
      BY <2>0, <2>x, <2>4, <1>2 DEF TypeOK
    <2>5. \/ CloseRecord(c, "failed", cut) /\ (Halt \/ PollerStop(c))
          \/ /\ \/ Terminal(c) /\ PollerStop(c)
                \/ poller' = [poller EXCEPT ![c] = "asked"]
                \/ "el:terminal" \in claims'[c] /\ PollerStop(c)
             /\ UNCHANGED <<status, up, survived, dialing, ending, timer>>
      BY <1>12 DEF pollOnce, TypeOK
    <2> QED BY <2>1, <2>2, <2>3, <2>4, <2>5
  <1>13. ASSUME NEW c \in Calls, NEW cut \in Cuts, apply(c, cut)
         PROVE  Watched(d)'
    <2> USE DEF PollerStop
    <2> DEFINE mapped == AGENT_STATUS_MAP[poller[c]]
    <2>0. /\ UNCHANGED <<kind, sid>>
          /\ \/ UNCHANGED <<up, survived, dialing, ending, timer>> /\ cut = "none"
             \/ Halt
          /\ \A e \in Calls : claims[e] \subseteq claims'[e]
      BY <1>13 DEF apply, TypeOK
    <2>x. Exists(c)
      BY <1>13 DEF apply, AGENT_STATUS_MAP, MemoryMatchesStore, Placed
    <2>1. CASE /\ Terminal(c) /\ PollerStop(c)
               /\ UNCHANGED <<status, up, survived, dialing, ending, timer>>
      BY <2>0, <2>1, <1>k DEF WatchKept, Terminal, Exists, TypeOK
    <2>2. CASE /\ poller' = [poller EXCEPT ![c] = "idle"]
               /\ UNCHANGED <<up, survived, dialing, ending, timer>>
               /\ Exists(d)' => Exists(d)
      BY <2>0, <2>2, <1>k DEF WatchKept, TypeOK
    <2>3. CASE /\ "el:terminal" \in claims'[c] /\ PollerStop(c)
               /\ UNCHANGED <<status, up, survived, dialing, ending, timer>>
      BY <2>0, <2>3, <1>k, <1>p DEF WatchKept, Exists, TypeOK
    <2>4. CASE /\ mapped \in TERMINAL_STATUSES /\ CloseRecord(c, mapped, cut)
               /\ Halt \/ PollerStop(c)
      BY <2>0, <2>x, <2>4, <1>2 DEF TypeOK
    <2>5. CASE Halt /\ (Exists(d)' => Exists(d))
      BY <1>h, <2>5
    <2> HIDE DEF mapped
    <2>6. \/ /\ \/ Terminal(c) /\ PollerStop(c)
                \/ "el:terminal" \in claims'[c] /\ PollerStop(c)
             /\ UNCHANGED <<status, up, survived, dialing, ending, timer>>
          \/ /\ \/ /\ poller' = [poller EXCEPT ![c] = "idle"]
                   /\ UNCHANGED <<up, survived, dialing, ending, timer>>
                \/ Halt
             /\ status' = status \/ status' = [status EXCEPT ![c] = mapped]
          \/ /\ mapped \in TERMINAL_STATUSES /\ CloseRecord(c, mapped, cut)
             /\ Halt \/ PollerStop(c)
      BY <1>13 DEF apply, TypeOK, mapped
    <2>7. status' = status \/ status' = [status EXCEPT ![c] = mapped]
            => (Exists(d)' => Exists(d))
      BY <2>x DEF Exists, TypeOK
    <2> QED BY <2>1, <2>2, <2>3, <2>4, <2>5, <2>6, <2>7
  <1>14. ASSUME NEW c \in Calls, NEW cut \in Cuts, NEW raw \in CarrierStates,
                handleStatusCallback(c, raw, cut)
         PROVE  Watched(d)'
    <2> DEFINE mapped == TWILIO_STATUS_MAP[raw]
    <2>0. /\ UNCHANGED <<kind, sid>> /\ (UNCHANGED <<up, survived, dialing, ending>> \/ Halt)
          /\ \A e \in Calls : claims[e] \subseteq claims'[e]
          /\ Exists(c)
      BY <1>14 DEF handleStatusCallback, TypeOK, MemoryMatchesStore, Placed
    <2>1. CASE /\ status' = status \/ status' = [status EXCEPT ![c] = mapped]
               /\ UNCHANGED <<up, survived, dialing, ending, timer, poller>> \/ Halt
      <3>1. Exists(d)' => Exists(d)
        BY <2>0, <2>1 DEF Exists, TypeOK
      <3> QED BY <2>0, <2>1, <3>1, <1>1, <1>h
    <2>2. CASE /\ mapped \in TERMINAL_STATUSES /\ CloseRecord(c, mapped, cut)
               /\ \/ Halt
                  \/ /\ cut = "none" /\ timer' = timer \ {c}
                     /\ UNCHANGED <<up, survived, dialing, ending, poller>>
      BY <2>0, <2>2, <1>2
    <2> HIDE DEF mapped
    <2>3. \/ /\ status' = status \/ status' = [status EXCEPT ![c] = mapped]
             /\ UNCHANGED <<up, survived, dialing, ending, timer, poller>> \/ Halt
          \/ /\ mapped \in TERMINAL_STATUSES /\ CloseRecord(c, mapped, cut)
             /\ \/ Halt
                \/ /\ cut = "none" /\ timer' = timer \ {c}
                   /\ UNCHANGED <<up, survived, dialing, ending, poller>>
      BY <1>14 DEF handleStatusCallback, mapped
    <2> QED BY <2>1, <2>2, <2>3
  (* A restart arms the timers and pollers of the rows it resumes, and     *)
  (* every row it finds has survived.                                      *)
  <1>15. CASE startGateway
    <2>1. Exists(d)' => d \in survived'
      BY <1>15 DEF startGateway, Watched, Exists
    <2>2. /\ Exists(d)' /\ ~Terminal(d)' /\ OffDevice(d)' /\ d \in sid'
               => poller'[d] # "none"
          /\ Exists(d)' /\ ~Terminal(d)' /\ kind'[d] = "rehearsal" => d \in timer'
      BY <1>15 DEF startGateway, Resumed, Resumable, Active, OffDevice, Exists, Terminal
    <2>3. OffDevice(d)' \/ kind'[d] \in {"rehearsal", "device"}
      BY <1>15 DEF startGateway, OffDevice, TypeOK
    <2>4. up'
      BY <1>15 DEF startGateway
    <2> QED BY <2>1, <2>2, <2>3, <2>4 DEF Watched, Attended, Unwatched
  <1>16. CASE shutdown \/ UNCHANGED vars
    BY <1>1, <1>h, <1>16 DEF shutdown, vars, Exists
  <1>17. ASSUME NEW c \in Calls, NEW k \in Keys, DialTorn(c, k)
         PROVE  Watched(d)'
    BY <1>17, <1>h DEF DialTorn, Exists
  <1>18. ASSUME NEW c \in Calls, NEW b \in BOOLEAN,
                \/ endOffDeviceFinish(c, b) \/ DialAccepted(c) \/ endOffDeviceCall(c)
                \/ PlatformAnswers(c) \/ PollError(c) \/ LineMoves(c)
                \/ WindowPasses(c) \/ DeadlinePasses(c)
         PROVE  Watched(d)'
    <2>1. /\ UNCHANGED <<status, up, survived, kind, sid, ending, timer>>
          /\ claims[d] \subseteq claims'[d]
          /\ dialing[d] # "no" => dialing'[d] # "no"
      BY <1>18 DEF endOffDeviceFinish, DialAccepted, endOffDeviceCall,
         PlatformAnswers, PollError, LineMoves, WindowPasses, DeadlinePasses, TypeOK
    <2>2. poller[d] # "none" => poller'[d] # "none"
      <3>1. CASE PlatformAnswers(c)
        <4>1. line[c] # "none"
          BY <3>1 DEF PlatformAnswers, MemoryMatchesStore
        <4> QED BY <3>1, <4>1 DEF PlatformAnswers, TypeOK
      <3>2. CASE PollError(c)
        BY <3>2 DEF PollError, TypeOK
      <3> QED BY <1>18, <3>1, <3>2 DEF endOffDeviceFinish, DialAccepted,
              endOffDeviceCall, LineMoves, WindowPasses, DeadlinePasses
    <2> QED BY <2>1, <2>2, <1>k DEF WatchKept, Exists
  <1> QED BY <1>3, <1>4, <1>5, <1>6, <1>9, <1>10, <1>11, <1>12, <1>13, <1>14,
          <1>15, <1>16, <1>17, <1>18 DEF Next

(* While the gateway is up, a pending dial, a timer, an end_call under way *)
(* or a poller attends to every live call, across restarts, but for the    *)
(* three kinds Unwatched names.                                            *)
THEOREM LiveCallsAreWatched == Spec => []LiveCallWatched
  <1>1. Init => \A d \in Calls : Watched(d)
    BY DEF Init, Watched, Exists
  <1>2. /\ TypeOK /\ MemoryMatchesStore /\ (\A d \in Calls : Watched(d))
        /\ [Next]_vars
        => (\A d \in Calls : Watched(d))'
    BY WatchStep
  <1>3. (\A d \in Calls : Watched(d)) => LiveCallWatched
    BY DEF Watched, LiveCallWatched, Active
  <1> QED BY <1>1, <1>2, <1>3, BaseInvariant, PTL DEF Spec

(* A closed call is announced again only by who was under way when it      *)
(* closed: every other path reads the record first.                        *)
LEMMA AnnouncedAgain ==
  Spec => [][\A c \in Calls :
               Terminal(c) /\ terminalEvents'[c] # terminalEvents[c]
                 => MayAnnounceAgain(c)]_vars
  <1>1. ASSUME TypeOK, MemoryMatchesStore, Next, NEW c \in Calls,
               Terminal(c), terminalEvents'[c] # terminalEvents[c]
        PROVE  MayAnnounceAgain(c)
    BY <1>1, EventStep DEF EventMoves
  <1>2. TypeOK /\ MemoryMatchesStore /\ [Next]_vars
          => [\A c \in Calls :
                Terminal(c) /\ terminalEvents'[c] # terminalEvents[c]
                  => MayAnnounceAgain(c)]_vars
    BY <1>1
  <1> QED BY <1>2, BaseInvariant, PTL DEF Spec

(* What an observer of the event log relies on: a terminal event is true   *)
(* and stays true, an off-device call has one, a hang-up is announced      *)
(* once, and an on-device call is announced again only by who was under    *)
(* way when it closed.                                                     *)
THEOREM EventLogTellsTheTruth == Spec => EventsTellTheTruth
  BY AnnouncedAgain, TerminalEventsAreTrue, OffDeviceEventIsOne,
     HangupIsAnnouncedOnce, PTL DEF EventsTellTheTruth

(* The gates of dial and createRehearsal: no more live calls than allowed, *)
(* and of the calls that reached a phone under one key inside its window   *)
(* one that did not give the key back.  The second rests on no dial being  *)
(* slower than the window.                                                 *)
THEOREM GatesHold ==
  ASSUME "slowDial" \notin Faults
  PROVE  Spec => []DialGatesHold
  <1>1. ConcurrencyLimit /\ OneRingPerWindow => DialGatesHold
    BY DEF DialGatesHold
  <1> QED BY <1>1, ConcurrencyRespected, OneKeeper, PTL

(* What the gateway keeps for a call follows its record: somebody attends  *)
(* to it while it lives, but for the three kinds of Unwatched, and it has  *)
(* no bearer once it is closed.                                            *)
THEOREM KeptWithTheRecord == Spec => []CallsAreKept
  <1>1. LiveCallWatched /\ BearerDiesWithCall => CallsAreKept
    BY DEF CallsAreKept
  <1> QED BY <1>1, LiveCallsAreWatched, BearersDie, PTL

=============================================================================
