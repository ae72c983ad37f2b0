--------------------------- MODULE CallLifecycle ---------------------------
(***************************************************************************)
(* The life of phone calls in the telephony gateway (`serve`): the dial    *)
(* pipeline with its idempotency claim and concurrency gate, the status    *)
(* callbacks of the carrier, end_call and the duration cap, the poller of  *)
(* calls an agent platform holds, and the process going down and coming    *)
(* back over one SQLite file.                                              *)
(*                                                                         *)
(* The gateway is one Node process: code between two awaits is atomic, so  *)
(* a handler with an await is two actions.  Every SQLite statement commits *)
(* on its own, so the process can also die between two statements of one   *)
(* synchronous stretch; `cut` names the places where that matters.         *)
(***************************************************************************)
EXTENDS Naturals, FiniteSets

CONSTANTS
  Calls,          \* call ids that may ever be minted
  Keys,           \* idempotency keys (number, objective, mode, profile)
  NoCall,         \* "no row" in call_idempotency
  NoKey,          \* the key of a call that made no claim
  Kinds,          \* the kinds of call this instance places
  MaxConcurrent,  \* limits.maxConcurrentCalls
  MaxEnds,        \* bound: end_call requests in flight per call
  MaxCrashes,     \* bound: times the process goes down
  HasHangup,      \* agentPlatform.twilioHangup is configured
  Reach,          \* bound: the line states this instance's phones reach
  Faults          \* what may go wrong around the gateway

AllKinds == {"device", "delegate", "consult", "rehearsal"}
AllFaults == {"answerLost", "hangupFails", "slowDial", "torn"}

VARIABLES
  \* SQLite
  status,       \* calls.status; "none" while there is no row
  kind,         \* mode of the call's request, or a rehearsal
  keyOf,        \* the key the call was dialled under
  sid,          \* calls with provider_call_id set
  legSid,       \* calls with phone_leg_sid set
  claimedBy,    \* call_idempotency: key -> call
  claims,       \* provider_events: the keys recorded for each call
  bearer,       \* calls with a row in consult_tokens
  terminalEvents,  \* terminal events appended for each call
  hangupEvents,    \* call.hangup_requested events appended for each call
  \* memory of the process
  up, dialing, ending, hanging, timer, poller,
  \* the world: the phone leg or conversation, clocks, crashes so far
  line, aged, overdue, crashes,
  \* history: calls whose dial threw, calls with a row at the last crash
  released, survived

store == <<status, kind, keyOf, sid, legSid, claimedBy, claims, bearer,
           terminalEvents, hangupEvents>>
memory == <<up, dialing, ending, hanging, timer, poller>>
world == <<line, aged, overdue, crashes, released, survived>>
vars == <<store, memory, world>>

-----------------------------------------------------------------------------
(* Statuses and what carrier and platform report.                          *)

Rank == [none |-> 0, created |-> 0, initiated |-> 1, ringing |-> 2,
         answered |-> 3, completed |-> 4, failed |-> 4]
Statuses == {"none", "created", "initiated", "ringing", "answered",
             "completed", "failed"}
TERMINAL_STATUSES == {"completed", "failed"}

TWILIO_STATUS_MAP ==
  [initiated |-> "initiated", ringing |-> "ringing", inProgress |-> "answered",
   completed |-> "completed", noAnswer |-> "failed"]
CarrierStates == DOMAIN TWILIO_STATUS_MAP

AGENT_STATUS_MAP ==
  [initiated |-> "initiated", inProgress |-> "answered",
   processing |-> "answered", done |-> "completed", failed |-> "failed"]
PlatformStates == DOMAIN AGENT_STATUS_MAP

LineStates == {"none"} \cup CarrierStates \cup PlatformStates
OverStates == {"completed", "noAnswer", "done", "failed"}

ASSUME ConstantsAssumption ==
  /\ IsFiniteSet(Calls)
  /\ NoCall \notin Calls
  /\ NoKey \notin Keys
  /\ Kinds \subseteq AllKinds
  /\ MaxConcurrent \in Nat \ {0}
  /\ MaxEnds \in Nat
  /\ MaxCrashes \in Nat
  /\ HasHangup \in BOOLEAN
  /\ Reach \subseteq LineStates
  /\ Faults \subseteq AllFaults

(* el:status and el:terminal keys are kept apart from the carrier's keys.  *)
ElStatus == [initiated |-> "el:initiated", answered |-> "el:answered"]
ProviderKeys == CarrierStates \cup {"el:initiated", "el:answered",
                                    "el:terminal", "tel:hangup"}
PollerStates == {"none", "idle", "asked"} \cup LineStates

OffDevice(c) == kind[c] \in {"delegate", "consult"}
Terminal(c) == status[c] \in TERMINAL_STATUSES
Exists(c) == status[c] # "none"
Placed(c) == dialing[c] # "no" \/ c \in sid
Rung(c) == dialing[c] # "no" \/ line[c] # "none"
Active == {c \in Calls : Exists(c) /\ ~Terminal(c)}
activeCallCount == Cardinality(Active)
LineLive(c) == line[c] \notin {"none"} \cup OverStates

MutDeduped(k) == claimedBy[k] # NoCall /\ claimedBy[k] \notin aged
                 /\ Exists(claimedBy[k]) /\ ~Terminal(claimedBy[k])

(* The claim the dedupe lookup accepts: inside the window, with a call.    *)
Deduped(k) == /\ claimedBy[k] # NoCall
              /\ claimedBy[k] \notin aged
              /\ Exists(claimedBy[k])

(* An id no row of the store ever mentioned.                               *)
Unused(c) == /\ status[c] = "none" /\ c \notin aged
             /\ \A k \in Keys : claimedBy[k] # c

-----------------------------------------------------------------------------
Init ==
  /\ status = [c \in Calls |-> "none"]
  /\ kind = [c \in Calls |-> "device"]
  /\ keyOf = [c \in Calls |-> NoKey]
  /\ sid = {} /\ legSid = {} /\ bearer = {}
  /\ claimedBy = [k \in Keys |-> NoCall]
  /\ claims = [c \in Calls |-> {}]
  /\ terminalEvents = [c \in Calls |-> 0]
  /\ hangupEvents = [c \in Calls |-> 0]
  /\ up = TRUE
  /\ dialing = [c \in Calls |-> "no"]
  /\ ending = [c \in Calls |-> 0]
  /\ hanging = [c \in Calls |-> 0]
  /\ timer = {}
  /\ poller = [c \in Calls |-> "none"]
  /\ line = [c \in Calls |-> "none"]
  /\ aged = {} /\ overdue = {} /\ crashes = 0
  /\ released = {} /\ survived = {}

(* The process is gone with everything it held in memory.                  *)
Halt ==
  /\ crashes < MaxCrashes
  /\ crashes' = crashes + 1
  /\ survived' = {c \in Calls : Exists(c)}
  /\ up' = FALSE
  /\ dialing' = [c \in Calls |-> "no"]
  /\ ending' = [c \in Calls |-> 0]
  /\ hanging' = [c \in Calls |-> 0]
  /\ timer' = {}
  /\ poller' = [c \in Calls |-> "none"]

(* Where a stretch that closes a record may be cut short: after the        *)
(* provider_events claim, after the status update, after the event row.    *)
Cuts == IF "torn" \in Faults THEN {"none", "claimed", "recorded", "announced"}
                             ELSE {"none"}

(* updateCallStatus to a terminal status, then emit of a terminal event,   *)
(* which cancels the consult state of the call.                            *)
CloseRecord(c, st, cut) ==
  /\ status' = IF cut = "claimed" THEN status ELSE [status EXCEPT ![c] = st]
  /\ terminalEvents' = IF cut \in {"none", "announced"}
                       THEN [terminalEvents EXCEPT ![c] = @ + 1]
                       ELSE terminalEvents
  /\ bearer' = IF cut = "none" THEN bearer \ {c} ELSE bearer

-----------------------------------------------------------------------------
(* dial: everything up to the first await.                                 *)

Claim(k, c) == claimedBy' = [x \in Keys |->
                 IF x = k THEN c
                 ELSE IF claimedBy[x] \in aged THEN NoCall ELSE claimedBy[x]]

Dial(c, k, kd) ==
  /\ up /\ Unused(c) /\ ~Deduped(k)
  /\ kd \in Kinds \ {"rehearsal"}
  /\ activeCallCount < MaxConcurrent
  /\ Claim(k, c)
  /\ status' = [status EXCEPT ![c] = "created"]
  /\ kind' = [kind EXCEPT ![c] = kd]
  /\ keyOf' = [keyOf EXCEPT ![c] = k]
  /\ bearer' = IF kd = "consult" THEN bearer \cup {c} ELSE bearer
  /\ dialing' = [dialing EXCEPT ![c] = "placing"]
  /\ UNCHANGED <<sid, legSid, claims, terminalEvents, hangupEvents, up, ending,
                 hanging, timer, poller, world>>

(* The process dies between the claim and the insert of the call row.      *)
DialTorn(c, k) ==
  /\ up /\ Unused(c) /\ ~Deduped(k) /\ "torn" \in Faults
  /\ activeCallCount < MaxConcurrent
  /\ Claim(k, c)
  /\ Halt
  /\ UNCHANGED <<status, kind, keyOf, sid, legSid, claims, bearer,
                 terminalEvents, hangupEvents, line, aged, overdue,
                 released>>

(* The carrier or the platform takes the request and starts to ring.       *)
DialAccepted(c) ==
  /\ dialing[c] = "placing"
  /\ dialing' = [dialing EXCEPT ![c] = "accepted"]
  /\ line' = [line EXCEPT ![c] = "initiated"]
  /\ UNCHANGED <<store, up, ending, hanging, timer, poller, aged, overdue,
                 released, crashes, survived>>

(* The belt-and-braces cap of calls the gateway itself must end.           *)
MutArmDurationTimer(c) == timer' = timer
armDurationTimer(c) == timer' = timer \cup {c}

(* The await returns: the provider's id is stored and the call is watched, *)
(* by a duration timer or by a poller.                                     *)
DialResolved(c, hasLeg) ==
  /\ dialing[c] = "accepted"
  /\ dialing' = [dialing EXCEPT ![c] = "no"]
  /\ sid' = sid \cup {c}
  /\ IF OffDevice(c)
       THEN /\ legSid' = IF hasLeg THEN legSid \cup {c} ELSE legSid
            /\ poller' = [poller EXCEPT ![c] = "idle"]
            /\ timer' = timer
       ELSE /\ armDurationTimer(c)
            /\ UNCHANGED <<legSid, poller>>
  /\ UNCHANGED <<status, kind, keyOf, claimedBy, claims, bearer, terminalEvents,
                 hangupEvents, up, ending, hanging, world>>

(* The await throws.  The carrier refused, or its answer never arrived.    *)
DialFailed(c, cut) ==
  /\ dialing[c] = "placing" \/ (dialing[c] = "accepted" /\ "answerLost" \in Faults)
  /\ claimedBy' = [claimedBy EXCEPT ![keyOf[c]] = NoCall]
  /\ released' = released \cup {c}
  /\ CloseRecord(c, "failed", cut)
  /\ \/ /\ cut = "none"
        /\ dialing' = [dialing EXCEPT ![c] = "no"]
        /\ UNCHANGED <<up, ending, hanging, timer, poller, crashes, survived>>
     \/ cut # "none" /\ Halt
  /\ UNCHANGED <<kind, keyOf, sid, legSid, claims, hangupEvents, line, aged,
                 overdue>>

(* start_meeting with rehearsal: a call row nobody dials.                  *)
createRehearsal(c) ==
  /\ up /\ Unused(c) /\ "rehearsal" \in Kinds
  /\ activeCallCount < MaxConcurrent
  /\ status' = [status EXCEPT ![c] = "answered"]
  /\ kind' = [kind EXCEPT ![c] = "rehearsal"]
  /\ armDurationTimer(c)
  /\ UNCHANGED <<keyOf, sid, legSid, claimedBy, claims, bearer, terminalEvents,
                 hangupEvents, up, dialing, ending, hanging, poller,
                 world>>

-----------------------------------------------------------------------------
(* end_call.                                                               *)

(* Nothing to hang up: the record closes at once.  A rehearsal never has a *)
(* line; an on-device call has none before its dial returns.               *)
EndNow(c, cut) ==
  /\ CloseRecord(c, "completed", cut)
  /\ \/ cut = "none" /\ timer' = timer \ {c}
        /\ UNCHANGED <<up, dialing, ending, hanging, poller, crashes, survived>>
     \/ cut # "none" /\ Halt
  /\ UNCHANGED <<kind, keyOf, sid, legSid, claimedBy, claims, hangupEvents,
                 line, aged, overdue,
                 released>>

(* The carrier is asked to hang up (and RelaySession's socket to close).   *)
EndRequest(c) ==
  /\ ending' = [ending EXCEPT ![c] = @ + 1]
  /\ UNCHANGED <<store, up, dialing, hanging, poller, world>>

MutEndCall(c, cut) ==
  /\ up /\ Exists(c) /\ ~Terminal(c) /\ cut # "claimed"
  /\ c \notin sid /\ EndNow(c, cut)

endCall(c, cut) ==
  /\ up /\ Exists(c) /\ ~Terminal(c) /\ cut # "claimed"
  /\ \/ /\ kind[c] = "rehearsal" \/ (kind[c] = "device" /\ c \notin sid)
        /\ EndNow(c, cut)
     \/ /\ kind[c] = "device" /\ c \in sid /\ cut = "none"
        /\ ending[c] < MaxEnds
        /\ EndRequest(c) /\ timer' = timer

(* The carrier has answered; the record is closed whatever it said.        *)
endCallFinish(c, ok, cut) ==
  /\ ending[c] > 0 /\ cut # "claimed"
  /\ ok \/ "hangupFails" \in Faults
  /\ CloseRecord(c, "completed", cut)
  /\ line' = IF ok /\ LineLive(c)
             THEN [line EXCEPT ![c] = IF @ = "inProgress" THEN "completed" ELSE "noAnswer"]
             ELSE line
  /\ \/ /\ cut = "none"
        /\ ending' = [ending EXCEPT ![c] = @ - 1]
        /\ timer' = timer \ {c}
        /\ UNCHANGED <<up, dialing, hanging, poller, crashes, survived>>
     \/ cut # "none" /\ Halt
  /\ UNCHANGED <<kind, keyOf, sid, legSid, claimedBy, claims, hangupEvents,
                 aged, overdue,
                 released>>

(* The cap fires: one more endCall, a no-op on a closed record.            *)
DurationTimer(c) ==
  /\ c \in timer
  /\ \/ Terminal(c) /\ timer' = timer \ {c}
        /\ UNCHANGED <<store, up, dialing, ending, hanging, poller, world>>
     \/ ~Terminal(c) /\ kind[c] = "rehearsal" /\ EndNow(c, "none")
     \/ ~Terminal(c) /\ kind[c] = "device" /\ timer' = timer \ {c} /\ EndRequest(c)

(* An off-device call is hung up at the carrier; the record stays open.    *)
endOffDeviceCall(c) ==
  /\ up /\ Exists(c) /\ ~Terminal(c) /\ OffDevice(c)
  /\ HasHangup /\ c \in legSid
  /\ hanging[c] < MaxEnds
  /\ hanging' = [hanging EXCEPT ![c] = @ + 1]
  /\ UNCHANGED <<store, up, dialing, ending, timer, poller, world>>

endOffDeviceFinish(c, ok) ==
  /\ hanging[c] > 0
  /\ hanging' = [hanging EXCEPT ![c] = @ - 1]
  /\ \/ /\ ok
        /\ line' = IF line[c] \in {"initiated", "inProgress"}
                   THEN [line EXCEPT ![c] = "processing"] ELSE line
        /\ claims' = [claims EXCEPT ![c] = @ \cup {"tel:hangup"}]
        /\ hangupEvents' = IF "tel:hangup" \in claims[c] THEN hangupEvents
                           ELSE [hangupEvents EXCEPT ![c] = @ + 1]
     \/ /\ ~ok /\ "hangupFails" \in Faults
        /\ UNCHANGED <<line, claims, hangupEvents>>
  /\ UNCHANGED <<status, kind, keyOf, sid, legSid, claimedBy, bearer,
                 terminalEvents, up, dialing, ending, timer, poller,
                 aged, overdue,
                 released, crashes, survived>>

-----------------------------------------------------------------------------
(* Status callbacks.  The carrier announces each state it passes; an       *)
(* announcement can be lost, repeated, or overtaken by a later one.        *)

Announced(c) ==
  {r \in CarrierStates :
     \/ r = line[c]
     \/ r \in {"initiated", "ringing"} /\ line[c] \in {"inProgress", "completed", "noAnswer"}
     \/ r = "initiated" /\ line[c] = "ringing"
     \/ r = "inProgress" /\ line[c] = "completed"}

(* The rank guard against a late callback of an earlier state.             *)
MutOutOfOrder(mapped, c) == FALSE
OutOfOrder(mapped, c) == Rank[mapped] < Rank[status[c]]

handleStatusCallback(c, raw, cut) ==
  /\ up /\ kind[c] = "device" /\ c \in sid
  /\ raw \in Announced(c) \ claims[c]
  /\ claims' = [claims EXCEPT ![c] = @ \cup {raw}]
  /\ LET mapped == TWILIO_STATUS_MAP[raw] IN
     \/ /\ Terminal(c) \/ OutOfOrder(mapped, c)
        /\ cut = "none"
        /\ UNCHANGED <<status, bearer, terminalEvents, memory, crashes, survived>>
     \/ /\ ~Terminal(c) /\ ~OutOfOrder(mapped, c)
        /\ mapped \notin TERMINAL_STATUSES /\ cut \in {"none", "claimed"}
        /\ status' = IF cut = "claimed" THEN status ELSE [status EXCEPT ![c] = mapped]
        /\ UNCHANGED <<bearer, terminalEvents>>
        /\ \/ cut = "none" /\ UNCHANGED <<memory, crashes, survived>>
           \/ cut # "none" /\ Halt
     \/ /\ ~Terminal(c) /\ mapped \in TERMINAL_STATUSES
        /\ CloseRecord(c, mapped, cut)
        /\ \/ cut = "none" /\ timer' = timer \ {c}
              /\ UNCHANGED <<up, dialing, ending, hanging, poller, crashes, survived>>
           \/ cut # "none" /\ Halt
  /\ UNCHANGED <<kind, keyOf, sid, legSid, claimedBy, hangupEvents, line, aged, overdue,
                 released>>

-----------------------------------------------------------------------------
(* The poller of an off-device call.                                       *)

PollerStop(c) == poller' = [poller EXCEPT ![c] = "none"]

(* pollOnce up to its await: stop on a closed record, give up past the     *)
(* deadline, otherwise ask the platform.                                   *)
pollOnce(c, cut) ==
  /\ poller[c] = "idle"
  /\ \/ /\ Terminal(c) /\ cut = "none"
        /\ PollerStop(c)
        /\ UNCHANGED <<status, claims, bearer, terminalEvents, crashes, survived>>
        /\ UNCHANGED <<up, dialing, ending, hanging, timer>>
     \/ /\ ~Terminal(c) /\ c \notin overdue /\ cut = "none"
        /\ poller' = [poller EXCEPT ![c] = "asked"]
        /\ UNCHANGED <<status, claims, bearer, terminalEvents, crashes, survived>>
        /\ UNCHANGED <<up, dialing, ending, hanging, timer>>
     \/ /\ ~Terminal(c) /\ c \in overdue
        /\ claims' = [claims EXCEPT ![c] = @ \cup {"el:terminal"}]
        /\ \/ "el:terminal" \in claims[c] /\ cut = "none"
              /\ UNCHANGED <<status, bearer, terminalEvents>>
           \/ "el:terminal" \notin claims[c] /\ CloseRecord(c, "failed", cut)
        /\ \/ cut = "none" /\ PollerStop(c)
              /\ UNCHANGED <<up, dialing, ending, hanging, timer, crashes, survived>>
           \/ cut # "none" /\ Halt
  /\ UNCHANGED <<kind, keyOf, sid, legSid, claimedBy, hangupEvents, line, aged, overdue,
                 released>>

(* The platform answers with its state at that moment; the answer is still *)
(* to be read by the gateway.                                              *)
PlatformAnswers(c) ==
  /\ poller[c] = "asked"
  /\ poller' = [poller EXCEPT ![c] = line[c]]
  /\ UNCHANGED <<store, up, dialing, ending, hanging, timer, world>>

(* getConversation throws: the poll is scheduled again.                    *)
PollError(c) ==
  /\ poller[c] = "asked"
  /\ poller' = [poller EXCEPT ![c] = "idle"]
  /\ UNCHANGED <<store, up, dialing, ending, hanging, timer, world>>

apply(c, cut) ==
  /\ poller[c] \in PlatformStates
  /\ LET mapped == AGENT_STATUS_MAP[poller[c]] IN
     \/ /\ Terminal(c) /\ cut = "none"
        /\ PollerStop(c)
        /\ UNCHANGED <<status, claims, bearer, terminalEvents, crashes, survived>>
        /\ UNCHANGED <<up, dialing, ending, hanging, timer>>
     \/ /\ ~Terminal(c) /\ mapped \notin TERMINAL_STATUSES
        /\ UNCHANGED <<bearer, terminalEvents>>
        /\ \/ /\ Rank[mapped] > Rank[status[c]] /\ ElStatus[mapped] \notin claims[c]
              /\ claims' = [claims EXCEPT ![c] = @ \cup {ElStatus[mapped]}]
              /\ status' = IF cut = "claimed" THEN status
                           ELSE [status EXCEPT ![c] = mapped]
           \/ /\ ~(Rank[mapped] > Rank[status[c]] /\ ElStatus[mapped] \notin claims[c])
              /\ cut = "none" /\ UNCHANGED <<claims, status>>
        /\ \/ cut = "none" /\ poller' = [poller EXCEPT ![c] = "idle"]
              /\ UNCHANGED <<up, dialing, ending, hanging, timer, crashes, survived>>
           \/ cut = "claimed" /\ Halt
     \/ /\ ~Terminal(c) /\ mapped \in TERMINAL_STATUSES
        /\ claims' = [claims EXCEPT ![c] = @ \cup {"el:terminal"}]
        /\ \/ "el:terminal" \in claims[c] /\ cut = "none"
              /\ UNCHANGED <<status, bearer, terminalEvents>>
           \/ "el:terminal" \notin claims[c] /\ CloseRecord(c, mapped, cut)
        /\ \/ cut = "none" /\ PollerStop(c)
              /\ UNCHANGED <<up, dialing, ending, hanging, timer, crashes, survived>>
           \/ cut # "none" /\ Halt
  /\ UNCHANGED <<kind, keyOf, sid, legSid, claimedBy, hangupEvents, line, aged, overdue,
                 released>>

-----------------------------------------------------------------------------
(* The process stops (a crash, or shutdown) and starts again.              *)

shutdown == up /\ Halt /\ UNCHANGED <<store, line, aged, overdue,
                 released>>

(* startGateway: resumeDelegatePollers over the non-terminal statuses,     *)
(* then sweepEndedConsults.                                                *)
MutResumed == {c \in Active : status[c] # "created"}
Resumed == Active
Swept == {c \in Calls : Terminal(c)}

(* A resumed poller needs the conversation id the dial stored.             *)
Resumable(c) == OffDevice(c) /\ c \in sid

startGateway ==
  /\ ~up /\ up' = TRUE
  /\ poller' = [c \in Calls |->
        IF c \in Resumed /\ Resumable(c) THEN "idle" ELSE "none"]
  /\ timer' = {c \in Resumed : kind[c] = "rehearsal"}
  /\ bearer' = bearer \ Swept
  /\ UNCHANGED <<status, kind, keyOf, sid, legSid, claimedBy, claims,
                 terminalEvents, hangupEvents, dialing, ending, hanging,
                 world>>

-----------------------------------------------------------------------------
(* The phone, the platform's conversation, and time.                       *)

CarrierSteps ==
  {<<"initiated", "ringing">>, <<"initiated", "noAnswer">>,
   <<"ringing", "inProgress">>, <<"ringing", "noAnswer">>,
   <<"inProgress", "completed">>}
PlatformSteps ==
  {<<"initiated", "inProgress">>, <<"initiated", "failed">>,
   <<"inProgress", "processing">>, <<"processing", "done">>,
   <<"processing", "failed">>}

LineMoves(c) ==
  /\ \E to \in Reach :
       /\ <<line[c], to>> \in IF OffDevice(c) THEN PlatformSteps ELSE CarrierSteps
       /\ line' = [line EXCEPT ![c] = to]
  /\ UNCHANGED <<store, memory, aged, overdue,
                 released, crashes, survived>>

(* The dedupe window of c's claim passes.  The gateway sets no time limit  *)
(* on a dial request, so the window may also pass while one is pending.    *)
WindowPasses(c) ==
  /\ c \notin aged /\ \E k \in Keys : claimedBy[k] = c
  /\ dialing[c] = "no" \/ "slowDial" \in Faults
  /\ aged' = aged \cup {c}
  /\ UNCHANGED <<store, memory, line, overdue, crashes, released, survived>>

(* maxDurationSec plus the poll grace pass.                                *)
DeadlinePasses(c) ==
  /\ Exists(c) /\ OffDevice(c) /\ c \notin overdue
  /\ overdue' = overdue \cup {c}
  /\ UNCHANGED <<store, memory, line, aged, crashes, released, survived>>

-----------------------------------------------------------------------------
Next ==
  \/ shutdown \/ startGateway
  \/ \E c \in Calls :
       \/ \E k \in Keys : DialTorn(c, k) \/ \E kd \in Kinds : Dial(c, k, kd)
       \/ DialAccepted(c)
       \/ \E b \in BOOLEAN : DialResolved(c, b) \/ endOffDeviceFinish(c, b)
       \/ createRehearsal(c)
       \/ DurationTimer(c) \/ endOffDeviceCall(c)
       \/ PlatformAnswers(c) \/ PollError(c)
       \/ LineMoves(c) \/ WindowPasses(c) \/ DeadlinePasses(c)
       \/ \E cut \in Cuts :
            \/ DialFailed(c, cut) \/ endCall(c, cut)
            \/ pollOnce(c, cut) \/ apply(c, cut)
            \/ \E b \in BOOLEAN : endCallFinish(c, b, cut)
            \/ \E raw \in CarrierStates : handleStatusCallback(c, raw, cut)

Spec == Init /\ [][Next]_vars

(* The event loop runs what is ready: awaits return or throw, timers fire, *)
(* the clock reaches a poll deadline.  Nothing is asked of the phone, of   *)
(* the platform's conversation, of callbacks or of anyone calling end_call.*)
Fairness ==
  \A c \in Calls :
    /\ WF_vars(DialAccepted(c) \/ DialFailed(c, "none"))
    /\ WF_vars(DialResolved(c, TRUE) \/ DialResolved(c, FALSE) \/ DialFailed(c, "none"))
    /\ WF_vars(DurationTimer(c))
    /\ WF_vars(endCallFinish(c, TRUE, "none") \/ endCallFinish(c, FALSE, "none"))
    /\ WF_vars(pollOnce(c, "none"))
    /\ WF_vars(PlatformAnswers(c) \/ PollError(c))
    /\ WF_vars(apply(c, "none"))
    /\ WF_vars(DeadlinePasses(c))

(* A gateway that went down is started again by launchd.                   *)
FairSpec == Spec /\ Fairness /\ WF_vars(startGateway)

-----------------------------------------------------------------------------
(* Types: every variable keeps the shape the store schema and the maps of  *)
(* the service give it.                                                    *)
TypeOK ==
  /\ status \in [Calls -> Statuses]
  /\ kind \in [Calls -> AllKinds]
  /\ keyOf \in [Calls -> Keys \cup {NoKey}]
  /\ sid \subseteq Calls /\ legSid \subseteq Calls /\ bearer \subseteq Calls
  /\ claimedBy \in [Keys -> Calls \cup {NoCall}]
  /\ claims \in [Calls -> SUBSET ProviderKeys]
  /\ terminalEvents \in [Calls -> Nat]
  /\ hangupEvents \in [Calls -> Nat]
  /\ up \in BOOLEAN
  /\ dialing \in [Calls -> {"no", "placing", "accepted"}]
  /\ ending \in [Calls -> Nat]
  /\ hanging \in [Calls -> Nat]
  /\ timer \subseteq Calls
  /\ poller \in [Calls -> PollerStates]
  /\ line \in [Calls -> LineStates]
  /\ aged \subseteq Calls /\ overdue \subseteq Calls
  /\ crashes \in Nat
  /\ released \subseteq Calls /\ survived \subseteq Calls

(* What the process remembers of a call agrees with what the store says of *)
(* it: dials, hang-ups, pollers and provider ids belong to rows of the     *)
(* right kind, a stopped gateway holds no pending dial, and a call whose   *)
(* dial is pending has neither an id nor, at a platform, an end.           *)
MemoryMatchesStore ==
  \A c \in Calls :
    /\ Placed(c) => Exists(c) /\ keyOf[c] \in Keys
    /\ dialing[c] # "no" => up /\ c \notin sid /\ kind[c] # "rehearsal"
    /\ dialing[c] # "no" /\ OffDevice(c) => ~Terminal(c)
    /\ c \in sid \/ dialing[c] = "accepted" => line[c] # "none"
    /\ ending[c] > 0 => Exists(c) /\ kind[c] = "device"
    /\ poller[c] # "none" => OffDevice(c) /\ c \in sid
    /\ c \in timer => Exists(c) /\ ~OffDevice(c)

(* Never more live calls than limits.maxConcurrentCalls, whatever ends,    *)
(* crashes or resumes in between (the gate of dial and createRehearsal).   *)
ConcurrencyLimit == Cardinality(Active) <= MaxConcurrent

(* Of the calls dialled under one key inside its dedupe window, at most    *)
(* one keeps the key: it is being placed, rings, or rang. Every other that *)
(* reached the carrier gave the key back, because its dial threw. A dial   *)
(* whose answer is lost does that while its phone rings, and then a retry  *)
(* inside the window rings the person again: the code cannot tell it from  *)
(* a refused one ("losing the race means someone else is ringing them").   *)
OneRingPerWindow ==
  \A c, d \in Calls :
    c # d /\ keyOf[c] = keyOf[d] /\ Rung(c) /\ Rung(d)
      => {c, d} \cap (aged \cup released) # {}

(* A retry inside the window never rings the person twice. True of a       *)
(* carrier whose answers to a dial are not lost.                           *)
NeverRungTwice ==
  \A c, d \in Calls :
    c # d /\ keyOf[c] = keyOf[d] /\ Rung(c) /\ Rung(d) => c \in aged \/ d \in aged

(* What the two gates of dial and createRehearsal promise, together.       *)
DialGatesHold == ConcurrencyLimit /\ OneRingPerWindow

(* An observer that reads a terminal event finds a terminal record: no     *)
(* path, crash or restart appends the event first or reopens the record.   *)
TerminalEventMeansTerminal ==
  \A c \in Calls : terminalEvents[c] > 0 => Terminal(c)

(* A call the platform holds gets at most one terminal event, from its     *)
(* failed dial, a poll or the poll deadline, across any number of restarts.*)
OffDeviceEndsOnce ==
  \A c \in Calls : OffDevice(c) => terminalEvents[c] <= 1

(* One call.hangup_requested however many times end_call is repeated, even *)
(* with two hang-ups in flight and a restart in between.                   *)
HangupAnnouncedOnce == \A c \in Calls : hangupEvents[c] <= 1

(* Who may still announce the end of a call that is closed: an end_call or *)
(* duration timer that asked the carrier, or a dial that was pending, when *)
(* its record closed. They do not read the record again after their await. *)
MayAnnounceAgain(c) == kind[c] = "device" /\ (ending[c] > 0 \/ dialing[c] # "no")

(* What an observer reads in the event log about the end of a call is so:  *)
(* the record is closed and stays so. An off-device call is ended in it    *)
(* once and its hang-up announced once. An on-device call may be ended in  *)
(* it several times, and only by who was under way when it closed: no      *)
(* callback, poll, restart or later end_call repeats it.                   *)
EventsTellTheTruth ==
  /\ [](TerminalEventMeansTerminal /\ OffDeviceEndsOnce /\ HangupAnnouncedOnce)
  /\ [][\A c \in Calls :
          Terminal(c) /\ terminalEvents'[c] # terminalEvents[c] => MayAnnounceAgain(c)]_vars

(* While the gateway is up, the consult bearer of a closed call is gone:   *)
(* the closing paths delete it and startGateway sweeps what a crash left.  *)
BearerDiesWithCall == up => \A c \in bearer : ~Terminal(c)

(* The live calls that nothing in the gateway watches: a platform call     *)
(* whose terminal claim was taken by a process that died before closing    *)
(* it, one whose dial was pending when the process went down, and any      *)
(* on-device call that lived through that (resumeDelegatePollers resumes   *)
(* platform calls and rehearsals; the carrier's own TimeLimit is left).    *)
Unwatched(c) ==
  \/ OffDevice(c) /\ "el:terminal" \in claims[c]
  \/ OffDevice(c) /\ c \notin sid /\ c \in survived
  \/ kind[c] = "device" /\ c \in survived

(* While the gateway is up, somebody in it will see every other live call  *)
(* to its end: a pending dial, a duration timer, an end_call under way or  *)
(* a poller, also after a restart.                                         *)
Attended(c) ==
  dialing[c] # "no" \/ ending[c] > 0 \/ c \in timer \/ poller[c] # "none"

LiveCallWatched == up => \A c \in Active : Attended(c) \/ Unwatched(c)

(* What the gateway keeps for a call follows its record: a call that lives *)
(* is watched, unless it is one of the three named by Unwatched, and one   *)
(* that is closed has no bearer.                                           *)
CallsAreKept == LiveCallWatched /\ BearerDiesWithCall

(* No callback, poll, restart or late dial moves a record backwards, and a *)
(* closed record is never live again (the out-of-order guards).            *)
NeverDowngraded ==
  [][\A c \in Calls : Rank[status[c]] <= Rank[status'[c]]]_vars

(* Once an on-device call is recorded as ended and no dial of it is        *)
(* pending, its phone leg is down ("Hang up a live call immediately").     *)
EndedMeansHungUp ==
  \A c \in Calls :
    kind[c] = "device" /\ status[c] = "completed" /\ dialing[c] = "no"
      => ~LineLive(c)

(* Every call row ends up closed: a call dialled or rehearsed frees its    *)
(* slot, even if callbacks are lost and the platform goes quiet.           *)
EveryCallCloses == \A c \in Calls : Exists(c) ~> Terminal(c)
=============================================================================
