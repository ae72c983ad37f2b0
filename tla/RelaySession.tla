---------------------------- MODULE RelaySession ----------------------------
(***************************************************************************)
(* The live media path of one on-device call: the ConversationRelay        *)
(* sockets the carrier opens to the gateway, one RelaySession per socket,  *)
(* the registry of live sessions of CallService, and what reaches a        *)
(* session from the other side: say_on_call and play_disclosure, end_call, *)
(* the model's stream and the caller's barge-in.                           *)
(*                                                                         *)
(* Every socket frame, token and request is one synchronous handler, so an *)
(* action is a handler up to its next await.  A stream is its turn: each   *)
(* turn starts at most one.  Text is abstracted to how much of it there    *)
(* is, timestamps to whether they are set.                                 *)
(***************************************************************************)
EXTENDS Naturals, Sequences, FiniteSets

CONSTANTS
  Sockets,      \* sockets the carrier may open with the call's relay token
  Talking,      \* bound: the sockets on which the caller speaks
  NoSocket,     \* "no live session"
  Modes,        \* modes of on-device calls this instance looks at
  HasFallback,  \* a fallback model is configured
  MaxTurns,     \* bound: finalized prompts, over all sockets
  MaxTokens,    \* bound: tokens of one stream
  MaxInputs     \* bound: sockets after the first, interruptions, spoken
                \* texts and ends from outside

ASSUME RelayAssumption ==
  /\ IsFiniteSet(Sockets) /\ NoSocket \notin Sockets
  /\ Talking \subseteq Sockets
  /\ Modes \subseteq {"direct", "byo-model"}
  /\ HasFallback \in BOOLEAN
  /\ {MaxTurns, MaxTokens, MaxInputs} \subseteq Nat

Turns == 1..MaxTurns

VARIABLES
  \* CallService and its store
  mode,         \* of the call's request
  over,         \* the call's record is terminal
  registered,   \* sessions.get(callId)
  ending,       \* end_call requests awaiting the carrier
  timings,      \* turn -> the columns of its row that are set
  timed,        \* <<socket, turn>> -> turn.timing events
  \* RelaySession, one per socket
  sock,         \* readyState of the socket; "closed" is `closed`
  turn,         \* this.turn
  current,      \* the turn currentAbort belongs to, 0 for null
  aborted,      \* turns whose signal is aborted
  stream,       \* turn -> where its LLM stream stands
  got,          \* turn -> tokens its loop has received
  partial,      \* length of assistantPartial
  pending,      \* the turn of pendingDirect, 0 for null
  history,      \* the conversation so far, also the stored utterances
  wire,         \* the frames that crossed the socket, in order
  \* bounds and history
  inputs, blamed

service == <<mode, over, registered, ending, timings, timed>>
session == <<sock, turn, current, aborted, stream, got, partial, pending,
             history, wire>>
vars == <<service, session, inputs, blamed>>

-----------------------------------------------------------------------------
StreamStates == {"none", "primary", "fallback", "refused", "ending", "over"}
Streaming == {"primary", "fallback", "refused"}
Columns == {"endOfTurn", "firstModelToken", "firstToken", "interrupted",
            "reply"}

hostAnswersTurns == mode = "direct"
gatewayDrivesTurns == mode = "byo-model"

(* `ws` drops what is sent after close() without an error.                 *)
Send(s, frames) == IF sock[s] = "open" THEN wire[s] \o frames ELSE wire[s]
Frame(kind, t) == [kind |-> kind, turn |-> t]
Line(role, t, how, n) == [role |-> role, turn |-> t, how |-> how, tokens |-> n]

(* The prompts so far; each leaves its timing row or shares one.           *)
Prompts == Cardinality({st \in Sockets \X Turns : st[2] <= turn[st[1]]})

Receives(s) == sock[s] \in {"open", "closing"}

(* currentAbort?.abort()                                                   *)
Abort(s) == IF current[s] = 0 THEN aborted[s] ELSE aborted[s] \cup {current[s]}
Cut(s, t) == t \in aborted[s] \/ sock[s] = "closed"

(* emitTurnTiming says nothing of a turn without a reply on the wire.      *)
Complete(row) == /\ {"endOfTurn", "firstToken"} \subseteq row
                 /\ row \cap {"reply", "firstModelToken"} # {}

Spend == inputs < MaxInputs /\ inputs' = inputs + 1

Stamped(t, columns) == [timings EXCEPT ![t] = @ \cup columns]
EmitTiming(s, t, row) ==
  timed' = IF Complete(row) THEN [timed EXCEPT ![s][t] = @ + 1] ELSE timed

Init ==
  /\ mode \in Modes
  /\ over = FALSE /\ registered = NoSocket /\ ending = 0
  /\ timings = [t \in 0..MaxTurns |-> {}]
  /\ timed = [s \in Sockets |-> [t \in Turns |-> 0]]
  /\ sock = [s \in Sockets |-> "none"]
  /\ turn = [s \in Sockets |-> 0]
  /\ current = [s \in Sockets |-> 0]
  /\ aborted = [s \in Sockets |-> {}]
  /\ stream = [s \in Sockets |-> [t \in Turns |-> "none"]]
  /\ got = [s \in Sockets |-> [t \in Turns |-> 0]]
  /\ partial = [s \in Sockets |-> 0]
  /\ pending = [s \in Sockets |-> 0]
  /\ history = [s \in Sockets |-> <<>>]
  /\ wire = [s \in Sockets |-> <<>>]
  /\ inputs = 0 /\ blamed = {}

-----------------------------------------------------------------------------
(* The socket: upgrade, setup, close.                                      *)

(* The relay token stays good for the call, whatever became of it.         *)
Attach(s) ==
  /\ sock[s] = "none"
  /\ IF \A r \in Sockets : sock[r] = "none" THEN UNCHANGED inputs ELSE Spend
  /\ sock' = [sock EXCEPT ![s] = "open"]
  /\ registered' = s
  /\ UNCHANGED <<mode, over, ending, timings, timed, turn, current, aborted,
                 stream, got, partial, pending, history, wire, blamed>>

(* A setup frame that names another call; a matching one only logs.        *)
SetupMismatch(s) ==
  /\ sock[s] = "open" /\ wire[s] = <<>>
  /\ sock' = [sock EXCEPT ![s] = "closing"]
  /\ UNCHANGED <<service, turn, current, aborted, stream, got, partial,
                 pending, history, wire, inputs, blamed>>

(* The close handler unregisters by call id, whichever session is there.   *)
SocketClosed(s) ==
  /\ Receives(s)
  /\ sock' = [sock EXCEPT ![s] = "closed"]
  /\ aborted' = [aborted EXCEPT ![s] = Abort(s)]
  /\ registered' = NoSocket
  /\ UNCHANGED <<mode, over, ending, timings, timed, turn, current, stream,
                 got, partial, pending, history, wire, inputs, blamed>>

-----------------------------------------------------------------------------
(* Turns.                                                                  *)

MutStartTurn(s, t) ==
  IF gatewayDrivesTurns
  THEN /\ current' = [current EXCEPT ![s] = t]
       /\ stream' = [stream EXCEPT ![s][t] = "primary"]
       /\ UNCHANGED <<pending, partial>>
  ELSE /\ pending' = [pending EXCEPT ![s] = IF @ = 0 THEN t ELSE @]
       /\ UNCHANGED <<current, stream, partial>>

(* Who answers: the gateway's own stream, or the host, which owes a reply  *)
(* to the first unanswered turn.                                           *)
StartTurn(s, t) ==
  IF gatewayDrivesTurns
  THEN /\ current' = [current EXCEPT ![s] = t]
       /\ partial' = [partial EXCEPT ![s] = 0]
       /\ stream' = [stream EXCEPT ![s][t] = "primary"]
       /\ UNCHANGED pending
  ELSE /\ pending' = [pending EXCEPT ![s] = IF @ = 0 THEN t ELSE @]
       /\ UNCHANGED <<current, stream, partial>>

MutPrompt(s) ==
  LET t == turn[s] + 1 IN
  /\ Receives(s) /\ Prompts < MaxTurns
  /\ turn' = [turn EXCEPT ![s] = t]
  /\ history' = [history EXCEPT ![s] = Append(@, Line("user", t, "said", 0))]
  /\ wire' = [wire EXCEPT ![s] = Append(@, Frame("prompt", t))]
  /\ timings' = Stamped(t, {"endOfTurn"})
  /\ StartTurn(s, t)
  /\ UNCHANGED <<mode, over, registered, ending, timed, sock, aborted, got,
                 inputs, blamed>>

(* A finalized prompt supersedes the turn that is still streaming.         *)
Prompt(s) ==
  LET t == turn[s] + 1 IN
  /\ Receives(s) /\ Prompts < MaxTurns
  /\ aborted' = [aborted EXCEPT ![s] = Abort(s)]
  /\ turn' = [turn EXCEPT ![s] = t]
  /\ history' = [history EXCEPT ![s] = Append(@, Line("user", t, "said", 0))]
  /\ wire' = [wire EXCEPT ![s] = Append(@, Frame("prompt", t))]
  /\ timings' = Stamped(t, {"endOfTurn"})
  /\ StartTurn(s, t)
  /\ UNCHANGED <<mode, over, registered, ending, timed, sock, got, inputs, blamed>>

(* The caller barges in.  `heard` tells whether the carrier says how much  *)
(* was spoken; without it the text so far stands in.                       *)
Interrupt(s, heard) ==
  /\ Receives(s)
  /\ Spend
  /\ aborted' = [aborted EXCEPT ![s] = Abort(s)]
  /\ timings' = Stamped(turn[s], {"interrupted"})
  /\ pending' = [pending EXCEPT ![s] = 0]
  /\ wire' = [wire EXCEPT ![s] = Append(@, Frame("interrupt", turn[s]))]
  /\ IF heard \/ partial[s] > 0
     THEN /\ history' = [history EXCEPT ![s] =
                           Append(@, Line("assistant", turn[s], "cut", 0))]
          /\ partial' = [partial EXCEPT ![s] = 0]
     ELSE UNCHANGED <<history, partial>>
  /\ UNCHANGED <<mode, over, registered, ending, timed, sock, turn, current,
                 stream, got, blamed>>

-----------------------------------------------------------------------------
(* The model's stream, in the loop of handleTurn.                          *)

(* break, return or the end of the loop, and the finally.                  *)
Finish(s, t) ==
  /\ stream' = [stream EXCEPT ![s][t] = "over"]
  /\ current' = [current EXCEPT ![s] = IF @ = t THEN 0 ELSE @]

MutSpeakToken(s, t) ==
  /\ stream[s][t] \in {"primary", "fallback"}
  /\ sock[s] # "closed" /\ got[s][t] < MaxTokens
  /\ got' = [got EXCEPT ![s][t] = @ + 1]
  /\ partial' = [partial EXCEPT ![s] = @ + 1]
  /\ wire' = [wire EXCEPT ![s] = Send(s, <<Frame("token", t)>>)]
  /\ timings' = Stamped(t, (IF got[s][t] = 0 THEN {"firstModelToken"} ELSE {})
                           \cup (IF partial[s] = 0 THEN {"firstToken"} ELSE {}))
  /\ UNCHANGED <<mode, over, registered, ending, timed, sock, turn, current,
                 aborted, stream, pending, history, inputs, blamed>>

(* A token arrives and is spoken at once.                                  *)
SpeakToken(s, t) ==
  /\ stream[s][t] \in {"primary", "fallback"}
  /\ ~Cut(s, t) /\ got[s][t] < MaxTokens
  /\ got' = [got EXCEPT ![s][t] = @ + 1]
  /\ partial' = [partial EXCEPT ![s] = @ + 1]
  /\ wire' = [wire EXCEPT ![s] = Send(s, <<Frame("token", t)>>)]
  /\ timings' = Stamped(t, (IF got[s][t] = 0 THEN {"firstModelToken"} ELSE {})
                           \cup (IF partial[s] = 0 THEN {"firstToken"} ELSE {}))
  /\ UNCHANGED <<mode, over, registered, ending, timed, sock, turn, current,
                 aborted, stream, pending, history, inputs, blamed>>

(* The stream is done: the last frame, and the reply is on record.         *)
FinishStream(s, t) ==
  /\ stream[s][t] \in {"primary", "fallback"} /\ ~Cut(s, t)
  /\ Finish(s, t)
  /\ wire' = [wire EXCEPT ![s] = Send(s, <<Frame("last", t)>>)]
  /\ IF partial[s] = 0
     THEN UNCHANGED <<history, partial, timed>>
     ELSE /\ history' = [history EXCEPT ![s] =
                           Append(@, Line("assistant", t, "full", partial[s]))]
          /\ partial' = [partial EXCEPT ![s] = 0]
          /\ EmitTiming(s, t, timings[t])
  /\ UNCHANGED <<mode, over, registered, ending, timings, sock, turn, aborted,
                 got, pending, inputs, blamed>>

(* The loop of an aborted turn, or of a closed socket, wakes and leaves.   *)
DropStream(s, t) ==
  /\ stream[s][t] \in {"primary", "fallback"} /\ Cut(s, t)
  /\ Finish(s, t)
  /\ UNCHANGED <<service, sock, turn, aborted, got, partial, pending, history,
                 wire, inputs, blamed>>

(* The primary model fails before its first token.                         *)
Fallback(s, t) ==
  /\ HasFallback
  /\ stream[s][t] = "primary" /\ got[s][t] = 0 /\ t \notin aborted[s]
  /\ stream' = [stream EXCEPT ![s][t] = "fallback"]
  /\ UNCHANGED <<service, sock, turn, current, aborted, got, partial, pending,
                 history, wire, inputs, blamed>>

(* The fallback's answer is an HTTP error; its body is still being read.   *)
RefuseFallback(s, t) ==
  /\ stream[s][t] = "fallback" /\ got[s][t] = 0 /\ t \notin aborted[s]
  /\ stream' = [stream EXCEPT ![s][t] = "refused"]
  /\ UNCHANGED <<service, sock, turn, current, aborted, got, partial, pending,
                 history, wire, inputs, blamed>>

(* session.end, from end_call: abort, an end frame, and close.             *)
EndSession(s, before) ==
  IF registered = NoSocket
  THEN /\ sock' = sock /\ aborted' = aborted
       /\ wire' = [wire EXCEPT ![s] = Send(s, before)]
  ELSE LET r == registered
           sent == [wire EXCEPT ![s] = Send(s, before)] IN
       /\ aborted' = [aborted EXCEPT ![r] = Abort(r)]
       /\ wire' = IF sock[r] = "open"
                  THEN [sent EXCEPT ![r] = Append(@, Frame("end", turn[r]))]
                  ELSE sent
       /\ sock' = [sock EXCEPT ![r] = IF @ = "open" THEN "closing" ELSE @]

Throws(s, t) ==
  \/ stream[s][t] = "primary" /\ (HasFallback => got[s][t] > 0)
     /\ t \notin aborted[s]
  \/ stream[s][t] = "fallback" /\ t \notin aborted[s]
  \/ stream[s][t] = "refused"

MutFailStream(s, t) ==
  /\ Throws(s, t) /\ Finish(s, t)
  /\ wire' = [wire EXCEPT ![s] = Send(s, <<Frame("end", t)>>)]
  /\ blamed' = IF sock[s] = "closed" \/ over THEN blamed
               ELSE blamed \cup {t}
  /\ UNCHANGED <<service, sock, turn, aborted, got, partial, pending, history,
                 inputs>>

(* The stream throws.  Nothing in the catch looks at the signal: the       *)
(* adapter returns quietly for an aborted turn, except from the body of a  *)
(* refused fallback.                                                       *)
FailStream(s, t) ==
  /\ Throws(s, t)
  /\ IF sock[s] = "closed"
     THEN Finish(s, t) /\ UNCHANGED <<sock, aborted, wire, blamed>>
     ELSE IF over
     THEN /\ Finish(s, t)
          /\ wire' = [wire EXCEPT ![s] = Send(s, <<Frame("end", t)>>)]
          /\ UNCHANGED <<sock, aborted, blamed>>
     ELSE /\ EndSession(s, <<Frame("end", t)>>)
          /\ stream' = [stream EXCEPT ![s][t] = "ending"]
          /\ blamed' = blamed \cup {t}
          /\ UNCHANGED current
  /\ UNCHANGED <<service, turn, got, partial, pending, history, inputs>>

(* endCall resolves: the carrier has answered, or failed to.               *)
CloseRecord(s, t) ==
  /\ stream[s][t] = "ending"
  /\ over' = TRUE
  /\ Finish(s, t)
  /\ UNCHANGED <<mode, registered, ending, timings, timed, sock, turn, aborted,
                 got, partial, pending, history, wire, inputs, blamed>>

-----------------------------------------------------------------------------
(* From the other side of the gateway.                                     *)

(* say_on_call and play_disclosure; without a session they are refused.    *)
(* In direct mode the text answers the pending turn.                       *)
SendText(s) ==
  LET t == IF hostAnswersTurns THEN pending[s] ELSE 0 IN
  /\ registered = s /\ Spend
  /\ aborted' = [aborted EXCEPT ![s] = Abort(s)]
  /\ wire' = [wire EXCEPT ![s] = Send(s, <<Frame("verbatim", turn[s])>>)]
  /\ IF t = 0
     THEN UNCHANGED <<timings, timed, pending>>
     ELSE LET columns == {"firstModelToken", "reply", "firstToken"} IN
          /\ timings' = Stamped(t, columns)
          /\ EmitTiming(s, t, timings[t] \cup columns)
          /\ pending' = [pending EXCEPT ![s] = 0]
  /\ history' = [history EXCEPT ![s] =
                   Append(@, Line("assistant", turn[s], "verbatim", 0))]
  /\ UNCHANGED <<mode, over, registered, ending, sock, turn, current, stream,
                 got, partial, blamed>>

(* end_call, the duration timer: a terminal record answers at once.        *)
EndCall ==
  /\ ~over /\ Spend
  /\ ending' = ending + 1
  /\ IF registered = NoSocket
     THEN UNCHANGED <<sock, aborted, wire>>
     ELSE EndSession(registered, <<>>)
  /\ UNCHANGED <<mode, over, registered, timings, timed, turn, current, stream,
                 got, partial, pending, history, blamed>>

EndCallDone ==
  /\ ending > 0
  /\ ending' = ending - 1
  /\ over' = TRUE
  /\ UNCHANGED <<mode, registered, timings, timed, session, inputs, blamed>>

(* A terminal status callback closes the record and leaves the session.    *)
CarrierEnds ==
  /\ ~over /\ Spend
  /\ over' = TRUE
  /\ UNCHANGED <<mode, registered, ending, timings, timed, session, blamed>>

(* The gateway goes down: every registered session ends, the map empties.  *)
Shutdown ==
  /\ registered # NoSocket /\ Spend
  /\ EndSession(registered, <<>>)
  /\ registered' = NoSocket
  /\ UNCHANGED <<mode, over, ending, timings, timed, turn, current, stream,
                 got, partial, pending, history, blamed>>

LlmStep(s, t) ==
  \/ SpeakToken(s, t)
  \/ FinishStream(s, t)
  \/ DropStream(s, t)
  \/ Fallback(s, t)
  \/ RefuseFallback(s, t)
  \/ FailStream(s, t)

Next ==
  \/ \E s \in Sockets :
       \/ Attach(s) \/ SetupMismatch(s) \/ SocketClosed(s)
       \/ SendText(s)
       \/ \E t \in Turns : LlmStep(s, t) \/ CloseRecord(s, t)
  \/ \E s \in Talking :
       \/ Prompt(s)
       \/ \E heard \in BOOLEAN : Interrupt(s, heard)
  \/ EndCall \/ EndCallDone \/ CarrierEnds \/ Shutdown

Spec == Init /\ [][Next]_vars

(* The adapter's request times out (timeoutMs), and the carrier's hang-up  *)
(* request answers or fails.                                               *)
Fairness ==
  /\ \A s \in Talking : \A t \in Turns :
       WF_vars(LlmStep(s, t) \/ CloseRecord(s, t))
  /\ WF_vars(EndCallDone)
FairSpec == Spec /\ Fairness

-----------------------------------------------------------------------------
Frames == [kind : {"prompt", "token", "last", "verbatim", "interrupt", "end"},
           turn : 0..MaxTurns]
Lines == [role : {"user", "assistant"}, turn : 0..MaxTurns,
          how : {"said", "full", "cut", "verbatim"}, tokens : Nat]

(* Every variable has its type.                                            *)
TypeOK ==
  /\ mode \in Modes /\ over \in BOOLEAN /\ ending \in Nat
  /\ registered \in Sockets \cup {NoSocket}
  /\ timings \in [0..MaxTurns -> SUBSET Columns]
  /\ timed \in [Sockets -> [Turns -> Nat]]
  /\ sock \in [Sockets -> {"none", "open", "closing", "closed"}]
  /\ turn \in [Sockets -> 0..MaxTurns]
  /\ current \in [Sockets -> 0..MaxTurns]
  /\ aborted \in [Sockets -> SUBSET Turns]
  /\ stream \in [Sockets -> [Turns -> StreamStates]]
  /\ got \in [Sockets -> [Turns -> Nat]]
  /\ partial \in [Sockets -> Nat]
  /\ pending \in [Sockets -> 0..MaxTurns]
  /\ history \in [Sockets -> Seq(Lines)]
  /\ wire \in [Sockets -> Seq(Frames)]
  /\ inputs \in Nat
  /\ blamed \subseteq Turns

(* Barge-in: between the caller's words and any token that answers them    *)
(* there is nothing but that turn's own tokens (and the end frame of a     *)
(* turn before it that failed).  No newer prompt, interruption, verbatim   *)
(* text or end is ever followed by a token of the stream it cut.           *)
AbortedStaysSilent ==
  \A s \in Sockets : \A j \in DOMAIN wire[s] :
    wire[s][j].kind = "token" =>
      \E i \in 1..(j - 1) :
        /\ wire[s][i] = Frame("prompt", wire[s][j].turn)
        /\ \A k \in (i + 1)..(j - 1) :
             \/ wire[s][k] = wire[s][j]
             \/ wire[s][k].kind = "end" /\ wire[s][k].turn < wire[s][j].turn

(* At most one turn streams with a signal that is not aborted, and it is   *)
(* the one currentAbort can still stop.                                    *)
OneLiveStream ==
  \A s \in Sockets : \A t \in Turns :
    stream[s][t] \in Streaming /\ ~Cut(s, t) => current[s] = t /\ turn[s] = t

Spoken(w, t) == {j \in DOMAIN w : w[j] = Frame("token", t)}
Tokens(s, t) == Cardinality(Spoken(wire[s], t))

(* A reply on record in full is what the open socket was sent, token for   *)
(* token, and a turn has at most one.                                      *)
FullReplyWasSent ==
  \A s \in Sockets : \A i \in DOMAIN history[s] :
    history[s][i].how = "full" =>
      /\ sock[s] = "open" => history[s][i].tokens = Tokens(s, history[s][i].turn)
      /\ \A j \in DOMAIN history[s] :
           history[s][j].how = "full" /\ history[s][j].turn = history[s][i].turn
             => i = j

(* The transcript of a socket is in the order of its turns: a line of a    *)
(* turn follows that turn's prompt and precedes the next one.              *)
TranscriptInOrder ==
  \A s \in Sockets : \A i, j \in DOMAIN history[s] :
    i < j => /\ history[s][i].turn <= history[s][j].turn
             /\ history[s][j].role = "user" =>
                  history[s][i].turn < history[s][j].turn

(* A full reply on record is what the open socket was sent, token for      *)
(* token, one per turn, and the lines are in the order of the turns.       *)
(* Nothing is said of what was spoken and is not on record, nor of a text  *)
(* that is on record and met a closing socket: see the next two.           *)
RepliesAsSent == FullReplyWasSent /\ TranscriptInOrder

(* "Keep history faithful to what was actually HEARD": a turn that spoke   *)
(* and was superseded has a line.  No run checks it: the prompt that cuts  *)
(* a turn drops what was spoken so far.                                    *)
HeardIsOnRecord ==
  \A s \in Sockets : \A t \in Turns :
    t < turn[s] /\ Tokens(s, t) > 0 =>
      \E i \in DOMAIN history[s] :
        history[s][i].role = "assistant" /\ history[s][i].turn = t

(* The converse: a text on record crossed the wire.  No run checks it: one *)
(* that meets a closing socket is put on record and dropped.               *)
RecordWasSpoken ==
  \A s \in Sockets :
    Cardinality({i \in DOMAIN history[s] : history[s][i].how = "verbatim"})
      <= Cardinality({j \in DOMAIN wire[s] : wire[s][j].kind = "verbatim"})

(* A turn's latency is told once, however the reply came about.            *)
TimedOnce == \A s \in Sockets : \A t \in Turns : timed[s][t] <= 1

(* say_on_call never speaks into a socket that has closed; one that is     *)
(* closing drops what it is given.                                         *)
RegisteredIsOpen == registered # NoSocket => Receives(registered)

(* Who may speak to the caller: one turn, and a host only into a socket    *)
(* that has not closed.                                                    *)
OneVoice == OneLiveStream /\ RegisteredIsOpen

(* A failing model never leaves dead air: a turn that fails on an open     *)
(* call closes that call.                                                  *)
FailureEndsCall == blamed # {} ~> over
=============================================================================
