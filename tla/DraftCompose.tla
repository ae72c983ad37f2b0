----------------------------- MODULE DraftCompose -----------------------------
(***************************************************************************)
(* Writing mail in the gmail terminal UI: the editor effect of App, the    *)
(* draft file the editor writes to, the preview that a new mail or a reply *)
(* waits in for a yes, the requests to Gmail, the removal of the file, and *)
(* the recovery of files that were left behind.                            *)
(*                                                                         *)
(* Editor n writes to file n.  A text is a number, a new one for each save *)
(* and 0 for a template nobody has written to.  One editor has the         *)
(* terminal at a time, but requests of earlier ones may still be under     *)
(* way.  Files of two UIs, whose names may collide within a second, are    *)
(* left out.                                                               *)
(***************************************************************************)
EXTENDS Naturals

CONSTANTS
  MaxEditors, MaxTexts, MaxLives  \* bounds: editors, saves, lives of the UI

VARIABLES
  file,       \* per editor: its file [text, kind, crumb], or NoFile
  session,    \* per editor: [at, kind, source, text, cancelled, landed, confirmed]
  opened,     \* editors so far
  attached,   \* the editor pendingEditor belongs to, or 0
  overlay,    \* the editor whose mail is in the preview, or 0
  texts, life,
  delivered,  \* what Gmail has taken: [text, reply, threaded]
  given       \* the texts the user has given up: written over, or discarded

vars == <<file, session, opened, attached, overlay, texts, life, delivered, given>>

Editors == 1..MaxEditors
Kinds == {"compose", "reply", "replyAll", "draftEdit"}
NoFile == [text |-> 0, kind |-> "none", crumb |-> FALSE]
NoSession == [at |-> "none", kind |-> "none", source |-> FALSE, text |-> 0,
              cancelled |-> FALSE, landed |-> FALSE, confirmed |-> FALSE]
Over == [NoSession EXCEPT !.at = "over"]

Init ==
  /\ file = [n \in Editors |-> NoFile]
  /\ session = [n \in Editors |-> NoSession]
  /\ opened = 0 /\ attached = 0 /\ overlay = 0
  /\ texts = 0 /\ life = 1
  /\ delivered = {} /\ given = {}

Exists(n) == file[n] # NoFile
Reading == overlay = 0 /\ \A n \in Editors : session[n].at # "editing"

-----------------------------------------------------------------------------
(* REQUEST_EDITOR and the effect it starts, which lets go of the earlier   *)
(* one; openEditor writes the file before it starts the editor.            *)
OpenEditor(kind, source, content) ==
  /\ Reading
  /\ opened < MaxEditors /\ opened' = opened + 1
  /\ attached' = opened + 1
  /\ file' = [file EXCEPT ![opened + 1] = content]
  /\ session' = [n \in Editors |->
       IF n = opened + 1
       THEN [NoSession EXCEPT !.at = "editing", !.kind = kind, !.source = source]
       ELSE IF n = attached THEN [session[n] EXCEPT !.cancelled = TRUE]
       ELSE session[n]]
  /\ UNCHANGED <<overlay, texts, life, delivered, given>>

(* A new mail or a forward, a reply, a draft: only the template of a draft *)
(* carries where it belongs.                                               *)
Compose(kind) ==
  OpenEditor(kind, kind # "compose",
             [text |-> 0, kind |-> kind, crumb |-> kind = "draftEdit"])

(* resumeLocalDraft: what the file says is all there is to know.           *)
ResumeDraft(f) ==
  /\ Exists(f)
  /\ OpenEditor(file[f].kind, file[f].crumb, file[f])

DiscardDraft(f) ==
  /\ Reading /\ Exists(f)
  /\ given' = given \cup {file[f].text}
  /\ file' = [file EXCEPT ![f] = NoFile]
  /\ UNCHANGED <<session, opened, attached, overlay, texts, life, delivered>>

(* :w                                                                      *)
Save(n) ==
  /\ session[n].at = "editing"
  /\ texts < MaxTexts /\ texts' = texts + 1
  /\ file' = [file EXCEPT ![n].text = texts + 1]
  /\ given' = given \cup {file[n].text}
  /\ UNCHANGED <<session, opened, attached, overlay, life, delivered>>

-----------------------------------------------------------------------------
(* finally: CLEAR_EDITOR, whosever editor that is; its effect is let go.   *)
Clear(n, after) ==
  /\ attached' = 0
  /\ session' = [m \in Editors |->
       IF m = n THEN after
       ELSE IF m = attached THEN [session[m] EXCEPT !.cancelled = TRUE]
       ELSE session[m]]

(* The editor exits with an error or with nothing to send, or its effect   *)
(* was let go meanwhile: the file stays.                                   *)
ExitKept(n) ==
  /\ session[n].at = "editing"
  /\ Clear(n, Over)
  /\ UNCHANGED <<file, opened, overlay, texts, life, delivered, given>>

Threaded(n) == file[n].crumb \/ session[n].source

(* A reply to all and a draft go out at once.                              *)
ExitSends(n) ==
  /\ session[n].at = "editing" /\ ~session[n].cancelled
  /\ session[n].kind \in {"draftEdit", "replyAll"}
  /\ session[n].kind = "replyAll" => Threaded(n)
  /\ session' = [session EXCEPT ![n].at = "sending", ![n].text = file[n].text,
                                ![n].source = Threaded(n)]
  /\ UNCHANGED <<file, opened, attached, overlay, texts, life, delivered, given>>

(* Everything else waits in the preview for a yes.                         *)
ExitShown(n) ==
  /\ session[n].at = "editing" /\ ~session[n].cancelled
  /\ session[n].kind \in {"compose", "reply"}
  /\ Clear(n, [session[n] EXCEPT !.at = "shown", !.text = file[n].text])
  /\ overlay' = n
  /\ UNCHANGED <<file, opened, texts, life, delivered, given>>

Confirm(n) ==
  /\ overlay = n /\ session[n].at = "shown"
  /\ overlay' = 0
  /\ session' = [session EXCEPT ![n].at = "sending", ![n].confirmed = TRUE,
                                ![n].source = Threaded(n)]
  /\ UNCHANGED <<file, opened, attached, texts, life, delivered, given>>

Decline(n) ==
  /\ overlay = n /\ session[n].at = "shown"
  /\ overlay' = 0
  /\ session' = [session EXCEPT ![n] = Over]
  /\ UNCHANGED <<file, opened, attached, texts, life, delivered, given>>

-----------------------------------------------------------------------------
(* Gmail takes the mail, whether or not its answer arrives.                *)
Lands(n) ==
  /\ session[n].at = "sending" /\ ~session[n].landed
  /\ session' = [session EXCEPT ![n].landed = TRUE]
  /\ delivered' = delivered \cup
       {[text |-> session[n].text, threaded |-> session[n].source,
         reply |-> session[n].kind \in {"reply", "replyAll"}]}
  /\ UNCHANGED <<file, opened, attached, overlay, texts, life, given>>

Answers(n) ==
  /\ session[n].at = "sending" /\ session[n].landed
  /\ session' = [session EXCEPT ![n].at = "rm"]
  /\ UNCHANGED <<file, opened, attached, overlay, texts, life, delivered, given>>

(* A run of the editor effect ends with CLEAR_EDITOR, a confirmed send     *)
(* does not.                                                               *)
RunEnds(n) ==
  IF session[n].confirmed
  THEN session' = [session EXCEPT ![n] = Over] /\ UNCHANGED attached
  ELSE Clear(n, Over)

MutFails(n) ==
  /\ session[n].at = "sending"
  /\ session' = [session EXCEPT ![n].at = "rm"]
  /\ UNCHANGED <<file, opened, attached, overlay, texts, life, delivered, given>>

(* Refused, or answered into the void: the file stays.                     *)
Fails(n) ==
  /\ session[n].at = "sending"
  /\ RunEnds(n)
  /\ UNCHANGED <<file, opened, overlay, texts, life, delivered, given>>

Remove(n) ==
  /\ session[n].at = "rm"
  /\ file' = [file EXCEPT ![n] = NoFile]
  /\ RunEnds(n)
  /\ UNCHANGED <<opened, overlay, texts, life, delivered, given>>

(* The UI quits or dies with whatever is under way, and starts again.      *)
Restart ==
  /\ life < MaxLives /\ life' = life + 1
  /\ attached' = 0 /\ overlay' = 0
  /\ session' = [n \in Editors |->
       IF session[n] = NoSession THEN NoSession ELSE Over]
  /\ UNCHANGED <<file, opened, texts, delivered, given>>

Next ==
  \/ \E kind \in Kinds : Compose(kind)
  \/ \E n \in Editors :
       \/ ResumeDraft(n) \/ DiscardDraft(n) \/ Save(n)
       \/ ExitKept(n) \/ ExitSends(n) \/ ExitShown(n) \/ Confirm(n) \/ Decline(n)
       \/ Lands(n) \/ Answers(n) \/ Fails(n) \/ Remove(n)
  \/ Restart

Spec == Init /\ [][Next]_vars

-----------------------------------------------------------------------------
Sessions ==
  [at : {"none", "editing", "shown", "sending", "rm", "over"},
   kind : Kinds \cup {"none"}, source : BOOLEAN, text : 0..texts,
   cancelled : BOOLEAN, landed : BOOLEAN, confirmed : BOOLEAN]

TypeOK ==
  /\ opened \in 0..MaxEditors /\ texts \in 0..MaxTexts /\ life \in 1..MaxLives
  /\ attached \in 0..opened /\ overlay \in 0..MaxEditors
  /\ file \in [Editors -> [text : 0..texts, kind : Kinds \cup {"none"},
                           crumb : BOOLEAN]]
  /\ session \in [Editors -> Sessions]
  /\ \A n \in Editors : session[n].at = "rm" => session[n].landed
  /\ delivered \subseteq [text : 0..texts, reply : BOOLEAN, threaded : BOOLEAN]
  /\ given \subseteq 0..texts

(* "The user's writing survives": whatever was saved is on disk unless     *)
(* Gmail has it or the user gave it up, although editors overlap with the  *)
(* requests of earlier ones, the file being sent may be resumed or         *)
(* discarded, and the UI may die between any two steps.                    *)
WritingSurvives ==
  \A t \in 1..texts :
    \/ t \in given
    \/ \E d \in delivered : d.text = t
    \/ \E n \in Editors : Exists(n) /\ file[n].text = t

(* The breadcrumbs "let a recovered reply re-thread onto its original      *)
(* message": no reply is sent as a mail of its own.                        *)
RepliesThread == \A d \in delivered : d.reply => d.threaded
=============================================================================
