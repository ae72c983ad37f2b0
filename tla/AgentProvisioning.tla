-------------------------- MODULE AgentProvisioning --------------------------
(***************************************************************************)
(* ensureAgent and provisionAgent for one agent key: the calls that need   *)
(* the platform's agent of one profile variant, the agent_profiles row     *)
(* that says which agent that is and by which brief (its hash) it was      *)
(* made, and the platform.  A brief is a number: the version of the        *)
(* configuration, or of a meeting's persona file, it was built from.       *)
(*                                                                         *)
(* Whoever finds no run under way for the key starts one; the others await *)
(* its promise.  What the platform does with a request and when its answer *)
(* comes are steps of their own.  The rest of dial is in CallLifecycle.    *)
(***************************************************************************)
EXTENDS Naturals, FiniteSets

CONSTANTS
  Calls,     \* off-device calls of one profile variant
  NoCall,
  MaxBrief,  \* bound: the briefs there are
  MaxAgents, \* bound: the agents the platform makes
  MaxLives,  \* bound: the lives of serve
  Faults     \* of "refused" (a request is refused), "lost" (an answer is),
             \* "deleted" (the dashboard deletes an agent), "revert" (an edit
             \* goes back to an earlier brief), "hasty" (an edit while a run
             \* is under way)

VARIABLES
  config,       \* what buildBrief returns now
  life,
  row,          \* agent_profiles: [agentId, brief], agentId 0 for no row
  provisioning, \* the call that started the run under way, or NoCall
  run,          \* per call: the provisionAgent it started
  stage,        \* per call: "idle", "ensure", "dial", "placed", "failed"
  brief,        \* per call: the brief it was planned with
  awaits,       \* per call: whose run it awaits
  agent,        \* per call: the agent it was given, or 0
  \* the platform
  made,         \* per agent: the brief it runs by
  gone,         \* the agents that were deleted
  orphans,      \* those whose id serve never wrote down
  spoken        \* per call: the brief its agent spoke by, or 0

serve == <<provisioning, run, stage, brief, awaits, agent>>
platform == <<made, gone, orphans, spoken>>
vars == <<config, life, row, serve, platform>>

Briefs == 1..MaxBrief
Ids == DOMAIN made
NoRow == [agentId |-> 0, brief |-> 0]
NoRun == [at |-> "none", agentId |-> 0, landed |-> FALSE]

Init ==
  /\ config = 1 /\ life = 1 /\ row = NoRow
  /\ provisioning = NoCall
  /\ run = [c \in Calls |-> NoRun]
  /\ stage = [c \in Calls |-> "idle"]
  /\ brief = [c \in Calls |-> 0]
  /\ awaits = [c \in Calls |-> NoCall]
  /\ agent = [c \in Calls |-> 0]
  /\ made = << >> /\ gone = {} /\ orphans = {}
  /\ spoken = [c \in Calls |-> 0]

-----------------------------------------------------------------------------
(* planAgentAction                                                         *)
MutPlan(b) == IF row.agentId = 0 THEN "create" ELSE "reuse"

Plan(b) == IF row.agentId = 0 THEN "create"
           ELSE IF row.brief = b THEN "reuse" ELSE "update"

(* ensureAgent: a run under way is joined, whatever brief it is for.       *)
Join(c) ==
  /\ provisioning # NoCall
  /\ stage' = [stage EXCEPT ![c] = "ensure"]
  /\ awaits' = [awaits EXCEPT ![c] = provisioning]
  /\ UNCHANGED <<provisioning, run, agent>>

(* provisionAgent up to its first await: a row with this hash is taken at  *)
(* its word.                                                               *)
Reuse(c, b) ==
  /\ Plan(b) = "reuse"
  /\ stage' = [stage EXCEPT ![c] = "dial"]
  /\ agent' = [agent EXCEPT ![c] = row.agentId]
  /\ UNCHANGED <<provisioning, run, awaits>>

MutRequest(c, b) ==
  /\ provisioning' = c
  /\ run' = [run EXCEPT ![c] =
       [at |-> Plan(b), agentId |-> row.agentId, landed |-> FALSE]]
  /\ stage' = [stage EXCEPT ![c] = "ensure"]
  /\ awaits' = [awaits EXCEPT ![c] = c]
  /\ UNCHANGED agent

Request(c, b) ==
  /\ Plan(b) # "reuse"
  /\ provisioning' = c
  /\ run' = [run EXCEPT ![c] =
       [at |-> Plan(b), agentId |-> row.agentId, landed |-> FALSE]]
  /\ stage' = [stage EXCEPT ![c] = "ensure"]
  /\ awaits' = [awaits EXCEPT ![c] = c]
  /\ UNCHANGED agent

MutProvision(c, b) == Reuse(c, b) \/ Request(c, b)

Provision(c, b) == provisioning = NoCall /\ (Reuse(c, b) \/ Request(c, b))

EnsureAgent(c) ==
  /\ stage[c] = "idle"
  /\ brief' = [brief EXCEPT ![c] = config]
  /\ Join(c) \/ Provision(c, config)
  /\ UNCHANGED <<config, life, row, platform>>

(* The run of c resolves or rejects: the map forgets it, and whoever       *)
(* awaits it goes on.                                                      *)

Settle(c, to, id) ==
  /\ provisioning' = IF provisioning = c THEN NoCall ELSE provisioning
  /\ run' = [run EXCEPT ![c] = NoRun]
  /\ stage' = [d \in Calls |-> IF awaits[d] = c THEN to ELSE stage[d]]
  /\ agent' = [d \in Calls |-> IF awaits[d] = c THEN id ELSE agent[d]]
  /\ awaits' = [d \in Calls |-> IF awaits[d] = c THEN NoCall ELSE awaits[d]]

Resolve(c, id) ==
  /\ row' = [agentId |-> id, brief |-> brief[c]]
  /\ Settle(c, "dial", id)

-----------------------------------------------------------------------------
(* updateAgent                                                             *)
UpdateLands(c) ==
  /\ run[c].at = "update" /\ ~run[c].landed
  /\ run[c].agentId \notin gone
  /\ made' = [made EXCEPT ![run[c].agentId] = brief[c]]
  /\ run' = [run EXCEPT ![c].landed = TRUE]
  /\ UNCHANGED <<config, life, row, provisioning, stage, brief, awaits, agent,
                 gone, orphans, spoken>>

UpdateAnswers(c) ==
  /\ run[c].at = "update" /\ run[c].landed
  /\ Resolve(c, run[c].agentId)
  /\ UNCHANGED <<config, life, brief, platform>>

(* The platform knows no such agent: it is made anew.                      *)
UpdateFinds404(c) ==
  /\ run[c].at = "update" /\ ~run[c].landed
  /\ run[c].agentId \in gone
  /\ run' = [run EXCEPT ![c] = [at |-> "create", agentId |-> 0, landed |-> FALSE]]
  /\ UNCHANGED <<config, life, row, provisioning, stage, brief, awaits, agent,
                 platform>>

(* createAgent                                                             *)
CreateLands(c) ==
  LET id == Cardinality(Ids) + 1 IN
  /\ run[c].at = "create" /\ ~run[c].landed
  /\ id <= MaxAgents
  /\ made' = [i \in 1..id |-> IF i = id THEN brief[c] ELSE made[i]]
  /\ run' = [run EXCEPT ![c].landed = TRUE, ![c].agentId = id]
  /\ UNCHANGED <<config, life, row, provisioning, stage, brief, awaits, agent,
                 gone, orphans, spoken>>

CreateAnswers(c) ==
  /\ run[c].at = "create" /\ run[c].landed
  /\ Resolve(c, run[c].agentId)
  /\ UNCHANGED <<config, life, brief, platform>>

Unrecorded(c) ==
  IF run[c].at = "create" /\ run[c].landed THEN {run[c].agentId} ELSE {}

(* Either request fails: refused, or answered into the void.               *)
RequestFails(c) ==
  /\ run[c].at # "none"
  /\ (IF run[c].landed THEN "lost" ELSE "refused") \in Faults
  /\ orphans' = orphans \cup Unrecorded(c)
  /\ Settle(c, "failed", 0)
  /\ UNCHANGED <<config, life, row, brief, made, gone, spoken>>

-----------------------------------------------------------------------------
(* placeOutboundCall: the platform runs the agent as it is by then.        *)
Place(c) ==
  /\ stage[c] = "dial"
  /\ IF agent[c] \in gone
     THEN /\ stage' = [stage EXCEPT ![c] = "failed"]
          /\ UNCHANGED spoken
     ELSE /\ stage' = [stage EXCEPT ![c] = "placed"]
          /\ spoken' = [spoken EXCEPT ![c] = made[agent[c]]]
  /\ UNCHANGED <<config, life, row, provisioning, run, brief, awaits, agent,
                 made, gone, orphans>>

Edits == {b \in Briefs : b >= config \/ "revert" \in Faults}

(* serve dies and starts again, its configuration perhaps edited.  What it *)
(* awaited is forgotten; a request it cut has landed by now or never does. *)
Restart ==
  /\ life < MaxLives /\ life' = life + 1
  /\ config' \in Edits
  /\ orphans' = orphans \cup UNION {Unrecorded(c) : c \in Calls}
  /\ provisioning' = NoCall
  /\ run' = [c \in Calls |-> NoRun]
  /\ stage' = [c \in Calls |->
       IF stage[c] \in {"ensure", "dial"} THEN "failed" ELSE stage[c]]
  /\ awaits' = [c \in Calls |-> NoCall]
  /\ UNCHANGED <<row, brief, agent, made, gone, spoken>>

(* The persona file of meetings is read anew for each.                     *)
EditPersona ==
  /\ "hasty" \in Faults \/ \A c \in Calls : stage[c] \notin {"ensure", "dial"}
  /\ config' \in Edits
  /\ UNCHANGED <<life, row, serve, platform>>

DeleteAgent ==
  /\ "deleted" \in Faults
  /\ \E a \in Ids \ gone : gone' = gone \cup {a}
  /\ UNCHANGED <<config, life, row, serve, made, orphans, spoken>>

Next ==
  \/ \E c \in Calls :
       \/ EnsureAgent(c) \/ Place(c)
       \/ UpdateLands(c) \/ UpdateAnswers(c) \/ UpdateFinds404(c)
       \/ CreateLands(c) \/ CreateAnswers(c) \/ RequestFails(c)
  \/ Restart \/ EditPersona \/ DeleteAgent

Spec == Init /\ [][Next]_vars

-----------------------------------------------------------------------------
TypeOK ==
  /\ config \in Briefs /\ life \in 1..MaxLives
  /\ row \in [agentId : 0..MaxAgents, brief : 0..MaxBrief]
  /\ provisioning \in Calls \cup {NoCall}
  /\ run \in [Calls -> [at : {"none", "update", "create"},
                        agentId : 0..MaxAgents, landed : BOOLEAN]]
  /\ stage \in [Calls -> {"idle", "ensure", "dial", "placed", "failed"}]
  /\ brief \in [Calls -> 0..MaxBrief]
  /\ awaits \in [Calls -> Calls \cup {NoCall}]
  /\ agent \in [Calls -> 0..MaxAgents]
  /\ \E n \in 0..MaxAgents : made \in [1..n -> Briefs]
  /\ gone \subseteq Ids /\ orphans \subseteq Ids
  /\ spoken \in [Calls -> 0..MaxBrief]

(* "Two calls racing on a new profile create ONE agent": an agent that     *)
(* lives is the one of the row, or has just been made and is about to be,  *)
(* or its id was lost with an answer or a crash; only one is being made,   *)
(* and a call that awaits a run awaits one that is still under way.        *)
OneAgent ==
  /\ \A a \in Ids \ (gone \cup orphans) :
       \/ row.agentId = a
       \/ \E c \in Calls : a \in Unrecorded(c)
  /\ \A c, d \in Calls :
       run[c].at = "create" /\ run[d].at = "create" => c = d
  /\ \A c \in Calls : stage[c] = "ensure" =>
       awaits[c] # NoCall /\ run[awaits[c]].at # "none"

(* A call is spoken by the brief it was planned with, although the agent   *)
(* is shared, the row may lag behind the platform, and serve may die       *)
(* between the two.                                                        *)
SpeaksByItsBrief ==
  \A c \in Calls : spoken[c] # 0 => spoken[c] = brief[c]

(* "An agent deleted on the platform side is recreated, not dialed dead":  *)
(* a call that takes the row at its word gets an agent that lives.         *)
RecreatedNotDialedDead ==
  [][\A c \in Calls : stage[c] = "idle" /\ stage'[c] = "dial"
       => agent'[c] \notin gone]_vars
=============================================================================
