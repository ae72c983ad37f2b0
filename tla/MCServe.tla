------------------------------- MODULE MCServe -------------------------------
(***************************************************************************)
(* What `serve` keeps beside its calls: the tunnel's child, the platform's *)
(* agents and the recordings.  The three share no state, so no order of    *)
(* their steps shows what one of them alone does not; a behaviour lets one *)
(* of them run, chosen at the start.                                       *)
(***************************************************************************)
EXTENDS TunnelSupervisor, TLC

CONSTANTS Calls, NoCall, MaxBrief, MaxAgents, AgentFaults,
          Tasks, Sids, RecordingFaults

ASSUME ServeAssumption ==
  /\ NoCall \notin Calls
  /\ MaxBrief \in Nat \ {0} /\ MaxAgents \in Nat /\ MaxLives \in Nat \ {0}

VARIABLES
  part,
  config, agentsLife, profile, provisioning, run, stage, brief, awaits, agent,
  made, gone, orphans, spoken,
  task, recordingsLife, cached, claims, row, stored, minted, keychain, file, carrier

Agents == INSTANCE AgentProvisioning
  WITH Faults <- AgentFaults, life <- agentsLife, row <- profile

Recordings == INSTANCE Recordings
  WITH Faults <- RecordingFaults, life <- recordingsLife

agents == <<config, agentsLife, profile, provisioning, run, stage, brief, awaits,
            agent, made, gone, orphans, spoken>>
recordings == <<task, recordingsLife, cached, claims, row, stored, minted,
                keychain, file, carrier>>

ServeInit ==
  /\ part \in {"tunnel", "agents", "recordings"}
  /\ Init /\ Agents!Init /\ Recordings!Init

ServeNext ==
  /\ \/ part = "tunnel" /\ Next /\ UNCHANGED <<agents, recordings>>
     \/ part = "agents" /\ Agents!Next /\ UNCHANGED <<vars, recordings>>
     \/ part = "recordings" /\ Recordings!Next /\ UNCHANGED <<vars, agents>>
  /\ UNCHANGED part

ServeSpec ==
  ServeInit /\ [][ServeNext]_<<part, vars, agents, recordings>> /\ Fairness

-----------------------------------------------------------------------------
(* The variables of the agents and of the recordings have their types.     *)
TypesOK == Agents!TypeOK /\ Recordings!TypeOK

(* See AgentProvisioning: one agent per profile, made by one run.          *)
OneAgent == Agents!OneAgent

(* See AgentProvisioning: a call is spoken by the brief it was planned     *)
(* with.                                                                   *)
SpeaksByItsBrief == Agents!SpeaksByItsBrief

(* See Recordings: what the index lists can be played.                     *)
Playable == Recordings!Playable

(* See Recordings: no replayed callback brings a deleted recording back.   *)
DeletedStaysDeleted == Recordings!DeletedStaysDeleted
=============================================================================
