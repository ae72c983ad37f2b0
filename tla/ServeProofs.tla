----------------------------- MODULE ServeProofs -----------------------------
(***************************************************************************)
(* Proofs about what `serve` keeps beside its calls, for any number of     *)
(* lives of `serve`: TunnelSupervisor for any number of children and exits *)
(* before it gives up, AgentProvisioning for any number of calls, briefs   *)
(* and agents, Recordings for any number of tasks and recordings.          *)
(***************************************************************************)
EXTENDS MCServe, FiniteSetTheorems, TLAPS

USE TunnelAssumption DEF Children, None

up == serve = "up"

(* The supervisor does one thing at a time: it awaits the secret, waits to *)
(* restart, or has a child; while it waits for an exit it has one.         *)
OneThing ==
  up => /\ fetching => child = None /\ ~timer
        /\ timer => child = None
        /\ stop = "grace" => child # None

(* Of the running children its own is the only one of this life, and the   *)
(* earlier ones were told to go, but for those the pidfile never named.    *)
OthersLeave ==
  up => /\ alive \cap Mine \subseteq {child}
        /\ alive \ Mine \subseteq signalled \cup unfiled
        /\ child # None => child \in Mine /\ pidfile = child

(* Of the children that were ever in the pidfile, the one nobody told to   *)
(* go still is, whoever comes next.                                        *)
PidfileKnows == alive \ (signalled \cup unfiled) \subseteq {pidfile}

(* Each child after the first was paid for with an exit.                   *)
ExitsPay ==
  up => /\ spawned - first <= GiveUpAfter
        /\ fetching \/ timer => spawned - first <= restarts /\ restarts < GiveUpAfter
        /\ child # None /\ ~stopping
             => spawned - first <= restarts + 1 /\ restarts < GiveUpAfter

TunnelInv == TypeOK /\ OneThing /\ OthersLeave /\ PidfileKnows /\ ExitsPay

-----------------------------------------------------------------------------
(* TypeOK in three parts, which the provers take one at a time.            *)
CountsType ==
  /\ spawned \in 0..MaxChildren /\ first \in 0..spawned
  /\ alive \subseteq 1..spawned /\ signalled \subseteq 1..spawned
  /\ unfiled \subseteq 1..spawned
  /\ pidfile \in 0..spawned /\ child \in 0..spawned
  /\ lives \in 0..MaxLives /\ restarts \in 0..GiveUpAfter
FlagsType ==
  /\ serve \in {"off", "up", "crashed"}
  /\ state \in {"disabled", "starting", "ready", "down", "gave_up", "stopped"}
  /\ fetching \in BOOLEAN /\ timer \in BOOLEAN
  /\ stop \in {"no", "grace", "done"} /\ gaveUp \in BOOLEAN
ProbesType ==
  /\ ready \in [Children -> {"off"} \cup Probing]
  /\ health \in [Children -> {"off", "idle"} \cup Probing]

LEMMA TypeParts ==
  /\ TypeOK <=> CountsType /\ FlagsType /\ ProbesType
  /\ TypeOK' <=> CountsType' /\ FlagsType' /\ ProbesType'
  <1>1. TypeOK <=> CountsType /\ FlagsType /\ ProbesType
    BY Zenon DEF TypeOK, CountsType, FlagsType, ProbesType
  <1>2. TypeOK' <=> CountsType' /\ FlagsType' /\ ProbesType'
    BY Zenon DEF TypeOK, CountsType, FlagsType, ProbesType
  <1> QED BY <1>1, <1>2

LEMMA OffType ==
  /\ Off \in [Children -> {"off"} \cup Probing]
  /\ Off \in [Children -> {"off", "idle"} \cup Probing]
  BY DEF Off

LEMMA SpawnStep ==
  ASSUME TunnelInv, SecretResolves
  PROVE  TunnelInv'
  <1> USE DEF SecretResolves, Spawn, stopping, Mine, up
  <1> DEFINE n == spawned + 1
  <1>1. /\ up /\ fetching /\ child = None /\ ~timer /\ n \in 1..MaxChildren
        /\ spawned' = n /\ alive' = alive \cup {n} /\ child' = n /\ pidfile' = n
        /\ ~fetching' /\ timer' = timer /\ serve' = serve /\ first' = first
        /\ signalled' = signalled /\ unfiled' = unfiled
        /\ stop' = stop /\ restarts' = restarts
        /\ first \in 0..spawned /\ spawned \in Nat
    BY DEF TunnelInv, TypeOK, OneThing
  <1>2. TypeOK'
    <2>1. CountsType'
      BY <1>1, TypeParts DEF TunnelInv, CountsType
    <2>2. FlagsType'
      BY <1>1, TypeParts DEF TunnelInv, FlagsType
    <2>3. ProbesType'
      BY <1>1, TypeParts DEF TunnelInv, ProbesType, Probing
    <2> QED BY <2>1, <2>2, <2>3, TypeParts
  <1>3. OneThing'
    BY <1>1 DEF OneThing
  <1>4. alive \cap Mine = {} /\ alive \subseteq signalled \cup unfiled
    BY <1>1 DEF TunnelInv, TypeOK, OthersLeave
  <1>5. OthersLeave' /\ PidfileKnows'
    <2>1. alive' \cap Mine' \subseteq {n}
      BY <1>1, <1>4 DEF TunnelInv, TypeOK
    <2>2. n \in Mine' /\ alive' \ Mine' \subseteq signalled' \cup unfiled'
      BY <1>1, <1>4
    <2> QED BY <2>1, <2>2, <1>1, <1>4 DEF OthersLeave, PidfileKnows
  <1>6. ExitsPay'
    <2>1. spawned - first <= restarts /\ restarts < GiveUpAfter
      BY <1>1 DEF TunnelInv, ExitsPay
    <2>2. spawned' - first' <= restarts + 1 /\ restarts + 1 <= GiveUpAfter
      BY <1>1, <2>1 DEF TunnelInv, TypeOK
    <2> QED BY <1>1, <2>1, <2>2 DEF TunnelInv, TypeOK, ExitsPay
  <1> QED BY <1>2, <1>3, <1>5, <1>6 DEF TunnelInv

(* A child that comes into no pidfile ends its `serve` and is not counted. *)
LEMMA TornStep ==
  ASSUME TunnelInv, SpawnTorn
  PROVE  TunnelInv'
  <1> DEFINE n == spawned + 1
  <1>1. /\ n \in 1..MaxChildren /\ spawned' = n /\ alive' = alive \cup {n}
        /\ unfiled' = unfiled \cup {n} /\ signalled' = signalled
        /\ pidfile' = pidfile /\ child' = child /\ first' = first
        /\ lives' = lives /\ restarts' = restarts /\ spawned \in Nat
        /\ serve' \in {"off", "crashed"} /\ fetching' = FALSE
        /\ state' = state /\ timer' = timer /\ stop' = stop /\ gaveUp' = gaveUp
        /\ ready' = ready /\ health' = health
    BY DEF SpawnTorn, probes, TunnelInv, TypeOK
  <1>2. CountsType'
    BY <1>1, TypeParts DEF TunnelInv, CountsType
  <1>3. FlagsType' /\ ProbesType'
    BY <1>1, TypeParts DEF TunnelInv, FlagsType, ProbesType
  <1>4. OneThing' /\ OthersLeave' /\ ExitsPay'
    BY <1>1 DEF OneThing, OthersLeave, ExitsPay, up
  <1>5. PidfileKnows'
    BY <1>1 DEF TunnelInv, PidfileKnows
  <1> QED BY <1>2, <1>3, <1>4, <1>5, TypeParts DEF TunnelInv

LEMMA StartStep ==
  ASSUME TunnelInv, Start
  PROVE  TunnelInv'
  <1> USE DEF Start, Reap, Forget, stopping, Mine, up
  <1>1. TypeOK'
    <2>1. CountsType'
      BY TypeParts DEF TunnelInv, CountsType
    <2>2. FlagsType'
      BY TypeParts DEF TunnelInv, FlagsType
    <2>3. ProbesType'
      BY OffType DEF ProbesType
    <2> QED BY <2>1, <2>2, <2>3, TypeParts
  <1>2. OneThing'
    BY DEF OneThing
  <1>3. alive' \subseteq signalled' \cup unfiled' /\ alive' \subseteq 1..spawned'
    BY DEF TunnelInv, TypeOK, PidfileKnows
  <1>4. OthersLeave' /\ PidfileKnows'
    <2>1. Mine' = {}
      BY DEF TunnelInv, TypeOK
    <2> QED BY <1>3, <2>1 DEF OthersLeave, PidfileKnows
  <1>5. ExitsPay'
    BY DEF TunnelInv, TypeOK, ExitsPay
  <1> QED BY <1>1, <1>2, <1>4, <1>5 DEF TunnelInv

LEMMA ExitStep ==
  ASSUME TunnelInv, NEW c \in Children, ChildExits(c)
  PROVE  TunnelInv'
  <1> USE DEF ChildExits, up, stopping
  <1>1. up /\ c = child /\ child # None
    BY DEF TunnelInv, TypeOK, OthersLeave
  <1>2. /\ alive' = alive \ {c} /\ child' = None /\ pidfile' = None
        /\ spawned' = spawned /\ signalled' = signalled /\ unfiled' = unfiled
        /\ lives' = lives
        /\ serve' = serve /\ first' = first /\ fetching' = fetching
        /\ ready' = ready /\ health' = health
    BY DEF probes
  <1>3. alive' \subseteq signalled' \cup unfiled'
    BY <1>1, <1>2 DEF TunnelInv, OthersLeave, PidfileKnows
  <1>4. OthersLeave' /\ PidfileKnows'
    BY <1>1, <1>2, <1>3 DEF TunnelInv, OthersLeave, PidfileKnows, Mine
  <1>5. CASE stopping
    <2>1. /\ stop' = "done" /\ restarts' = restarts /\ timer' = timer
          /\ gaveUp' = gaveUp /\ state' \in {state, "stopped"}
      BY <1>5
    <2>2. TypeOK' /\ OneThing' /\ ExitsPay'
      BY <1>1, <1>2, <2>1 DEF TunnelInv, TypeOK, OneThing, ExitsPay
    <2> QED BY <1>4, <2>2 DEF TunnelInv
  <1>6. CASE ~stopping
    <2>1. Restart /\ stop' = stop /\ restarts \in Nat
      BY <1>6 DEF TunnelInv, TypeOK
    <2>2. spawned - first <= restarts + 1 /\ restarts < GiveUpAfter
      BY <1>1, <1>6 DEF TunnelInv, ExitsPay
    <2>3. ~fetching /\ ~timer
      BY <1>1 DEF TunnelInv, OneThing
    <2>4. TypeOK'
      <3>1. CountsType'
        BY <1>2, <2>1, <2>2, TypeParts DEF Restart, TunnelInv, CountsType
      <3>2. FlagsType'
        BY <1>2, <2>1, TypeParts DEF Restart, TunnelInv, FlagsType
      <3>3. ProbesType'
        BY <1>2, TypeParts DEF TunnelInv, ProbesType
      <3> QED BY <3>1, <3>2, <3>3, TypeParts
    <2>5. OneThing'
      BY <1>2, <1>6, <2>1, <2>3 DEF OneThing
    <2>6. ExitsPay'
      BY <1>1, <1>2, <2>1, <2>2, <2>3 DEF Restart, TunnelInv, TypeOK, ExitsPay
    <2> QED BY <1>4, <2>4, <2>5, <2>6 DEF TunnelInv
  <1> QED BY <1>5, <1>6

LEMMA StopStep ==
  ASSUME TunnelInv, Stop \/ GraceEnds \/ Exit \/ Crash
  PROVE  TunnelInv'
  <1> USE DEF up, stopping, Mine, machine, probes
  <1>1. CASE Stop
    <2>1. TypeOK'
      <3>1. CountsType'
        BY <1>1, TypeParts DEF Stop, TunnelInv, CountsType
      <3>2. FlagsType'
        BY <1>1, TypeParts DEF Stop, TunnelInv, FlagsType
      <3>3. ProbesType'
        BY <1>1, OffType, TypeParts DEF Stop, TunnelInv, ProbesType
      <3> QED BY <3>1, <3>2, <3>3, TypeParts
    <2>2. OneThing' /\ OthersLeave' /\ PidfileKnows'
      BY <1>1 DEF Stop, TunnelInv, TypeOK, OneThing, OthersLeave, PidfileKnows
    <2>3. ExitsPay'
      BY <1>1 DEF Stop, TunnelInv, TypeOK, ExitsPay
    <2> QED BY <2>1, <2>2, <2>3 DEF TunnelInv
  <1>2. CASE GraceEnds
    <2>1. TypeOK'
      BY <1>2 DEF GraceEnds, TunnelInv, TypeOK
    <2>2. OneThing' /\ OthersLeave' /\ PidfileKnows'
      BY <1>2 DEF GraceEnds, TunnelInv, OneThing, OthersLeave, PidfileKnows
    <2>3. ExitsPay'
      BY <1>2 DEF GraceEnds, TunnelInv, ExitsPay
    <2> QED BY <2>1, <2>2, <2>3 DEF TunnelInv
  <1>3. CASE Exit \/ Crash
    <2>1. TypeOK'
      BY <1>3 DEF Exit, Crash, TunnelInv, TypeOK
    <2>2. OneThing' /\ OthersLeave' /\ PidfileKnows' /\ ExitsPay'
      BY <1>3 DEF Exit, Crash, TunnelInv, OneThing, OthersLeave, PidfileKnows, ExitsPay
    <2> QED BY <2>1, <2>2 DEF TunnelInv
  <1> QED BY <1>1, <1>2, <1>3

LEMMA OtherSteps ==
  ASSUME TunnelInv,
         \/ SecretMissing \/ SpawnFails \/ RestartFires \/ UNCHANGED vars
         \/ \E c \in Children :
              \/ StrayExits(c) \/ HealthTick(c) \/ HealthApplies(c)
              \/ \E b \in BOOLEAN : ProbeAnswers(c, b) \/ AwaitReady(c, b)
  PROVE  TunnelInv'
  <1> USE DEF up, stopping, Mine, machine, memory, probes
  <1>1. CASE SecretMissing \/ SpawnFails \/ RestartFires \/ UNCHANGED vars
    <2>1. TypeOK'
      BY <1>1 DEF SecretMissing, SpawnFails, RestartFires, vars, TunnelInv, TypeOK
    <2>2. OneThing' /\ OthersLeave' /\ PidfileKnows' /\ ExitsPay'
      BY <1>1 DEF SecretMissing, SpawnFails, RestartFires, vars, TunnelInv,
         OneThing, OthersLeave, PidfileKnows, ExitsPay
    <2> QED BY <2>1, <2>2 DEF TunnelInv
  <1>2. ASSUME NEW c \in Children, StrayExits(c)
        PROVE  TunnelInv'
    <2>1. TypeOK'
      BY <1>2 DEF StrayExits, TunnelInv, TypeOK
    <2>2. OneThing' /\ OthersLeave' /\ PidfileKnows' /\ ExitsPay'
      BY <1>2 DEF StrayExits, TunnelInv, OneThing, OthersLeave, PidfileKnows, ExitsPay
    <2> QED BY <2>1, <2>2 DEF TunnelInv
  <1>3. ASSUME NEW c \in Children, NEW b \in BOOLEAN,
               HealthTick(c) \/ HealthApplies(c) \/ ProbeAnswers(c, b) \/ AwaitReady(c, b)
        PROVE  TunnelInv'
    <2>1. TypeOK'
      <3>1. CASE HealthTick(c)
        BY <3>1 DEF HealthTick, TunnelInv, TypeOK, Probing
      <3>2. CASE HealthApplies(c)
        BY <3>2 DEF HealthApplies, TunnelInv, TypeOK, Probing
      <3>3. CASE ProbeAnswers(c, b)
        BY <3>3 DEF ProbeAnswers, TunnelInv, TypeOK, Probing
      <3>4. CASE AwaitReady(c, b)
        <4>1. ready' \in [Children -> {"off"} \cup Probing]
          BY <3>4 DEF AwaitReady, TunnelInv, TypeOK, Probing
        <4>2. health' \in [Children -> {"off", "idle"} \cup Probing]
          BY <3>4 DEF AwaitReady, TunnelInv, TypeOK, Probing
        <4>3. state' \in {"disabled", "starting", "ready", "down", "gave_up", "stopped"}
          BY <3>4 DEF AwaitReady, TunnelInv, TypeOK
        <4> QED BY <3>4, <4>1, <4>2, <4>3 DEF AwaitReady, TunnelInv, TypeOK
      <3> QED BY <1>3, <3>1, <3>2, <3>3, <3>4
    <2>2. /\ spawned' = spawned /\ alive' = alive /\ signalled' = signalled
          /\ unfiled' = unfiled /\ pidfile' = pidfile /\ serve' = serve /\ first' = first
          /\ child' = child /\ restarts' = restarts /\ fetching' = fetching
          /\ timer' = timer /\ stop' = stop
      BY <1>3 DEF HealthTick, HealthApplies, ProbeAnswers, AwaitReady
    <2>3. OneThing' /\ OthersLeave' /\ PidfileKnows' /\ ExitsPay'
      BY <2>2 DEF TunnelInv, OneThing, OthersLeave, PidfileKnows, ExitsPay
    <2> QED BY <2>1, <2>3 DEF TunnelInv
  <1> QED BY <1>1, <1>2, <1>3

LEMMA TunnelInit ==
  ASSUME Init
  PROVE  TunnelInv
  <1>1. CountsType
    BY DEF Init, CountsType
  <1>2. FlagsType
    BY DEF Init, FlagsType
  <1>3. ProbesType
    BY OffType DEF Init, ProbesType
  <1> QED BY <1>1, <1>2, <1>3, TypeParts DEF Init, TunnelInv, OneThing, OthersLeave,
             PidfileKnows, ExitsPay, up

LEMMA TunnelStep ==
  ASSUME TunnelInv, [Next]_vars
  PROVE  TunnelInv'
  BY SpawnStep, TornStep, StartStep, ExitStep, StopStep, OtherSteps DEF Next

LEMMA TunnelInvariant == Spec => []TunnelInv
  BY TunnelInit, TunnelStep, PTL DEF Spec

-----------------------------------------------------------------------------
(* Every variable keeps its type: the exits are counted no further than    *)
(* the breaker, and no pid is named that never existed.                    *)
THEOREM Types == Spec => []TypeOK
  BY TunnelInvariant, PTL DEF TunnelInv

LEMMA BoundHolds ==
  ASSUME TunnelInv
  PROVE  ChildrenBounded
  <1>1. OneTunnel
    BY DEF TunnelInv, PidfileKnows, OneTunnel
  <1>2. CrashLoopBroken
    <2> SUFFICES ASSUME serve = "up" PROVE Cardinality(Mine) <= GiveUpAfter
      BY DEF CrashLoopBroken
    <2>1. first \in Nat /\ spawned \in Nat /\ first <= spawned
      BY DEF TunnelInv, TypeOK
    <2>2. Cardinality(Mine) = spawned - first
      <3>1. first + 1 \in Int /\ spawned \in Int
        BY <2>1
      <3>2. Cardinality(Mine) = IF first + 1 > spawned THEN 0
                                ELSE spawned - (first + 1) + 1
        BY <3>1, FS_Interval DEF Mine
      <3> QED BY <2>1, <3>2
    <2> QED BY <2>1, <2>2 DEF TunnelInv, ExitsPay, up
  <1> QED BY <1>1, <1>2 DEF ChildrenBounded

(* Over crashes, stops in the middle of a spawn and restarts of `serve`,   *)
(* of the children that came into the pidfile all that run but one were    *)
(* told to go, and one life of `serve` spawns no more than the breaker     *)
(* allows. A child whose `serve` ended before it wrote the pidfile is the  *)
(* exception: it has no one to tell it.                                    *)
THEOREM OneTunnelNoCrashLoop == Spec => []ChildrenBounded
  BY TunnelInvariant, BoundHolds, PTL

-----------------------------------------------------------------------------
(* Only the call in the map has a run under way, and who waits awaits it.  *)
WhoAwaits ==
  \A c \in Calls :
    /\ run[c].at # "none" <=> provisioning = c
    /\ stage[c] = "ensure" <=> awaits[c] # NoCall
    /\ awaits[c] # NoCall => awaits[c] = provisioning
    /\ provisioning = c => awaits[c] = c
    /\ stage[c] # "idle" => brief[c] \in Agents!Briefs

(* An update is one of the row's agent; what is being made replaces        *)
(* nothing, or an agent that was deleted.                                  *)
RunsKnowTheirAgent ==
  /\ profile.agentId \in {0} \cup Agents!Ids
  /\ \A c \in Calls :
       /\ run[c].at = "update" =>
            run[c].agentId = profile.agentId /\ profile.agentId # 0
       /\ run[c].at = "create" =>
            /\ profile.agentId \in {0} \cup gone
            /\ run[c].landed => run[c].agentId \in Agents!Ids
       /\ run[c].at = "none" => ~run[c].landed
       /\ stage[c] = "dial" => agent[c] \in Agents!Ids

LivingAgents ==
  \A a \in Agents!Ids \ (gone \cup orphans) :
    \/ profile.agentId = a
    \/ \E c \in Calls : a \in Agents!Unrecorded(c)

AgentsInv == Agents!TypeOK /\ WhoAwaits /\ RunsKnowTheirAgent /\ LivingAgents

-----------------------------------------------------------------------------
(* TypeOK in two parts, which the provers take one at a time.              *)
CallsType ==
  /\ config \in Agents!Briefs /\ agentsLife \in 1..MaxLives
  /\ provisioning \in Calls \cup {NoCall}
  /\ run \in [Calls -> [at : {"none", "update", "create"},
                        agentId : 0..MaxAgents, landed : BOOLEAN]]
  /\ stage \in [Calls -> {"idle", "ensure", "dial", "placed", "failed"}]
  /\ brief \in [Calls -> 0..MaxBrief]
  /\ awaits \in [Calls -> Calls \cup {NoCall}]
  /\ agent \in [Calls -> 0..MaxAgents]
  /\ spoken \in [Calls -> 0..MaxBrief]
PlatformType ==
  /\ profile \in [agentId : 0..MaxAgents, brief : 0..MaxBrief]
  /\ \E n \in 0..MaxAgents : made \in [1..n -> Agents!Briefs]
  /\ gone \subseteq Agents!Ids /\ orphans \subseteq Agents!Ids

LEMMA AgentTypeParts ==
  /\ Agents!TypeOK <=> CallsType /\ PlatformType
  /\ Agents!TypeOK' <=> CallsType' /\ PlatformType'
  <1>1. Agents!TypeOK <=> CallsType /\ PlatformType
    BY Zenon DEF Agents!TypeOK, CallsType, PlatformType
  <1>2. Agents!TypeOK' <=> CallsType' /\ PlatformType'
    BY Zenon DEF Agents!TypeOK, CallsType, PlatformType
  <1> QED BY <1>1, <1>2

LEMMA AgentsInit ==
  ASSUME Agents!Init
  PROVE  AgentsInv
  <1>1. CallsType
    BY ServeAssumption DEF Agents!Init, CallsType, Agents!NoRun, Agents!Briefs
  <1>2. PlatformType
    <2>1. made \in [1..0 -> Agents!Briefs] /\ 0 \in 0..MaxAgents
      BY ServeAssumption DEF Agents!Init
    <2>2. \E n \in 0..MaxAgents : made \in [1..n -> Agents!Briefs]
      BY <2>1
    <2>3. profile \in [agentId : 0..MaxAgents, brief : 0..MaxBrief]
      BY ServeAssumption DEF Agents!Init, Agents!NoRow
    <2> QED BY <2>2, <2>3 DEF Agents!Init, PlatformType
  <1>3. WhoAwaits /\ RunsKnowTheirAgent /\ LivingAgents
    BY ServeAssumption DEF Agents!Init, WhoAwaits, RunsKnowTheirAgent, LivingAgents,
       Agents!NoRun, Agents!NoRow, Agents!Ids
  <1> QED BY <1>1, <1>2, <1>3, AgentTypeParts DEF AgentsInv

LEMMA EnsureStep ==
  ASSUME AgentsInv, NEW c \in Calls, Agents!EnsureAgent(c)
  PROVE  AgentsInv'
  <1> USE ServeAssumption DEF Agents!Briefs
  <1>1. CallsType /\ PlatformType
    BY AgentTypeParts DEF AgentsInv
  <1>2. /\ stage[c] = "idle" /\ awaits[c] = NoCall
        /\ config' = config /\ profile' = profile /\ made' = made /\ gone' = gone
        /\ orphans' = orphans /\ spoken' = spoken /\ agentsLife' = agentsLife
    BY DEF Agents!EnsureAgent, Agents!platform, AgentsInv, WhoAwaits
  <1>3. PlatformType'
    BY <1>1, <1>2 DEF PlatformType, Agents!Ids
  <1>4. CASE Agents!Join(c)
    <2>1. CallsType'
      BY <1>1, <1>2, <1>4 DEF CallsType, Agents!Join, Agents!EnsureAgent
    <2>2. WhoAwaits'
      BY <1>1, <1>2, <1>4 DEF CallsType, Agents!Join, Agents!EnsureAgent, AgentsInv,
         WhoAwaits
    <2>3. RunsKnowTheirAgent' /\ LivingAgents'
      BY <1>2, <1>4 DEF Agents!Join, AgentsInv, RunsKnowTheirAgent, LivingAgents,
         Agents!Ids, Agents!Unrecorded
    <2> QED BY <1>3, <2>1, <2>2, <2>3, AgentTypeParts DEF AgentsInv
  <1>5. CASE provisioning = NoCall /\ Agents!Reuse(c, config)
    <2>1. CallsType'
      BY <1>1, <1>2, <1>5 DEF CallsType, PlatformType, Agents!Reuse, Agents!EnsureAgent
    <2>2. WhoAwaits'
      BY <1>1, <1>2, <1>5 DEF CallsType, Agents!Reuse, Agents!EnsureAgent, AgentsInv,
         WhoAwaits
    <2>3. RunsKnowTheirAgent' /\ LivingAgents'
      BY <1>1, <1>2, <1>5 DEF CallsType, Agents!Plan, Agents!Reuse, AgentsInv,
         RunsKnowTheirAgent, LivingAgents, Agents!Ids, Agents!Unrecorded
    <2> QED BY <1>3, <2>1, <2>2, <2>3, AgentTypeParts DEF AgentsInv
  <1>6. CASE provisioning = NoCall /\ Agents!Request(c, config)
    <2>1. \A d \in Calls : run[d].at = "none" /\ awaits[d] = NoCall
      BY <1>1, <1>6 DEF AgentsInv, WhoAwaits, CallsType
    <2>2. /\ run'[c] = [at |-> Agents!Plan(config), agentId |-> profile.agentId, landed |-> FALSE]
          /\ \A d \in Calls \ {c} : run'[d] = run[d]
          /\ Agents!Plan(config) \in {"create", "update"}
          /\ Agents!Plan(config) = "create" <=> profile.agentId = 0
      BY <1>1, <1>6 DEF Agents!Request, Agents!Plan, CallsType
    <2>3. CallsType'
      BY <1>1, <1>2, <1>6, <2>2 DEF CallsType, PlatformType, Agents!Request,
         Agents!EnsureAgent
    <2>4. WhoAwaits'
      BY <1>1, <1>2, <1>6, <2>1, <2>2 DEF CallsType, Agents!Request,
         Agents!EnsureAgent, AgentsInv, WhoAwaits
    <2>5. RunsKnowTheirAgent'
      <3>1. \A d \in Calls : stage'[d] = "dial" => stage[d] = "dial" /\ agent'[d] = agent[d]
        BY <1>1, <1>6 DEF Agents!Request, CallsType
      <3> QED BY <1>2, <2>2, <3>1 DEF AgentsInv, RunsKnowTheirAgent, Agents!Ids
    <2>6. LivingAgents'
      BY <1>2, <2>1, <2>2 DEF AgentsInv, LivingAgents, Agents!Ids, Agents!Unrecorded
    <2> QED BY <1>3, <2>3, <2>4, <2>5, <2>6, AgentTypeParts DEF AgentsInv
  <1> QED BY <1>4, <1>5, <1>6 DEF Agents!EnsureAgent, Agents!Provision

(* What an end of the run of c leaves: nobody runs, nobody waits.          *)
LEMMA SettleLeavesNoRun ==
  ASSUME CallsType, WhoAwaits, NEW c \in Calls, run[c].at # "none",
         NEW to \in {"dial", "failed"}, NEW id \in 0..MaxAgents, Agents!Settle(c, to, id), brief' = brief
  PROVE  /\ provisioning = c /\ provisioning' = NoCall
         /\ run' \in [Calls -> [at : {"none", "update", "create"},
                                agentId : 0..MaxAgents, landed : BOOLEAN]]
         /\ stage' \in [Calls -> {"idle", "ensure", "dial", "placed", "failed"}]
         /\ awaits' \in [Calls -> Calls \cup {NoCall}]
         /\ agent' \in [Calls -> 0..MaxAgents]
         /\ \A d \in Calls : run'[d].at = "none" /\ awaits'[d] = NoCall /\ (d # c => run'[d] = run[d])
         /\ run'[c] = Agents!NoRun
         /\ \A d \in Calls : stage'[d] = IF stage[d] = "ensure" THEN to ELSE stage[d]
         /\ \A d \in Calls : agent'[d] = IF stage[d] = "ensure" THEN id ELSE agent[d]
         /\ WhoAwaits'
  <1> USE ServeAssumption
  <1>1. provisioning = c /\ \A d \in Calls : awaits[d] = c <=> stage[d] = "ensure"
    BY DEF WhoAwaits, CallsType
  <1>2. provisioning' = NoCall
    BY <1>1 DEF Agents!Settle
  <1>3. /\ run' = [run EXCEPT ![c] = Agents!NoRun]
        /\ run' \in [Calls -> [at : {"none", "update", "create"},
                                agentId : 0..MaxAgents, landed : BOOLEAN]]
    BY DEF Agents!Settle, CallsType, Agents!NoRun
  <1>4. /\ stage' \in [Calls -> {"idle", "ensure", "dial", "placed", "failed"}]
        /\ awaits' \in [Calls -> Calls \cup {NoCall}]
        /\ agent' \in [Calls -> 0..MaxAgents]
    BY DEF Agents!Settle, CallsType
  <1>5. \A d \in Calls : run'[d].at = "none" /\ awaits'[d] = NoCall /\ (d # c => run'[d] = run[d])
    BY <1>1, <1>3 DEF Agents!Settle, CallsType, WhoAwaits, Agents!NoRun
  <1>6. run'[c] = Agents!NoRun
    BY <1>3 DEF CallsType
  <1>7. /\ \A d \in Calls : stage'[d] = IF stage[d] = "ensure" THEN to ELSE stage[d]
        /\ \A d \in Calls : agent'[d] = IF stage[d] = "ensure" THEN id ELSE agent[d]
    BY <1>1 DEF Agents!Settle
  <1>8. WhoAwaits'
    BY <1>2, <1>5, <1>7 DEF WhoAwaits
  <1> QED BY <1>1, <1>2, <1>3, <1>4, <1>5, <1>6, <1>7, <1>8

LEMMA AnswerStep ==
  ASSUME AgentsInv, NEW c \in Calls, Agents!UpdateAnswers(c) \/ Agents!CreateAnswers(c)
  PROVE  AgentsInv'
  <1> USE ServeAssumption DEF Agents!Briefs
  <1>1. CallsType /\ PlatformType /\ WhoAwaits
    BY AgentTypeParts DEF AgentsInv
  <1> DEFINE id == run[c].agentId
  <1>2. /\ run[c].at \in {"update", "create"} /\ run[c].landed
        /\ profile' = [agentId |-> id, brief |-> brief[c]] /\ Agents!Settle(c, "dial", id)
        /\ config' = config /\ agentsLife' = agentsLife /\ brief' = brief /\ made' = made
        /\ gone' = gone /\ orphans' = orphans /\ spoken' = spoken
    BY DEF Agents!UpdateAnswers, Agents!CreateAnswers, Agents!Resolve, Agents!platform
  <1>3. id \in 0..MaxAgents /\ brief[c] \in 0..MaxBrief
    BY <1>1 DEF CallsType
  <1>4. /\ provisioning = c /\ CallsType' /\ WhoAwaits'
        /\ \A d \in Calls : run'[d].at = "none" /\ (d # c => run'[d] = run[d])
        /\ run'[c] = Agents!NoRun
    BY <1>1, <1>2, <1>3, SettleLeavesNoRun DEF CallsType
  <1>5. PlatformType'
    BY <1>1, <1>2, <1>3 DEF PlatformType, Agents!Ids
  <1>6. id \in Agents!Ids /\ profile.agentId \in {0, id} \cup gone
    BY <1>1, <1>2 DEF AgentsInv, RunsKnowTheirAgent, CallsType
  <1>7. RunsKnowTheirAgent'
    <2>1. \A d \in Calls : stage'[d] = "dial" =>
            (stage[d] = "dial" /\ agent'[d] = agent[d]) \/ agent'[d] = id
      BY <1>1, <1>2, <1>3, SettleLeavesNoRun
    <2> QED BY <1>2, <1>4, <1>6, <2>1 DEF AgentsInv, RunsKnowTheirAgent, Agents!Ids,
               Agents!NoRun
  <1>8. \A d \in Calls \ {c} : Agents!Unrecorded(d) = {}
    BY <1>1, <1>4 DEF WhoAwaits, Agents!Unrecorded
  <1>9. LivingAgents'
    <2> SUFFICES ASSUME NEW a \in Agents!Ids, a \notin gone \cup orphans
                 PROVE  profile'.agentId = a
      BY <1>2 DEF LivingAgents, Agents!Ids
    <2>1. profile.agentId = a \/ a \in Agents!Unrecorded(c)
      BY <1>8 DEF AgentsInv, LivingAgents
    <2>2. a # 0
      BY <1>1 DEF PlatformType, Agents!Ids
    <2> QED BY <1>2, <1>6, <2>1, <2>2 DEF Agents!Unrecorded
  <1> QED BY <1>4, <1>5, <1>7, <1>9, AgentTypeParts DEF AgentsInv

LEMMA FailureStep ==
  ASSUME AgentsInv, NEW c \in Calls, Agents!RequestFails(c)
  PROVE  AgentsInv'
  <1> USE ServeAssumption DEF Agents!Briefs
  <1>1. CallsType /\ PlatformType /\ WhoAwaits
    BY AgentTypeParts DEF AgentsInv
  <1>2. /\ run[c].at # "none" /\ Agents!Settle(c, "failed", 0)
        /\ orphans' = orphans \cup Agents!Unrecorded(c)
        /\ profile' = profile /\ config' = config /\ agentsLife' = agentsLife
        /\ brief' = brief
        /\ made' = made /\ gone' = gone /\ spoken' = spoken
    BY DEF Agents!RequestFails
  <1>3. /\ CallsType' /\ WhoAwaits' /\ provisioning = c
        /\ \A d \in Calls : run'[d].at = "none" /\ (d # c => run'[d] = run[d])
        /\ run'[c] = Agents!NoRun
    BY <1>1, <1>2, SettleLeavesNoRun DEF CallsType
  <1>4. Agents!Unrecorded(c) \subseteq Agents!Ids
    BY DEF AgentsInv, RunsKnowTheirAgent, Agents!Unrecorded
  <1>5. PlatformType'
    BY <1>1, <1>2, <1>4 DEF PlatformType, Agents!Ids
  <1>6. RunsKnowTheirAgent'
    <2>1. \A d \in Calls : stage'[d] = "dial" => stage[d] = "dial" /\ agent'[d] = agent[d]
      BY <1>1, <1>2, SettleLeavesNoRun
    <2> QED BY <1>2, <1>3, <2>1 DEF AgentsInv, RunsKnowTheirAgent, Agents!Ids,
               Agents!NoRun
  <1>7. \A d \in Calls \ {c} : Agents!Unrecorded(d) = {}
    BY <1>1, <1>3 DEF WhoAwaits, Agents!Unrecorded
  <1>8. LivingAgents'
    BY <1>2, <1>7 DEF AgentsInv, LivingAgents, Agents!Ids
  <1> QED BY <1>3, <1>5, <1>6, <1>8, AgentTypeParts DEF AgentsInv

LEMMA LandingStep ==
  ASSUME AgentsInv, NEW c \in Calls, Agents!UpdateLands(c) \/ Agents!UpdateFinds404(c)
  PROVE  AgentsInv'
  <1> USE ServeAssumption DEF Agents!Briefs
  <1>1. CallsType /\ PlatformType /\ WhoAwaits
    BY AgentTypeParts DEF AgentsInv
  <1>2. /\ run[c].at = "update" /\ ~run[c].landed
        /\ config' = config /\ agentsLife' = agentsLife /\ profile' = profile
        /\ brief' = brief
        /\ provisioning' = provisioning /\ stage' = stage /\ awaits' = awaits
        /\ agent' = agent /\ gone' = gone /\ orphans' = orphans /\ spoken' = spoken
    BY DEF Agents!UpdateLands, Agents!UpdateFinds404, Agents!platform
  <1>3. run[c].agentId = profile.agentId /\ profile.agentId \in Agents!Ids /\ provisioning = c
    BY <1>1, <1>2 DEF AgentsInv, RunsKnowTheirAgent, WhoAwaits
  <1>4. \A d \in Calls \ {c} : run[d].at = "none" /\ ~run[d].landed
    BY <1>1, <1>3 DEF AgentsInv, WhoAwaits, RunsKnowTheirAgent
  <1>5. CASE Agents!UpdateLands(c)
    <2>1. /\ run' = [run EXCEPT ![c].landed = TRUE]
          /\ made' = [made EXCEPT ![profile.agentId] = brief[c]]
      BY <1>3, <1>5 DEF Agents!UpdateLands
    <2>2. /\ \A d \in Calls : run'[d].at = run[d].at /\ run'[d].agentId = run[d].agentId
          /\ \A d \in Calls \ {c} : run'[d] = run[d]
      BY <1>1, <2>1 DEF CallsType
    <2>3. CallsType'
      <3>1. run' \in [Calls -> [at : {"none", "update", "create"},
                                agentId : 0..MaxAgents, landed : BOOLEAN]]
        BY <1>1, <2>1 DEF CallsType
      <3> QED BY <1>1, <1>2, <3>1 DEF CallsType
    <2>4. Agents!Ids' = Agents!Ids
      BY <1>1, <2>1 DEF PlatformType, Agents!Ids
    <2>5. PlatformType'
      <3>1. PICK n \in 0..MaxAgents : made \in [1..n -> Agents!Briefs]
        BY <1>1 DEF PlatformType
      <3>2. brief[c] \in Agents!Briefs
        BY <1>1, <1>3 DEF WhoAwaits
      <3>3. made' \in [1..n -> Agents!Briefs]
        BY <2>1, <3>1, <3>2
      <3> QED BY <1>1, <1>2, <2>4, <3>3 DEF PlatformType
    <2>6. WhoAwaits' /\ RunsKnowTheirAgent'
      BY <1>1, <1>2, <2>2, <2>4 DEF AgentsInv, WhoAwaits, RunsKnowTheirAgent
    <2>7. LivingAgents'
      BY <1>2, <2>2, <2>4 DEF AgentsInv, LivingAgents, Agents!Unrecorded
    <2> QED BY <2>3, <2>5, <2>6, <2>7, AgentTypeParts DEF AgentsInv
  <1>6. CASE Agents!UpdateFinds404(c)
    <2>1. /\ run'[c] = [at |-> "create", agentId |-> 0, landed |-> FALSE]
          /\ \A d \in Calls \ {c} : run'[d] = run[d]
          /\ made' = made /\ Agents!Ids' = Agents!Ids /\ profile.agentId \in gone
      BY <1>1, <1>3, <1>6 DEF Agents!UpdateFinds404, CallsType, Agents!platform,
         Agents!Ids
    <2>2. CallsType'
      BY <1>1, <1>2, <1>6 DEF Agents!UpdateFinds404, CallsType
    <2>3. PlatformType'
      BY <1>1, <1>2, <2>1 DEF PlatformType
    <2>4. WhoAwaits' /\ RunsKnowTheirAgent'
      BY <1>1, <1>2, <2>1 DEF AgentsInv, WhoAwaits, RunsKnowTheirAgent
    <2>5. LivingAgents'
      BY <1>2, <2>1 DEF AgentsInv, LivingAgents, Agents!Unrecorded
    <2> QED BY <2>2, <2>3, <2>4, <2>5, AgentTypeParts DEF AgentsInv
  <1> QED BY <1>5, <1>6

(* The instance counts as the library does. *)
LEMMA SameCount ==
  ASSUME NEW S
  PROVE  Agents!Cardinality(S) = Cardinality(S)
  BY Zenon DEF Agents!Cardinality, Cardinality

LEMMA CreationStep ==
  ASSUME AgentsInv, NEW c \in Calls, Agents!CreateLands(c)
  PROVE  /\ AgentsInv'
         /\ \E n \in Nat : /\ made \in [1..n -> Agents!Briefs]
                           /\ made' = [i \in 1..(n + 1) |->
                                         IF i = n + 1 THEN brief[c] ELSE made[i]]
                           /\ run'[c].agentId = n + 1
         /\ run'[c].landed /\ run'[c].at = "create"
         /\ \A d \in Calls \ {c} : run'[d] = run[d]
  <1> USE ServeAssumption
  <1>1. CallsType /\ PlatformType /\ WhoAwaits
    BY AgentTypeParts DEF AgentsInv
  <1>2. PICK n \in 0..MaxAgents : made \in [1..n -> Agents!Briefs]
    BY <1>1 DEF PlatformType
  <1>3. Agents!Ids = 1..n /\ Cardinality(Agents!Ids) = n
    <2>1. Cardinality(1..n) = IF 1 > n THEN 0 ELSE n - 1 + 1
      BY <1>2, FS_Interval
    <2> QED BY <1>2, <2>1 DEF Agents!Ids
  <1> DEFINE id == n + 1
  <1>4. /\ run[c].at = "create" /\ ~run[c].landed /\ id \in 1..MaxAgents
        /\ made' = [i \in 1..id |-> IF i = id THEN brief[c] ELSE made[i]]
        /\ run' = [run EXCEPT ![c].landed = TRUE, ![c].agentId = id]
        /\ config' = config /\ agentsLife' = agentsLife /\ profile' = profile
        /\ brief' = brief
        /\ provisioning' = provisioning /\ stage' = stage /\ awaits' = awaits
        /\ agent' = agent /\ gone' = gone /\ orphans' = orphans /\ spoken' = spoken
    <2>1. Agents!Cardinality(Agents!Ids) + 1 = id /\ id \in Nat \ {0}
      BY <1>3, SameCount
    <2>2. /\ run[c].at = "create" /\ ~run[c].landed /\ id <= MaxAgents
          /\ run' = [run EXCEPT ![c].landed = TRUE, ![c].agentId = id]
      BY <2>1 DEF Agents!CreateLands
    <2>3. made' = [i \in 1..id |-> IF i = id THEN brief[c] ELSE made[i]]
      BY <2>1, Zenon DEF Agents!CreateLands
    <2>4. /\ config' = config /\ agentsLife' = agentsLife /\ profile' = profile
          /\ brief' = brief
          /\ provisioning' = provisioning /\ stage' = stage /\ awaits' = awaits
          /\ agent' = agent /\ gone' = gone /\ orphans' = orphans /\ spoken' = spoken
      BY DEF Agents!CreateLands
    <2>5. id \in 1..MaxAgents
      BY <2>1, <2>2
    <2> HIDE DEF id
    <2> QED BY <2>2, <2>3, <2>4, <2>5
  <1>5. /\ run'[c].at = "create" /\ run'[c].agentId = id /\ run'[c].landed
        /\ \A d \in Calls \ {c} : run'[d] = run[d]
    BY <1>1, <1>4 DEF CallsType
  <1>6. CallsType'
    <2>1. run' \in [Calls -> [at : {"none", "update", "create"},
                              agentId : 0..MaxAgents, landed : BOOLEAN]]
      <3>1. run[c] \in [at : {"none", "update", "create"},
                        agentId : 0..MaxAgents, landed : BOOLEAN]
        BY <1>1 DEF CallsType
      <3>2. id \in 0..MaxAgents
        BY <1>4
      <3>3. [[run[c] EXCEPT !.landed = TRUE] EXCEPT !.agentId = id]
              \in [at : {"none", "update", "create"},
                   agentId : 0..MaxAgents, landed : BOOLEAN]
        BY <3>1, <3>2
      <3> QED BY <1>1, <1>4, <3>3 DEF CallsType
    <2> QED BY <1>1, <1>4, <2>1 DEF CallsType
  <1>7. Agents!Ids' = Agents!Ids \cup {id} /\ id \notin Agents!Ids
    BY <1>2, <1>3, <1>4 DEF Agents!Ids
  <1>8. PlatformType'
    <2>1. brief[c] \in Agents!Briefs
      BY <1>1, <1>4 DEF WhoAwaits
    <2>2. made' \in [1..id -> Agents!Briefs]
      BY <1>2, <1>4, <2>1
    <2>3. \E m \in 0..MaxAgents : made' \in [1..m -> Agents!Briefs]
      BY <1>4, <2>2
    <2>4. gone' \subseteq Agents!Ids' /\ orphans' \subseteq Agents!Ids'
      BY <1>1, <1>4, <1>7 DEF PlatformType
    <2> QED BY <1>1, <1>4, <2>3, <2>4 DEF PlatformType, Agents!Briefs
  <1>9. WhoAwaits'
    BY <1>1, <1>4, <1>5 DEF WhoAwaits, Agents!Briefs
  <1>10. RunsKnowTheirAgent'
    <2>1. profile'.agentId \in {0} \cup Agents!Ids'
      BY <1>4, <1>7 DEF AgentsInv, RunsKnowTheirAgent
    <2>2. /\ run'[c].at = "create" /\ run'[c].agentId \in Agents!Ids'
          /\ profile'.agentId \in {0} \cup gone'
      BY <1>4, <1>5, <1>7 DEF AgentsInv, RunsKnowTheirAgent
    <2>3. \A d \in Calls : stage'[d] = "dial" => agent'[d] \in Agents!Ids'
      BY <1>4, <1>7 DEF AgentsInv, RunsKnowTheirAgent
    <2>4. \A d \in Calls \ {c} : run'[d].at = "none" /\ ~run'[d].landed
      <3>1. \A d \in Calls \ {c} : run[d].at = "none"
        BY <1>4 DEF AgentsInv, WhoAwaits
      <3> QED BY <1>5, <3>1 DEF AgentsInv, RunsKnowTheirAgent
    <2> QED BY <2>1, <2>2, <2>3, <2>4 DEF RunsKnowTheirAgent
  <1>11. LivingAgents'
    <2> SUFFICES ASSUME NEW a \in Agents!Ids', a \notin gone \cup orphans
                 PROVE  profile.agentId = a \/ \E d \in Calls : a \in Agents!Unrecorded(d)'
      BY <1>4 DEF LivingAgents
    <2>1. CASE a = id
      BY <1>5, <2>1 DEF Agents!Unrecorded
    <2>2. CASE a # id
      <3>1. profile.agentId = a \/ \E d \in Calls : a \in Agents!Unrecorded(d)
        BY <1>7, <2>2 DEF AgentsInv, LivingAgents
      <3>2. Agents!Unrecorded(c) = {}
        BY <1>4 DEF Agents!Unrecorded
      <3> QED BY <1>5, <3>1, <3>2 DEF Agents!Unrecorded
    <2> QED BY <2>1, <2>2
  <1>12. AgentsInv'
    BY <1>6, <1>8, <1>9, <1>10, <1>11, AgentTypeParts DEF AgentsInv
  <1>13. n \in Nat /\ run'[c].agentId = n + 1
    BY <1>5
  <1> QED BY <1>2, <1>4, <1>5, <1>12, <1>13

LEMMA PlaceStep ==
  ASSUME AgentsInv, NEW c \in Calls, Agents!Place(c)
  PROVE  AgentsInv'
  <1>1. CallsType /\ PlatformType /\ WhoAwaits
    BY AgentTypeParts DEF AgentsInv
  <1>2. /\ stage[c] = "dial" /\ config' = config /\ agentsLife' = agentsLife
        /\ profile' = profile
        /\ provisioning' = provisioning /\ run' = run /\ brief' = brief
        /\ awaits' = awaits /\ agent' = agent /\ made' = made /\ gone' = gone
        /\ orphans' = orphans
    BY DEF Agents!Place
  <1>3. PICK to \in {"placed", "failed"} : stage' = [stage EXCEPT ![c] = to]
    BY DEF Agents!Place
  <1>4. spoken' \in [Calls -> 0..MaxBrief]
    <2>1. PICK n \in 0..MaxAgents : made \in [1..n -> Agents!Briefs]
      BY <1>1 DEF PlatformType
    <2>2. made[agent[c]] \in Agents!Briefs
      BY <1>2, <2>1 DEF AgentsInv, RunsKnowTheirAgent, Agents!Ids
    <2> QED BY <1>1, <2>2 DEF Agents!Place, CallsType, Agents!Briefs
  <1>5. CallsType' /\ PlatformType'
    <2>1. stage' \in [Calls -> {"idle", "ensure", "dial", "placed", "failed"}]
      BY <1>1, <1>3 DEF CallsType
    <2> QED BY <1>1, <1>2, <1>4, <2>1 DEF CallsType, PlatformType, Agents!Ids,
               Agents!Briefs
  <1>6. \A d \in Calls : d # c => stage'[d] = stage[d]
    BY <1>1, <1>3 DEF CallsType
  <1>7. stage'[c] \in {"placed", "failed"}
    BY <1>1, <1>3 DEF CallsType
  <1>8. WhoAwaits' /\ RunsKnowTheirAgent' /\ LivingAgents'
    BY <1>2, <1>6, <1>7 DEF AgentsInv, WhoAwaits, RunsKnowTheirAgent, LivingAgents,
       Agents!Ids, Agents!Unrecorded, Agents!Briefs
  <1> QED BY <1>5, <1>8, AgentTypeParts DEF AgentsInv

LEMMA AgentsRestart ==
  ASSUME AgentsInv, Agents!Restart
  PROVE  AgentsInv'
  <1> USE ServeAssumption
  <1>1. CallsType /\ PlatformType /\ WhoAwaits
    BY AgentTypeParts DEF AgentsInv
  <1>2. /\ \A c \in Calls : run'[c] = Agents!NoRun /\ awaits'[c] = NoCall
        /\ \A c \in Calls : stage'[c] = IF stage[c] \in {"ensure", "dial"} THEN "failed"
                                        ELSE stage[c]
        /\ orphans' = orphans \cup UNION {Agents!Unrecorded(c) : c \in Calls}
        /\ profile' = profile /\ made' = made /\ gone' = gone /\ brief' = brief
        /\ provisioning' = NoCall
    BY DEF Agents!Restart
  <1>3. CallsType'
    BY <1>1 DEF Agents!Restart, CallsType, Agents!NoRun, Agents!Edits
  <1>4. \A c \in Calls : Agents!Unrecorded(c) \subseteq Agents!Ids
    BY DEF AgentsInv, RunsKnowTheirAgent, Agents!Unrecorded
  <1>5. PlatformType'
    BY <1>1, <1>2, <1>4 DEF PlatformType, Agents!Ids, Agents!Briefs
  <1>6. WhoAwaits' /\ RunsKnowTheirAgent'
    BY <1>1, <1>2 DEF AgentsInv, WhoAwaits, RunsKnowTheirAgent, Agents!NoRun,
       Agents!Ids, Agents!Briefs
  <1>7. LivingAgents'
    BY <1>2 DEF AgentsInv, LivingAgents, Agents!Ids
  <1> QED BY <1>3, <1>5, <1>6, <1>7, AgentTypeParts DEF AgentsInv

LEMMA OutsideStep ==
  ASSUME AgentsInv, Agents!EditPersona \/ Agents!DeleteAgent \/ UNCHANGED Agents!vars
  PROVE  AgentsInv'
  <1>1. CallsType /\ PlatformType
    BY AgentTypeParts DEF AgentsInv
  <1>2. /\ agentsLife' = agentsLife /\ profile' = profile /\ provisioning' = provisioning
        /\ run' = run /\ stage' = stage /\ brief' = brief /\ awaits' = awaits
        /\ agent' = agent /\ made' = made /\ orphans' = orphans
        /\ spoken' = spoken /\ config' \in Agents!Briefs
        /\ gone \subseteq gone' /\ gone' \subseteq Agents!Ids
    BY <1>1 DEF Agents!EditPersona, Agents!Edits, Agents!DeleteAgent, Agents!vars,
       Agents!serve, Agents!platform, CallsType, PlatformType
  <1>3. CallsType' /\ PlatformType'
    BY <1>1, <1>2 DEF CallsType, PlatformType, Agents!Ids, Agents!Briefs
  <1>4. WhoAwaits' /\ RunsKnowTheirAgent' /\ LivingAgents'
    BY <1>2 DEF AgentsInv, WhoAwaits, RunsKnowTheirAgent, LivingAgents, Agents!Ids,
       Agents!Unrecorded, Agents!Briefs
  <1> QED BY <1>3, <1>4, AgentTypeParts DEF AgentsInv

LEMMA AgentsStep ==
  ASSUME AgentsInv, [Agents!Next]_(Agents!vars)
  PROVE  AgentsInv'
  BY EnsureStep, AnswerStep, FailureStep, LandingStep, CreationStep, PlaceStep,
     AgentsRestart, OutsideStep DEF Agents!Next

LEMMA AgentsInvariant == Agents!Spec => []AgentsInv
  BY AgentsInit, AgentsStep, PTL DEF Agents!Spec

LEMMA OneAgentHolds ==
  ASSUME AgentsInv
  PROVE  Agents!OneAgent
  <1>1. \A a \in Agents!Ids \ (gone \cup orphans) :
          profile.agentId = a \/ \E c \in Calls : a \in Agents!Unrecorded(c)
    BY DEF AgentsInv, LivingAgents
  <1>2. \A c, d \in Calls : run[c].at = "create" /\ run[d].at = "create" => c = d
    BY DEF AgentsInv, WhoAwaits
  <1>3. \A c \in Calls : stage[c] = "ensure" =>
          awaits[c] # NoCall /\ run[awaits[c]].at # "none"
    BY DEF AgentsInv, Agents!TypeOK, WhoAwaits
  <1> QED BY <1>1, <1>2, <1>3 DEF Agents!OneAgent

(* Two calls racing on a profile make one agent, whatever the platform     *)
(* refuses, loses or deletes and whenever `serve` dies: an agent that      *)
(* lives is the row's, about to be, or its id was lost with an answer; who *)
(* waits for a run waits for the one under way (ensureAgent).              *)
THEOREM OneAgentPerProfile == Agents!Spec => []OneAgent
  BY AgentsInvariant, OneAgentHolds, PTL DEF OneAgent

-----------------------------------------------------------------------------
(* No edit under a run, and none back to an earlier brief.                 *)
Steady == "hasty" \notin AgentFaults /\ "revert" \notin AgentFaults

(* The platform is never behind the row, nor before the configuration.     *)
MadeInTime ==
  /\ \A a \in Agents!Ids : made[a] <= config
  /\ profile.agentId # 0 => profile.brief <= made[profile.agentId]

BriefsOfCalls ==
  \A c \in Calls :
    /\ stage[c] \in {"ensure", "dial"} => brief[c] = config
    /\ run[c].landed => made[run[c].agentId] = brief[c]
    /\ stage[c] = "dial" => made[agent[c]] = config
    /\ spoken[c] # 0 => stage[c] = "placed" /\ spoken[c] = brief[c]

BriefsInv == MadeInTime /\ BriefsOfCalls

LEMMA BriefsInit ==
  ASSUME Agents!Init
  PROVE  BriefsInv
  BY DEF Agents!Init, BriefsInv, MadeInTime, BriefsOfCalls, Agents!Ids, Agents!NoRow,
     Agents!NoRun

(* What the types and the first invariant give every step below.           *)
LEMMA BriefsNeed ==
  ASSUME AgentsInv
  PROVE  /\ CallsType /\ PlatformType /\ WhoAwaits /\ RunsKnowTheirAgent
         /\ config \in Int /\ \A a \in Agents!Ids : made[a] \in Int
         /\ \A c \in Calls : brief[c] \in Int
         /\ profile.brief \in Int
  <1>1. CallsType /\ PlatformType
    BY AgentTypeParts DEF AgentsInv
  <1>2. \A a \in Agents!Ids : made[a] \in Int
    <2>1. PICK n \in 0..MaxAgents : made \in [1..n -> Agents!Briefs]
      BY <1>1 DEF PlatformType
    <2> QED BY <2>1, ServeAssumption DEF Agents!Ids, Agents!Briefs
  <1>3. config \in Int /\ \A c \in Calls : brief[c] \in Int
    BY <1>1, ServeAssumption DEF CallsType, Agents!Briefs
  <1>4. profile.brief \in Int
    BY <1>1, ServeAssumption DEF PlatformType
  <1> QED BY <1>1, <1>2, <1>3, <1>4 DEF AgentsInv

LEMMA BriefsEnsure ==
  ASSUME AgentsInv, BriefsInv, NEW c \in Calls, Agents!EnsureAgent(c)
  PROVE  BriefsInv'
  <1>1. /\ stage[c] = "idle" /\ brief' = [brief EXCEPT ![c] = config]
        /\ config' = config /\ profile' = profile /\ made' = made
        /\ spoken' = spoken
    BY DEF Agents!EnsureAgent, Agents!platform
  <1>2. /\ provisioning # c /\ run[c].at = "none" /\ ~run[c].landed
        /\ spoken[c] = 0 /\ brief'[c] = config
        /\ \A d \in Calls \ {c} : brief'[d] = brief[d]
    <2>1. provisioning # c
      BY <1>1, ServeAssumption DEF AgentsInv, WhoAwaits
    <2> QED BY <1>1, <2>1, BriefsNeed
            DEF WhoAwaits, RunsKnowTheirAgent, CallsType, BriefsInv, BriefsOfCalls
  <1>3. MadeInTime'
    BY <1>1 DEF BriefsInv, MadeInTime, Agents!Ids
  <1>4. /\ \A d \in Calls \ {c} : run'[d] = run[d] /\ stage'[d] = stage[d] /\ agent'[d] = agent[d]
        /\ stage'[c] \in {"ensure", "dial"} /\ ~run'[c].landed
    BY <1>2, BriefsNeed DEF Agents!EnsureAgent, Agents!Join, Agents!Provision,
       Agents!Reuse, Agents!Request, CallsType
  <1>5. stage'[c] = "dial" => made[agent'[c]] = config
    <2> SUFFICES ASSUME stage'[c] = "dial" PROVE made[agent'[c]] = config
      OBVIOUS
    <2>1. Agents!Reuse(c, config)
      BY BriefsNeed DEF Agents!EnsureAgent, Agents!Join, Agents!Provision,
         Agents!Request, CallsType
    <2>2. profile.agentId # 0 /\ profile.brief = config /\ agent'[c] = profile.agentId
      BY <2>1, BriefsNeed DEF Agents!Reuse, Agents!Plan, CallsType
    <2>3. profile.agentId \in Agents!Ids
      BY <2>2, BriefsNeed DEF RunsKnowTheirAgent
    <2> QED BY <2>2, <2>3, BriefsNeed DEF BriefsInv, MadeInTime
  <1>6. BriefsOfCalls'
    BY <1>1, <1>2, <1>4, <1>5 DEF BriefsInv, BriefsOfCalls
  <1> QED BY <1>3, <1>6 DEF BriefsInv

LEMMA BriefsSettle ==
  ASSUME AgentsInv, BriefsInv, NEW c \in Calls,
         Agents!UpdateAnswers(c) \/ Agents!CreateAnswers(c) \/ Agents!RequestFails(c)
  PROVE  BriefsInv'
  <1>1. CallsType /\ PlatformType /\ WhoAwaits /\ RunsKnowTheirAgent
    BY BriefsNeed
  <1>2. /\ run[c].at # "none" /\ config' = config /\ brief' = brief
        /\ made' = made /\ spoken' = spoken
        /\ \/ /\ run[c].landed /\ Agents!Settle(c, "dial", run[c].agentId)
              /\ profile' = [agentId |-> run[c].agentId, brief |-> brief[c]]
           \/ Agents!Settle(c, "failed", 0) /\ profile' = profile
    BY DEF Agents!UpdateAnswers, Agents!CreateAnswers, Agents!RequestFails,
       Agents!Resolve, Agents!platform
  <1>3. brief[c] \in 0..MaxBrief /\ run[c].agentId \in 0..MaxAgents /\ 0 \in 0..MaxAgents
    BY <1>1, ServeAssumption DEF CallsType
  <1>4. /\ stage[c] = "ensure"
        /\ run[c].landed => made[run[c].agentId] = config /\ brief[c] = config
    BY <1>1, <1>2, ServeAssumption DEF WhoAwaits, BriefsInv, BriefsOfCalls
  <1>5. MadeInTime'
    BY <1>2, <1>3, <1>4, BriefsNeed DEF BriefsInv, MadeInTime, Agents!Ids
  <1>6. \A d \in Calls : ~run'[d].landed
    <2>1. \A d \in Calls : d # c => run[d].at = "none"
      BY <1>1, <1>2 DEF WhoAwaits
    <2>2. \A d \in Calls : (d # c => run'[d] = run[d]) /\ (d = c => run'[d] = Agents!NoRun)
      BY <1>1, <1>2, <1>3, SettleLeavesNoRun
    <2> QED BY <1>1, <2>1, <2>2 DEF RunsKnowTheirAgent, Agents!NoRun
  <1>7. CASE /\ run[c].landed /\ Agents!Settle(c, "dial", run[c].agentId)
             /\ profile' = [agentId |-> run[c].agentId, brief |-> brief[c]]
    <2>1. \A d \in Calls : /\ stage'[d] = IF stage[d] = "ensure" THEN "dial" ELSE stage[d]
                           /\ agent'[d] = IF stage[d] = "ensure" THEN run[c].agentId ELSE agent[d]
      BY <1>1, <1>2, <1>3, <1>7, SettleLeavesNoRun
    <2>2. BriefsOfCalls'
      BY <1>2, <1>4, <1>6, <1>7, <2>1 DEF BriefsInv, BriefsOfCalls
    <2> QED BY <1>5, <2>2 DEF BriefsInv
  <1>8. CASE Agents!Settle(c, "failed", 0) /\ profile' = profile
    <2>1. \A d \in Calls : /\ stage'[d] = IF stage[d] = "ensure" THEN "failed" ELSE stage[d]
                           /\ stage[d] # "ensure" => agent'[d] = agent[d]
      BY <1>1, <1>2, <1>3, <1>8, SettleLeavesNoRun
    <2>2. BriefsOfCalls'
      BY <1>2, <1>6, <2>1 DEF BriefsInv, BriefsOfCalls
    <2> QED BY <1>5, <2>2 DEF BriefsInv
  <1> QED BY <1>2, <1>7, <1>8

LEMMA BriefsLand ==
  ASSUME AgentsInv, BriefsInv, NEW c \in Calls,
         Agents!UpdateLands(c) \/ Agents!UpdateFinds404(c) \/ Agents!CreateLands(c)
  PROVE  BriefsInv'
  <1>1. CallsType /\ PlatformType /\ WhoAwaits /\ RunsKnowTheirAgent
    BY BriefsNeed
  <1>2. /\ run[c].at \in {"update", "create"}
        /\ config' = config /\ profile' = profile /\ brief' = brief /\ stage' = stage
        /\ agent' = agent /\ spoken' = spoken
    BY DEF Agents!UpdateLands, Agents!UpdateFinds404, Agents!CreateLands,
       Agents!platform
  <1>3. /\ brief[c] = config
        /\ \A d \in Calls \ {c} : run[d].at = "none" /\ ~run[d].landed
    BY <1>1, <1>2, ServeAssumption DEF WhoAwaits, RunsKnowTheirAgent, BriefsInv,
       BriefsOfCalls
  <1>4. CASE Agents!UpdateLands(c)
    <2>1. /\ run[c].agentId \in Agents!Ids
          /\ made' = [made EXCEPT ![run[c].agentId] = config]
          /\ \A d \in Calls : run'[d].agentId = run[d].agentId
          /\ \A d \in Calls \ {c} : run'[d] = run[d]
      BY <1>1, <1>3, <1>4 DEF Agents!UpdateLands, RunsKnowTheirAgent, CallsType
    <2>2. /\ \A a \in Agents!Ids : made'[a] = IF a = run[c].agentId THEN config ELSE made[a]
          /\ Agents!Ids' = Agents!Ids
      BY <1>1, <2>1 DEF PlatformType, Agents!Ids
    <2>3. MadeInTime'
      BY <1>2, <2>1, <2>2, BriefsNeed DEF BriefsInv, MadeInTime, RunsKnowTheirAgent
    <2>4. BriefsOfCalls'
      BY <1>1, <1>2, <1>3, <2>1, <2>2 DEF BriefsInv, BriefsOfCalls, RunsKnowTheirAgent
    <2> QED BY <2>3, <2>4 DEF BriefsInv
  <1>5. CASE Agents!UpdateFinds404(c)
    <2>1. /\ run'[c] = [at |-> "create", agentId |-> 0, landed |-> FALSE]
          /\ \A d \in Calls \ {c} : run'[d] = run[d]
          /\ made' = made
      BY <1>1, <1>5 DEF Agents!UpdateFinds404, CallsType, Agents!platform
    <2> QED BY <1>2, <2>1 DEF BriefsInv, MadeInTime, BriefsOfCalls, Agents!Ids
  <1>6. CASE Agents!CreateLands(c)
    <2>1. PICK n \in Nat : /\ made \in [1..n -> Agents!Briefs]
                           /\ made' = [i \in 1..(n + 1) |->
                                         IF i = n + 1 THEN brief[c] ELSE made[i]]
                           /\ run'[c].agentId = n + 1
      BY <1>6, CreationStep
    <2>2. \A d \in Calls \ {c} : run'[d] = run[d]
      BY <1>6, CreationStep
    <2>3. /\ Agents!Ids = 1..n /\ Agents!Ids' = 1..(n + 1) /\ made'[n + 1] = config
          /\ \A a \in Agents!Ids : made'[a] = made[a]
      BY <1>3, <2>1 DEF Agents!Ids
    <2>4. MadeInTime'
      BY <1>1, <1>2, <2>3, BriefsNeed DEF BriefsInv, MadeInTime, RunsKnowTheirAgent
    <2>5. BriefsOfCalls'
      BY <1>1, <1>2, <1>3, <2>1, <2>2, <2>3 DEF BriefsInv, BriefsOfCalls,
         RunsKnowTheirAgent
    <2> QED BY <2>4, <2>5 DEF BriefsInv
  <1> QED BY <1>4, <1>5, <1>6

LEMMA BriefsPlace ==
  ASSUME AgentsInv, BriefsInv, NEW c \in Calls, Agents!Place(c)
  PROVE  BriefsInv'
  <1>1. /\ stage[c] = "dial" /\ config' = config /\ profile' = profile /\ run' = run
        /\ brief' = brief /\ agent' = agent /\ made' = made
        /\ \A d \in Calls \ {c} : stage'[d] = stage[d] /\ spoken'[d] = spoken[d]
        /\ \/ stage'[c] = "failed" /\ spoken'[c] = spoken[c]
           \/ stage'[c] = "placed" /\ spoken'[c] = made[agent[c]]
    BY BriefsNeed DEF Agents!Place, CallsType
  <1>2. spoken[c] = 0 /\ made[agent[c]] = brief[c]
    BY <1>1 DEF BriefsInv, BriefsOfCalls
  <1> QED BY <1>1, <1>2 DEF BriefsInv, MadeInTime, BriefsOfCalls, Agents!Ids

LEMMA BriefsOutside ==
  ASSUME Steady, AgentsInv, BriefsInv,
         Agents!Restart \/ Agents!EditPersona \/ Agents!DeleteAgent \/ UNCHANGED Agents!vars
  PROVE  BriefsInv'
  <1>1. CASE Agents!Restart \/ Agents!EditPersona
    <2>1. /\ profile' = profile /\ brief' = brief /\ agent' = agent /\ made' = made
          /\ spoken' = spoken /\ config' \in Int /\ config <= config'
      BY <1>1, ServeAssumption DEF Agents!Restart, Agents!EditPersona, Agents!Edits,
         Agents!Briefs, Steady, Agents!serve, Agents!platform
    <2>2. MadeInTime'
      BY <2>1, BriefsNeed DEF BriefsInv, MadeInTime, Agents!Ids
    <2>3. /\ \A c \in Calls : stage'[c] \notin {"ensure", "dial"}
          /\ \A c \in Calls : stage[c] = "placed" => stage'[c] = "placed"
          /\ \A c \in Calls : ~run'[c].landed \/ run'[c] = run[c]
      BY <1>1 DEF Agents!Restart, Agents!EditPersona, Steady, Agents!serve, Agents!NoRun
    <2>4. BriefsOfCalls'
      BY <2>1, <2>3 DEF BriefsInv, BriefsOfCalls
    <2> QED BY <2>2, <2>4 DEF BriefsInv
  <1>2. CASE Agents!DeleteAgent \/ UNCHANGED Agents!vars
    BY <1>2 DEF Agents!DeleteAgent, Agents!vars, Agents!serve, Agents!platform,
       BriefsInv, MadeInTime, BriefsOfCalls, Agents!Ids
  <1> QED BY <1>1, <1>2

LEMMA BriefsStep ==
  ASSUME Steady, AgentsInv, BriefsInv, [Agents!Next]_(Agents!vars)
  PROVE  BriefsInv'
  BY BriefsEnsure, BriefsSettle, BriefsLand, BriefsPlace, BriefsOutside DEF Agents!Next

(* A call is spoken by the brief it was planned with: while no edit falls  *)
(* under a run and none goes back to an earlier brief, a lost answer or a  *)
(* death of `serve` leaves the row behind the platform, never ahead of it. *)
THEOREM SpokenByItsBrief ==
  ASSUME Steady
  PROVE  Agents!Spec => []SpeaksByItsBrief
  <1>1. Agents!Spec => []BriefsInv
    BY AgentsInvariant, BriefsInit, BriefsStep, PTL DEF Agents!Spec
  <1>2. BriefsInv => SpeaksByItsBrief
    BY DEF BriefsInv, BriefsOfCalls, SpeaksByItsBrief, Agents!SpeaksByItsBrief
  <1> QED BY <1>1, <1>2, PTL

-----------------------------------------------------------------------------
(* Which steps each kind of task goes through.                             *)
TaskShape ==
  /\ task \in [Tasks -> [kind : {"none", "play", "store", "local", "provider", "both"},
                         sid : Sids \cup {"none"},
                         at : Recordings!Over \cup {"fetch", "find", "add", "use", "index",
                                         "mark", "request"},
                         key : Nat]]
  /\ \A t \in Tasks :
       /\ task[t].kind = "none" <=> task[t].at = "free"
       /\ task[t].kind = "none" => task[t] = Recordings!Idle
       /\ task[t].kind # "none" => task[t].sid \in Sids
       /\ task[t].at \in {"fetch", "index"} => task[t].kind = "store"
       /\ task[t].at \in {"find", "add", "use"} => task[t].kind \in {"store", "play"}
       /\ task[t].at = "mark" => task[t].kind \in {"local", "both"}
       /\ task[t].at = "request" => task[t].kind \in {"provider", "both"}
       /\ task[t].key <= minted

KeysType ==
  /\ recordingsLife \in 1..MaxLives /\ minted \in Nat
  /\ cached \in 0..minted /\ keychain \in 0..minted
  /\ file \in [Sids -> 0..minted]

IndexType ==
  /\ claims \subseteq Sids /\ carrier \subseteq Sids
  /\ row \in [Sids -> [known : BOOLEAN, deletedLocal : BOOLEAN, deletedProvider : BOOLEAN]]
  /\ stored \in [Sids -> Nat]

(* Whoever is to use a key holds the Keychain's.                           *)
KeysAgree ==
  /\ Recordings!OneKey
  /\ \A t \in Tasks : /\ Recordings!At(t, "use") => keychain # 0
                      /\ Recordings!At(t, "add") => task[t].key # 0

Storing(t) == task[t].at \notin Recordings!Over /\ task[t].kind = "store"

(* The claim lets one task store a recording, and nobody can delete what   *)
(* is not yet in the index.                                                *)
StoredOnce ==
  /\ \A t \in Tasks : Storing(t) =>
       /\ task[t].sid \in claims /\ ~row[task[t].sid].known
       /\ file[task[t].sid] # 0 <=> Recordings!At(t, "index")
       /\ \A u \in Tasks : Storing(u) /\ task[u].sid = task[t].sid => u = t
  /\ \A s \in Sids :
       /\ ~row[s].known => row[s] = Recordings!NoRow /\ stored[s] = 0
       /\ row[s].known => s \in claims /\ stored[s] = 1
       /\ s \notin claims => file[s] = 0

(* A file goes before its row says so.                                     *)
DeletedInOrder ==
  /\ \A t \in Tasks : task[t].at \in {"mark", "request"} => row[task[t].sid].known
  /\ \A t \in Tasks : Recordings!At(t, "mark") => file[task[t].sid] = 0
  /\ \A s \in Sids : row[s].deletedLocal => file[s] = 0
  /\ \A s \in Sids : row[s].deletedProvider => s \notin carrier

RecordingsInv ==
  /\ TaskShape /\ KeysType /\ IndexType
  /\ KeysAgree /\ StoredOnce /\ DeletedInOrder /\ Recordings!IndexMatchesDisk

-----------------------------------------------------------------------------
LEMMA RecordingsInit ==
  ASSUME Recordings!Init
  PROVE  RecordingsInv
  <1> USE DEF Recordings!Init
  <1>1. TaskShape
    BY DEF TaskShape, Recordings!Idle, Recordings!Over
  <1>2. KeysType /\ IndexType
    BY ServeAssumption DEF KeysType, IndexType, Recordings!NoRow
  <1>3. KeysAgree /\ StoredOnce /\ DeletedInOrder /\ Recordings!IndexMatchesDisk
    BY DEF KeysAgree, Recordings!OneKey, Recordings!At, StoredOnce, Storing,
       DeletedInOrder, Recordings!IndexMatchesDisk,
       Recordings!Idle, Recordings!NoRow, Recordings!Over
  <1> QED BY <1>1, <1>2, <1>3 DEF RecordingsInv

(* A task goes on: its step and its key change, what it is about does not. *)
LEMMA TaskGoesOn ==
  ASSUME TaskShape, NEW t \in Tasks, NEW step, NEW key, Recordings!GoesWith(t, step, key)
  PROVE  /\ task'[t].at = step /\ task'[t].key = key
         /\ task'[t].kind = task[t].kind /\ task'[t].sid = task[t].sid
         /\ \A u \in Tasks : u # t => task'[u] = task[u]
         /\ \A u \in Tasks : task'[u].kind = task[u].kind /\ task'[u].sid = task[u].sid
         /\ task' = [task EXCEPT ![t] = [kind |-> task[t].kind, sid |-> task[t].sid,
                                         at |-> step, key |-> key]]
  <1>1. task[t] \in [kind : {"none", "play", "store", "local", "provider", "both"},
                     sid : Sids \cup {"none"},
                     at : Recordings!Over \cup {"fetch", "find", "add", "use", "index",
                                     "mark", "request"},
                     key : Nat]
    BY DEF TaskShape
  <1>2. [[task[t] EXCEPT !.at = step] EXCEPT !.key = key]
          = [kind |-> task[t].kind, sid |-> task[t].sid, at |-> step, key |-> key]
    <2>1. [task[t] EXCEPT !.at = step]
            = [kind |-> task[t].kind, sid |-> task[t].sid, at |-> step, key |-> task[t].key]
      BY <1>1
    <2>2. [[kind |-> task[t].kind, sid |-> task[t].sid, at |-> step, key |-> task[t].key]
             EXCEPT !.key = key]
            = [kind |-> task[t].kind, sid |-> task[t].sid, at |-> step, key |-> key]
      OBVIOUS
    <2> QED BY <2>1, <2>2
  <1>3. task' = [task EXCEPT ![t] = [kind |-> task[t].kind, sid |-> task[t].sid,
                                     at |-> step, key |-> key]]
    BY <1>2 DEF TaskShape, Recordings!GoesWith
  <1> QED BY <1>3 DEF TaskShape

LEMMA GoesKeepsKey ==
  ASSUME TaskShape, NEW t \in Tasks, NEW step, Recordings!Goes(t, step)
  PROVE  Recordings!GoesWith(t, step, task[t].key)
  <1>1. task[t] \in [kind : {"none", "play", "store", "local", "provider", "both"},
                     sid : Sids \cup {"none"},
                     at : Recordings!Over \cup {"fetch", "find", "add", "use", "index",
                                     "mark", "request"},
                     key : Nat]
    BY DEF TaskShape
  <1>2. [[task[t] EXCEPT !.at = step] EXCEPT !.key = task[t].key]
          = [task[t] EXCEPT !.at = step]
    BY <1>1
  <1> QED BY <1>2 DEF TaskShape, Recordings!Goes, Recordings!GoesWith

(* What becomes of the shape of the tasks when one goes on.                *)
LEMMA ShapeGoesOn ==
  ASSUME TaskShape, NEW t \in Tasks, NEW step, NEW key \in Nat,
         Recordings!GoesWith(t, step, key), minted \in Nat, minted' \in Nat,
         minted <= minted', key <= minted',
         task[t].kind # "none",
         step \in Recordings!Over \cup {"fetch", "find", "add", "use", "index", "mark", "request"},
         step # "free",
         step \in {"fetch", "index"} => task[t].kind = "store",
         step \in {"find", "add", "use"} => task[t].kind \in {"store", "play"},
         step = "mark" => task[t].kind \in {"local", "both"},
         step = "request" => task[t].kind \in {"provider", "both"}
  PROVE  TaskShape'
  <1>1. /\ task'[t].at = step /\ task'[t].key = key
        /\ task'[t].kind = task[t].kind /\ task'[t].sid = task[t].sid
        /\ \A u \in Tasks : u # t => task'[u] = task[u]
    BY TaskGoesOn
  <1>2. task' \in [Tasks -> [kind : {"none", "play", "store", "local", "provider", "both"},
                             sid : Sids \cup {"none"},
                             at : Recordings!Over \cup {"fetch", "find", "add", "use", "index",
                                             "mark", "request"},
                             key : Nat]]
    <2>1. task' = [task EXCEPT ![t] = [kind |-> task[t].kind, sid |-> task[t].sid,
                                       at |-> step, key |-> key]]
      BY TaskGoesOn
    <2> QED BY <2>1 DEF TaskShape
  <1>3. \A u \in Tasks : task[u].key \in Nat
    BY DEF TaskShape
  <1> QED BY <1>1, <1>2, <1>3 DEF TaskShape

(* The steps that only look for a key, or for the recording.               *)
LEMMA KeyStep ==
  ASSUME RecordingsInv, NEW t \in Tasks,
         \/ Recordings!FetchAnswers(t) \/ Recordings!FetchFails(t) \/ Recordings!FindAnswers(t) \/ Recordings!FindFails(t)
         \/ Recordings!AddAnswers(t) \/ Recordings!AddFails(t) \/ Recordings!Decrypt(t)
  PROVE  RecordingsInv'
  <1> USE DEF Recordings!At
  <1>1. TaskShape /\ KeysType /\ IndexType /\ KeysAgree
    BY DEF RecordingsInv
  <1>2. /\ recordingsLife' = recordingsLife /\ claims' = claims /\ row' = row
        /\ stored' = stored
        /\ file' = file /\ carrier' = carrier
    BY DEF Recordings!FetchAnswers, Recordings!FetchFails, Recordings!FindAnswers,
       Recordings!FindFails, Recordings!AddAnswers, Recordings!AddFails,
       Recordings!Decrypt, Recordings!index, Recordings!disk
  <1>3. /\ task[t].at \in {"fetch", "find", "add", "use"}
        /\ task[t].at = "fetch" => task[t].kind = "store"
        /\ task[t].at = "use" => task[t].kind = "play"
        /\ task[t].kind \in {"store", "play"}
        /\ task[t].key \in 0..minted
    BY <1>1 DEF Recordings!FetchAnswers, Recordings!FetchFails, Recordings!FindAnswers,
       Recordings!FindFails, Recordings!AddAnswers, Recordings!AddFails,
       Recordings!Decrypt, TaskShape, KeysType
  <1>4. PICK step \in {"find", "add", "use", "ok", "failed"}, key \in Nat :
          /\ Recordings!GoesWith(t, step, key)
          /\ minted' \in {minted, minted + 1} /\ key <= minted'
          /\ step = "use" => key # 0 /\ key = keychain'
          /\ step = "add" => key # 0
          /\ keychain' = keychain \/ (keychain = 0 /\ keychain' \in 0..minted)
          /\ cached' = cached \/ cached' = keychain'
    <2>1. CASE Recordings!FetchAnswers(t)
      <3>1. Recordings!GoesWith(t, IF cached = 0 THEN "find" ELSE "use", cached)
        BY <2>1 DEF Recordings!FetchAnswers
      <3>2. cached \in Nat /\ cached <= minted /\ cached \in {0, keychain}
        BY <1>1 DEF KeysType, KeysAgree, Recordings!OneKey
      <3>3. minted' = minted /\ keychain' = keychain /\ cached' = cached
        BY <2>1 DEF Recordings!FetchAnswers, Recordings!disk
      <3> QED BY <3>1, <3>2, <3>3
    <2>2. CASE Recordings!FetchFails(t)
      <3>1. Recordings!GoesWith(t, "failed", task[t].key)
        BY <2>2, <1>1, GoesKeepsKey DEF Recordings!FetchFails
      <3> QED BY <2>2, <1>1, <1>3, <3>1 DEF Recordings!FetchFails, Recordings!disk,
                 KeysType
    <2>3. CASE Recordings!FindAnswers(t)
      BY <2>3, <1>1 DEF Recordings!FindAnswers, Recordings!KeyFor, Recordings!disk,
         KeysType
    <2>4. CASE Recordings!FindFails(t)
      <3>1. Recordings!GoesWith(t, "add", minted + 1) /\ minted' = minted + 1 /\ minted \in Nat
            /\ keychain' = keychain /\ cached' = cached
        BY <2>4, <1>1 DEF Recordings!FindFails, Recordings!disk, KeysType
      <3>2. minted + 1 \in Nat /\ minted + 1 # 0
        BY <3>1
      <3> QED BY <3>1, <3>2
    <2>5. CASE Recordings!AddAnswers(t)
      BY <2>5, <1>1, <1>3 DEF Recordings!AddAnswers, Recordings!KeyFor, KeysType,
         KeysAgree
    <2>6. CASE Recordings!AddFails(t)
      <3>1. Recordings!GoesWith(t, "failed", task[t].key)
        BY <2>6, <1>1, GoesKeepsKey DEF Recordings!AddFails
      <3> QED BY <2>6, <1>1, <1>3, <3>1 DEF Recordings!AddFails, KeysType
    <2>7. CASE Recordings!Decrypt(t)
      <3>1. \E step \in {"ok", "failed"} : Recordings!GoesWith(t, step, task[t].key)
        BY <2>7, <1>1, GoesKeepsKey DEF Recordings!Decrypt
      <3> QED BY <2>7, <1>1, <1>3, <3>1 DEF Recordings!Decrypt, Recordings!disk,
                 KeysType
    <2> QED BY <2>1, <2>2, <2>3, <2>4, <2>5, <2>6, <2>7
  <1>5. /\ task'[t].at = step /\ task'[t].key = key
        /\ \A u \in Tasks : u # t => task'[u] = task[u]
        /\ \A u \in Tasks : task'[u].kind = task[u].kind /\ task'[u].sid = task[u].sid
    BY <1>1, <1>4, TaskGoesOn
  <1>6. TaskShape'
    <2>1. minted \in Nat /\ minted' \in Nat /\ minted <= minted'
      BY <1>1, <1>4 DEF KeysType
    <2> QED BY <1>1, <1>3, <1>4, <2>1, ShapeGoesOn DEF Recordings!Over
  <1>7. KeysType' /\ IndexType'
    BY <1>1, <1>2, <1>4 DEF KeysType, IndexType
  <1>8. KeysAgree'
    BY <1>1, <1>2, <1>4, <1>5 DEF KeysAgree, Recordings!OneKey
  <1>9. StoredOnce'
    BY <1>2, <1>3, <1>4, <1>5 DEF RecordingsInv, StoredOnce, Storing, Recordings!Over
  <1>10. DeletedInOrder' /\ Recordings!IndexMatchesDisk'
    BY <1>2, <1>3, <1>4, <1>5 DEF RecordingsInv, DeletedInOrder,
       Recordings!IndexMatchesDisk
  <1> QED BY <1>6, <1>7, <1>8, <1>9, <1>10 DEF RecordingsInv

(* The start of a task.                                                    *)
LEMMA TaskBegins ==
  ASSUME TaskShape, minted \in Nat, NEW t \in Tasks, Recordings!At(t, "free"), NEW new,
         new \in [kind : {"play", "store", "local", "provider", "both"}, sid : Sids,
                  at : {"find", "fetch", "ok", "mark", "request"}, key : {0}],
         new.at = "fetch" => new.kind = "store",
         new.at = "find" => new.kind \in {"store", "play"},
         new.at = "mark" => new.kind \in {"local", "both"},
         new.at = "request" => new.kind \in {"provider", "both"},
         minted' = minted, task' = [task EXCEPT ![t] = new]
  PROVE  /\ TaskShape' /\ task'[t] = new
         /\ \A u \in Tasks : u # t => task'[u] = task[u]
  <1>1. task'[t] = new /\ \A u \in Tasks : u # t => task'[u] = task[u]
    BY DEF TaskShape
  <1>2. task' \in [Tasks -> [kind : {"none", "play", "store", "local", "provider", "both"},
                             sid : Sids \cup {"none"},
                             at : Recordings!Over \cup {"fetch", "find", "add", "use", "index",
                                             "mark", "request"},
                             key : Nat]]
    BY DEF TaskShape, Recordings!Over
  <1> QED BY <1>1, <1>2 DEF TaskShape

LEMMA CallbackStep ==
  ASSUME RecordingsInv, NEW t \in Tasks, NEW s \in Sids, Recordings!Callback(t, s)
  PROVE  RecordingsInv'
  <1> USE DEF Recordings!At
  <1>1. TaskShape /\ KeysType /\ IndexType /\ KeysAgree /\ minted \in Nat
    BY DEF RecordingsInv, KeysType
  <1> DEFINE step == IF s \in claims THEN "ok" ELSE "fetch"
  <1>2. /\ task[t].at = "free" /\ claims' = claims \cup {s}
        /\ recordingsLife' = recordingsLife /\ cached' = cached /\ row' = row
        /\ stored' = stored
        /\ minted' = minted /\ keychain' = keychain /\ file' = file /\ carrier' = carrier
        /\ task' = [task EXCEPT ![t] = [kind |-> "store", sid |-> s, at |-> step, key |-> 0]]
    BY DEF Recordings!Callback, Recordings!disk
  <1>3. step \in {"ok", "fetch"} /\ (step = "fetch" => s \notin claims)
    OBVIOUS
  <1> HIDE DEF step
  <1>4. /\ TaskShape'
        /\ task'[t] = [kind |-> "store", sid |-> s, at |-> step, key |-> 0]
        /\ \A u \in Tasks : u # t => task'[u] = task[u]
    <2>1. step \in {"find", "fetch", "ok", "mark", "request"} /\ step \notin {"find", "mark", "request"}
      BY <1>3
    <2> QED BY <1>1, <1>2, <2>1, TaskBegins
  <1>5. KeysType' /\ IndexType' /\ KeysAgree'
    BY <1>1, <1>2, <1>3, <1>4 DEF KeysType, IndexType, KeysAgree, Recordings!OneKey
  <1>6. StoredOnce'
    <2>1. \A u \in Tasks : Storing(u)' =>
            /\ task'[u].sid \in claims' /\ ~row'[task'[u].sid].known
            /\ file'[task'[u].sid] # 0 <=> Recordings!At(u, "index")'
            /\ \A v \in Tasks : Storing(v)' /\ task'[v].sid = task'[u].sid => v = u
      <3>1. \A u \in Tasks : u # t => (Storing(u)' <=> Storing(u))
        BY <1>4 DEF Storing
      <3>2. Storing(t)' => step = "fetch"
        BY <1>3, <1>4 DEF Storing, Recordings!Over
      <3>3. step = "fetch" => ~row[s].known /\ file[s] = 0
                              /\ \A u \in Tasks : Storing(u) => task[u].sid # s
        BY <1>3 DEF RecordingsInv, StoredOnce
      <3> QED BY <1>2, <1>4, <3>1, <3>2, <3>3 DEF RecordingsInv, StoredOnce
    <2>2. \A r \in Sids : /\ ~row'[r].known => row'[r] = Recordings!NoRow /\ stored'[r] = 0
                          /\ row'[r].known => r \in claims' /\ stored'[r] = 1
                          /\ r \notin claims' => file'[r] = 0
      BY <1>2 DEF RecordingsInv, StoredOnce
    <2> QED BY <2>1, <2>2 DEF StoredOnce
  <1>7. DeletedInOrder' /\ Recordings!IndexMatchesDisk'
    BY <1>2, <1>3, <1>4 DEF RecordingsInv, DeletedInOrder, Recordings!IndexMatchesDisk
  <1> QED BY <1>4, <1>5, <1>6, <1>7 DEF RecordingsInv

LEMMA PlayStep ==
  ASSUME RecordingsInv, NEW t \in Tasks, NEW s \in Sids, Recordings!Play(t, s)
  PROVE  RecordingsInv'
  <1> USE DEF Recordings!At
  <1>1. TaskShape /\ KeysType /\ IndexType /\ KeysAgree /\ minted \in Nat
    BY DEF RecordingsInv, KeysType
  <1>2. /\ task[t].at = "free" /\ claims' = claims
        /\ recordingsLife' = recordingsLife /\ cached' = cached /\ row' = row
        /\ stored' = stored
        /\ minted' = minted /\ keychain' = keychain /\ file' = file /\ carrier' = carrier
        /\ task' = [task EXCEPT ![t] = [kind |-> "play", sid |-> s, at |-> "find", key |-> 0]]
    BY DEF Recordings!Play, Recordings!disk, Recordings!index
  <1>3. /\ TaskShape'
        /\ task'[t] = [kind |-> "play", sid |-> s, at |-> "find", key |-> 0]
        /\ \A u \in Tasks : u # t => task'[u] = task[u]
    BY <1>1, <1>2, TaskBegins
  <1>4. KeysType' /\ IndexType' /\ KeysAgree'
    BY <1>1, <1>2, <1>3 DEF KeysType, IndexType, KeysAgree, Recordings!OneKey
  <1>5. StoredOnce'
    BY <1>2, <1>3 DEF RecordingsInv, StoredOnce, Storing
  <1>6. DeletedInOrder' /\ Recordings!IndexMatchesDisk'
    BY <1>2, <1>3 DEF RecordingsInv, DeletedInOrder, Recordings!IndexMatchesDisk
  <1> QED BY <1>3, <1>4, <1>5, <1>6 DEF RecordingsInv

LEMMA DeleteStep ==
  ASSUME RecordingsInv, NEW t \in Tasks, NEW s \in Sids,
         NEW scope \in {"local", "provider", "both"}, Recordings!DeleteRecording(t, s, scope)
  PROVE  RecordingsInv'
  <1> USE DEF Recordings!At
  <1>1. TaskShape /\ KeysType /\ IndexType /\ KeysAgree /\ minted \in Nat
    BY DEF RecordingsInv, KeysType
  <1> DEFINE step == IF scope = "provider" THEN "request" ELSE "mark"
  <1>2. /\ task[t].at = "free" /\ row[s].known /\ claims' = claims
        /\ recordingsLife' = recordingsLife /\ cached' = cached /\ row' = row
        /\ stored' = stored
        /\ minted' = minted /\ keychain' = keychain /\ carrier' = carrier
        /\ task' = [task EXCEPT ![t] = [kind |-> scope, sid |-> s, at |-> step, key |-> 0]]
        /\ file' = IF scope = "provider" THEN file ELSE [file EXCEPT ![s] = 0]
    BY DEF Recordings!DeleteRecording, Recordings!index
  <1>3. \/ scope = "provider" /\ step = "request" /\ file' = file
        \/ scope # "provider" /\ step = "mark" /\ file' = [file EXCEPT ![s] = 0]
    BY <1>2
  <1> HIDE DEF step
  <1>4. /\ TaskShape'
        /\ task'[t] = [kind |-> scope, sid |-> s, at |-> step, key |-> 0]
        /\ \A u \in Tasks : u # t => task'[u] = task[u]
    <2> DEFINE new == [kind |-> scope, sid |-> s, at |-> step, key |-> 0]
    <2>1. /\ new \in [kind : {"play", "store", "local", "provider", "both"}, sid : Sids,
                      at : {"find", "fetch", "ok", "mark", "request"}, key : {0}]
          /\ new.at \notin {"fetch", "find"}
          /\ new.at = "mark" => new.kind \in {"local", "both"}
          /\ new.at = "request" => new.kind \in {"provider", "both"}
      BY <1>3
    <2>2. task[t].at = "free" /\ minted' = minted /\ task' = [task EXCEPT ![t] = new]
      BY <1>2
    <2> HIDE DEF new
    <2>3. /\ TaskShape' /\ task'[t] = new
          /\ \A u \in Tasks : u # t => task'[u] = task[u]
      BY <1>1, <2>1, <2>2, TaskBegins
    <2> QED BY <2>3 DEF new
  <1>5. \A r \in Sids : file'[r] = file[r] \/ (file'[r] = 0 /\ r = s /\ step = "mark")
    BY <1>1, <1>3 DEF KeysType
  <1>6. KeysType' /\ IndexType' /\ KeysAgree'
    <2>1. file' \in [Sids -> 0..minted]
      BY <1>1, <1>3 DEF KeysType
    <2> QED BY <1>1, <1>2, <1>3, <1>4, <1>5, <2>1 DEF KeysType, IndexType, KeysAgree,
               Recordings!OneKey
  <1>7. StoredOnce'
    <2>1. \A u \in Tasks : Storing(u)' => Storing(u) /\ u # t /\ task[u].sid # s
      BY <1>2, <1>3, <1>4 DEF RecordingsInv, StoredOnce, Storing
    <2>2. \A u \in Tasks : Storing(u) => task[u].sid \in Sids
      BY <1>1 DEF Storing, TaskShape
    <2> QED BY <1>2, <1>4, <1>5, <2>1, <2>2 DEF RecordingsInv, StoredOnce
  <1>8. DeletedInOrder'
    <2>1. \A u \in Tasks : task[u].at = "mark" => task[u].sid \in Sids
      BY <1>1 DEF TaskShape
    <2>2. step = "mark" => file'[s] = 0
      BY <1>1, <1>3 DEF KeysType
    <2> QED BY <1>2, <1>3, <1>4, <1>5, <2>1, <2>2 DEF RecordingsInv, DeletedInOrder
  <1>9. Recordings!IndexMatchesDisk'
    BY <1>2, <1>3, <1>4, <1>5 DEF RecordingsInv, Recordings!IndexMatchesDisk
  <1> QED BY <1>4, <1>6, <1>7, <1>8, <1>9 DEF RecordingsInv

LEMMA WriteStep ==
  ASSUME RecordingsInv, NEW t \in Tasks, Recordings!WriteFile(t)
  PROVE  RecordingsInv'
  <1> USE DEF Recordings!At
  <1>1. TaskShape /\ KeysType /\ IndexType /\ KeysAgree
    BY DEF RecordingsInv
  <1> DEFINE s == task[t].sid
  <1>2. /\ task[t].at = "use" /\ task[t].kind = "store" /\ s \in Sids
        /\ file' = [file EXCEPT ![s] = task[t].key]
        /\ Recordings!GoesWith(t, "index", task[t].key)
        /\ recordingsLife' = recordingsLife /\ cached' = cached /\ row' = row
        /\ stored' = stored
        /\ minted' = minted /\ keychain' = keychain /\ carrier' = carrier
        /\ claims' = claims
    BY <1>1, GoesKeepsKey DEF Recordings!WriteFile, Recordings!index, TaskShape
  <1>3. /\ task'[t].at = "index"
        /\ \A u \in Tasks : u # t => task'[u] = task[u]
        /\ \A u \in Tasks : task'[u].kind = task[u].kind /\ task'[u].sid = task[u].sid
    BY <1>1, <1>2, TaskGoesOn
  <1>4. task[t].key = keychain /\ keychain # 0 /\ keychain \in 1..minted /\ minted \in Nat
    BY <1>1, <1>2 DEF KeysType, KeysAgree, Recordings!OneKey
  <1>5. /\ file'[s] = keychain /\ file' \in [Sids -> 0..minted]
        /\ \A r \in Sids : r # s => file'[r] = file[r]
    BY <1>1, <1>2, <1>4 DEF KeysType
  <1>6. TaskShape'
    BY <1>1, <1>2, <1>4, ShapeGoesOn DEF TaskShape
  <1>7. KeysType' /\ IndexType' /\ KeysAgree'
    BY <1>1, <1>2, <1>3, <1>5 DEF KeysType, IndexType, KeysAgree, Recordings!OneKey
  <1>8. Storing(t) /\ s \in claims /\ ~row[s].known /\ row[s] = Recordings!NoRow
    BY <1>2 DEF Storing, Recordings!Over, RecordingsInv, StoredOnce
  <1>9. StoredOnce'
    <2>1. \A u \in Tasks : Storing(u)' => Storing(u)
      BY <1>3, <1>8 DEF Storing
    <2>2. \A u \in Tasks : Storing(u) => task[u].sid \in Sids /\ (u # t => task[u].sid # s)
      BY <1>1, <1>8 DEF Storing, TaskShape, RecordingsInv, StoredOnce
    <2> QED BY <1>2, <1>3, <1>4, <1>5, <1>8, <2>1, <2>2 DEF RecordingsInv, StoredOnce
  <1>10. DeletedInOrder'
    <2>1. \A u \in Tasks : task[u].at \in {"mark", "request"} => task[u].sid \in Sids
      BY <1>1 DEF TaskShape
    <2>2. \A u \in Tasks : task[u].at \in {"mark", "request"} => task[u].sid # s
      BY <1>8 DEF RecordingsInv, DeletedInOrder
    <2> QED BY <1>2, <1>3, <1>5, <1>8, <2>1, <2>2 DEF RecordingsInv, DeletedInOrder,
               Recordings!NoRow
  <1>11. Recordings!IndexMatchesDisk'
    BY <1>2, <1>3, <1>5 DEF RecordingsInv, Recordings!IndexMatchesDisk
  <1> QED BY <1>6, <1>7, <1>9, <1>10, <1>11 DEF RecordingsInv

(* A change of one field of one row.                                       *)
LEMMA UpsertStep ==
  ASSUME RecordingsInv, NEW t \in Tasks, Recordings!UpsertRecording(t)
  PROVE  RecordingsInv'
  <1> USE DEF Recordings!At
  <1>1. TaskShape /\ KeysType /\ IndexType /\ KeysAgree
    BY DEF RecordingsInv
  <1> DEFINE s == task[t].sid
  <1>2. /\ task[t].at = "index" /\ task[t].kind = "store" /\ s \in Sids
        /\ row' = [row EXCEPT ![s].known = TRUE] /\ stored' = [stored EXCEPT ![s] = @ + 1]
        /\ Recordings!GoesWith(t, "ok", task[t].key)
        /\ recordingsLife' = recordingsLife /\ cached' = cached /\ claims' = claims
        /\ file' = file
        /\ minted' = minted /\ keychain' = keychain /\ carrier' = carrier
    BY <1>1, GoesKeepsKey DEF Recordings!UpsertRecording, Recordings!disk, TaskShape
  <1>3. /\ task'[t].at = "ok"
        /\ \A u \in Tasks : u # t => task'[u] = task[u]
        /\ \A u \in Tasks : task'[u].kind = task[u].kind /\ task'[u].sid = task[u].sid
    BY <1>1, <1>2, TaskGoesOn
  <1>4. /\ Storing(t) /\ s \in claims /\ ~row[s].known /\ row[s] = Recordings!NoRow
        /\ stored[s] = 0 /\ file[s] # 0
    BY <1>2 DEF Storing, Recordings!Over, RecordingsInv, StoredOnce
  <1>5. /\ row'[s].known /\ ~row'[s].deletedLocal /\ ~row'[s].deletedProvider
        /\ \A r \in Sids : r # s => row'[r] = row[r] /\ stored'[r] = stored[r]
        /\ stored'[s] = 1
    BY <1>1, <1>2, <1>4 DEF IndexType, Recordings!NoRow
  <1>6. TaskShape'
    BY <1>1, <1>2, ShapeGoesOn DEF KeysType, TaskShape, Recordings!Over
  <1>7. KeysType' /\ IndexType' /\ KeysAgree'
    <2>1. row' \in [Sids -> [known : BOOLEAN, deletedLocal : BOOLEAN, deletedProvider : BOOLEAN]]
      BY <1>1, <1>2 DEF IndexType
    <2>2. stored' \in [Sids -> Nat]
      BY <1>1, <1>2 DEF IndexType
    <2> QED BY <1>1, <1>2, <1>3, <2>1, <2>2 DEF KeysType, IndexType, KeysAgree,
               Recordings!OneKey
  <1>8. StoredOnce'
    <2>1. \A u \in Tasks : Storing(u)' => Storing(u) /\ u # t
      BY <1>3 DEF Storing, Recordings!Over
    <2>2. \A u \in Tasks : Storing(u) => task[u].sid \in Sids /\ (u # t => task[u].sid # s)
      BY <1>1, <1>4 DEF Storing, TaskShape, RecordingsInv, StoredOnce
    <2> QED BY <1>2, <1>3, <1>4, <1>5, <2>1, <2>2 DEF RecordingsInv, StoredOnce
  <1>9. DeletedInOrder'
    <2>1. \A u \in Tasks : task[u].at \in {"mark", "request"} => task[u].sid \in Sids
      BY <1>1 DEF TaskShape
    <2> QED BY <1>2, <1>3, <1>5, <2>1 DEF RecordingsInv, DeletedInOrder
  <1>10. Recordings!IndexMatchesDisk'
    BY <1>2, <1>3, <1>4, <1>5 DEF RecordingsInv, Recordings!IndexMatchesDisk
  <1> QED BY <1>6, <1>7, <1>8, <1>9, <1>10 DEF RecordingsInv

LEMMA MarkStep ==
  ASSUME RecordingsInv, NEW t \in Tasks, Recordings!MarkLocal(t)
  PROVE  RecordingsInv'
  <1> USE DEF Recordings!At
  <1>1. TaskShape /\ KeysType /\ IndexType /\ KeysAgree
    BY DEF RecordingsInv
  <1> DEFINE s == task[t].sid
  <1>2. /\ task[t].at = "mark" /\ task[t].kind \in {"local", "both"} /\ s \in Sids
        /\ row' = [row EXCEPT ![s].deletedLocal = TRUE]
        /\ recordingsLife' = recordingsLife /\ cached' = cached /\ claims' = claims
        /\ file' = file
        /\ minted' = minted /\ keychain' = keychain /\ carrier' = carrier
        /\ stored' = stored
    BY <1>1 DEF Recordings!MarkLocal, Recordings!disk, TaskShape
  <1>3. PICK step \in {"request", "ok"} :
          /\ Recordings!GoesWith(t, step, task[t].key)
          /\ step = "request" => task[t].kind = "both"
    BY <1>1, GoesKeepsKey DEF Recordings!MarkLocal
  <1>4. /\ task'[t].at = step
        /\ \A u \in Tasks : u # t => task'[u] = task[u]
        /\ \A u \in Tasks : task'[u].kind = task[u].kind /\ task'[u].sid = task[u].sid
    BY <1>1, <1>3, TaskGoesOn
  <1>5. row[s].known /\ file[s] = 0
    BY <1>2 DEF RecordingsInv, DeletedInOrder
  <1>6. /\ row'[s].known /\ row'[s].deletedLocal
        /\ row'[s].deletedProvider = row[s].deletedProvider
        /\ \A r \in Sids : r # s => row'[r] = row[r]
    BY <1>1, <1>2, <1>5 DEF IndexType
  <1>7. TaskShape'
    BY <1>1, <1>2, <1>3, ShapeGoesOn DEF KeysType, TaskShape, Recordings!Over
  <1>8. KeysType' /\ IndexType' /\ KeysAgree'
    <2>1. row' \in [Sids -> [known : BOOLEAN, deletedLocal : BOOLEAN, deletedProvider : BOOLEAN]]
      BY <1>1, <1>2 DEF IndexType
    <2> QED BY <1>1, <1>2, <1>3, <1>4, <2>1 DEF KeysType, IndexType, KeysAgree,
               Recordings!OneKey
  <1>9. StoredOnce'
    <2>1. \A u \in Tasks : Storing(u)' => Storing(u) /\ u # t
      BY <1>2, <1>4 DEF Storing
    <2>2. \A u \in Tasks : Storing(u) => task[u].sid \in Sids /\ task[u].sid # s
      BY <1>1, <1>5 DEF Storing, TaskShape, RecordingsInv, StoredOnce
    <2> QED BY <1>2, <1>4, <1>5, <1>6, <2>1, <2>2 DEF RecordingsInv, StoredOnce
  <1>10. DeletedInOrder'
    <2>1. \A u \in Tasks : task[u].at \in {"mark", "request"} => task[u].sid \in Sids
      BY <1>1 DEF TaskShape
    <2> QED BY <1>2, <1>4, <1>5, <1>6, <2>1 DEF RecordingsInv, DeletedInOrder
  <1>11. Recordings!IndexMatchesDisk'
    BY <1>2, <1>4, <1>5, <1>6 DEF RecordingsInv, Recordings!IndexMatchesDisk
  <1> QED BY <1>7, <1>8, <1>9, <1>10, <1>11 DEF RecordingsInv

LEMMA ProviderStep ==
  ASSUME RecordingsInv, NEW t \in Tasks, Recordings!ProviderAnswers(t) \/ Recordings!ProviderFails(t)
  PROVE  RecordingsInv'
  <1> USE DEF Recordings!At
  <1>1. TaskShape /\ KeysType /\ IndexType /\ KeysAgree
    BY DEF RecordingsInv
  <1> DEFINE s == task[t].sid
  <1>2. /\ task[t].at = "request" /\ task[t].kind \in {"provider", "both"} /\ s \in Sids
        /\ recordingsLife' = recordingsLife /\ cached' = cached /\ claims' = claims
        /\ file' = file
        /\ minted' = minted /\ keychain' = keychain /\ stored' = stored
        /\ carrier' \subseteq carrier
        /\ \/ row' = row
           \/ row' = [row EXCEPT ![s].deletedProvider = TRUE] /\ s \notin carrier'
    BY <1>1 DEF Recordings!ProviderAnswers, Recordings!ProviderFails, Recordings!disk,
       Recordings!index, TaskShape
  <1>3. PICK step \in {"failed", "ok"} : Recordings!GoesWith(t, step, task[t].key)
    BY <1>1, GoesKeepsKey DEF Recordings!ProviderAnswers, Recordings!ProviderFails
  <1>4. /\ task'[t].at = step
        /\ \A u \in Tasks : u # t => task'[u] = task[u]
        /\ \A u \in Tasks : task'[u].kind = task[u].kind /\ task'[u].sid = task[u].sid
    BY <1>1, <1>3, TaskGoesOn
  <1>5. row[s].known
    BY <1>2 DEF RecordingsInv, DeletedInOrder
  <1>6. /\ \A r \in Sids : /\ row'[r].known = row[r].known
                           /\ row'[r].deletedLocal = row[r].deletedLocal
                           /\ row'[r].deletedProvider => row[r].deletedProvider \/ r \notin carrier'
                           /\ ~row[r].known => row'[r] = row[r]
        /\ row' \in [Sids -> [known : BOOLEAN, deletedLocal : BOOLEAN, deletedProvider : BOOLEAN]]
    <2>1. row \in [Sids -> [known : BOOLEAN, deletedLocal : BOOLEAN, deletedProvider : BOOLEAN]]
      BY <1>1 DEF IndexType
    <2>2. CASE row' = row
      BY <2>1, <2>2
    <2>3. CASE row' = [row EXCEPT ![s].deletedProvider = TRUE] /\ s \notin carrier'
      <3> HIDE DEF s
      <3>1. s \in Sids /\ row[s].known
        BY <1>2, <1>5
      <3> QED BY <2>1, <2>3, <3>1
    <2> QED BY <1>2, <2>2, <2>3
  <1>7. TaskShape'
    BY <1>1, <1>2, <1>3, ShapeGoesOn DEF KeysType, TaskShape, Recordings!Over
  <1>8. KeysType' /\ IndexType' /\ KeysAgree'
    BY <1>1, <1>2, <1>3, <1>4, <1>6 DEF KeysType, IndexType, KeysAgree,
       Recordings!OneKey
  <1>9. StoredOnce'
    <2>1. \A u \in Tasks : Storing(u)' => Storing(u)
      BY <1>2, <1>4 DEF Storing
    <2>2. \A u \in Tasks : Storing(u) => task[u].sid \in Sids /\ u # t
      BY <1>1, <1>2 DEF Storing, TaskShape
    <2> QED BY <1>2, <1>4, <1>6, <2>1, <2>2 DEF RecordingsInv, StoredOnce
  <1>10. DeletedInOrder'
    <2>1. \A u \in Tasks : task[u].at \in {"mark", "request"} => task[u].sid \in Sids
      BY <1>1 DEF TaskShape
    <2> QED BY <1>2, <1>4, <1>6, <2>1 DEF RecordingsInv, DeletedInOrder
  <1>11. Recordings!IndexMatchesDisk'
    BY <1>2, <1>4, <1>6 DEF RecordingsInv, Recordings!IndexMatchesDisk
  <1> QED BY <1>7, <1>8, <1>9, <1>10, <1>11 DEF RecordingsInv

LEMMA RecordingsRestart ==
  ASSUME RecordingsInv, Recordings!Restart
  PROVE  RecordingsInv'
  <1> USE DEF Recordings!At
  <1>1. TaskShape /\ KeysType /\ IndexType /\ KeysAgree
    BY DEF RecordingsInv
  <1>2. /\ claims' = claims /\ row' = row /\ stored' = stored /\ minted' = minted
        /\ keychain' = keychain /\ file' = file /\ carrier' = carrier
        /\ cached' = 0 /\ recordingsLife' = recordingsLife + 1
        /\ recordingsLife < MaxLives
    BY DEF Recordings!Restart, Recordings!index, Recordings!disk
  <1>3. \A t \in Tasks :
          \/ task'[t] = task[t] /\ (task[t].kind = "play" \/ task[t].at \in Recordings!Over)
          \/ /\ task[t].kind # "play" /\ task[t].at \notin Recordings!Over
             /\ task'[t].kind = task[t].kind /\ task'[t].sid = task[t].sid
             /\ task'[t].key = task[t].key
             /\ task'[t].at = IF task[t].at \in {"index", "mark"} THEN "cut" ELSE "failed"
    BY <1>1 DEF Recordings!Restart, TaskShape
  <1>4. TaskShape'
    <2>1. task' \in [Tasks -> [kind : {"none", "play", "store", "local", "provider", "both"},
                               sid : Sids \cup {"none"},
                               at : Recordings!Over \cup {"fetch", "find", "add", "use", "index",
                                               "mark", "request"},
                               key : Nat]]
      BY <1>1 DEF Recordings!Restart, TaskShape, Recordings!Over
    <2> QED BY <1>1, <1>2, <1>3, <2>1 DEF TaskShape, Recordings!Over
  <1>5. KeysType' /\ IndexType'
    BY <1>1, <1>2, ServeAssumption DEF KeysType, IndexType
  <1>6. KeysAgree'
    BY <1>1, <1>2, <1>3 DEF KeysAgree, Recordings!OneKey
  <1>7. StoredOnce'
    <2>1. \A t \in Tasks : ~Storing(t)'
      BY <1>3 DEF Storing, Recordings!Over
    <2> QED BY <1>2, <2>1 DEF RecordingsInv, StoredOnce
  <1>8. DeletedInOrder'
    BY <1>2, <1>3 DEF RecordingsInv, DeletedInOrder
  <1>9. Recordings!IndexMatchesDisk'
    BY <1>2, <1>3 DEF RecordingsInv, Recordings!IndexMatchesDisk, Recordings!Over
  <1> QED BY <1>4, <1>5, <1>6, <1>7, <1>8, <1>9 DEF RecordingsInv

LEMMA RecordingsStutter ==
  ASSUME RecordingsInv, UNCHANGED Recordings!vars
  PROVE  RecordingsInv'
  BY DEF Recordings!vars, Recordings!index, Recordings!disk, RecordingsInv, TaskShape,
     KeysType, IndexType, KeysAgree,
     Recordings!OneKey, StoredOnce, Storing, DeletedInOrder, Recordings!IndexMatchesDisk, Recordings!At

LEMMA RecordingsStep ==
  ASSUME RecordingsInv, [Recordings!Next]_(Recordings!vars)
  PROVE  RecordingsInv'
  BY KeyStep, CallbackStep, PlayStep, DeleteStep, WriteStep, UpsertStep, MarkStep,
     ProviderStep, RecordingsRestart, RecordingsStutter DEF Recordings!Next

LEMMA RecordingsInvariant == Recordings!Spec => []RecordingsInv
  BY RecordingsInit, RecordingsStep, PTL DEF Recordings!Spec

(* TypeOK says it by the steps of a task's kind.                           *)
LEMMA RecordingTypesHold ==
  ASSUME RecordingsInv
  PROVE  Recordings!TypeOK
  <1>1. /\ DOMAIN Recordings!Steps = {"none", "play", "store", "local", "provider", "both"}
        /\ Recordings!Steps["none"] = {}
        /\ Recordings!Steps["play"] = {"find", "add", "use"}
        /\ Recordings!Steps["store"] = {"fetch", "find", "add", "use", "index"}
        /\ Recordings!Steps["local"] = {"mark"}
        /\ Recordings!Steps["provider"] = {"request"}
        /\ Recordings!Steps["both"] = {"mark", "request"}
    BY DEF Recordings!Steps
  <1>2. \A t \in Tasks :
          /\ task[t].kind \in DOMAIN Recordings!Steps
          /\ task[t].at \in Recordings!Over \cup Recordings!Steps[task[t].kind]
          /\ task[t].sid \in Sids \/ task[t] = Recordings!Idle
          /\ task[t].key \in 0..minted
    <2> SUFFICES ASSUME NEW t \in Tasks
                 PROVE  /\ task[t].kind \in DOMAIN Recordings!Steps
                        /\ task[t].at \in Recordings!Over \cup Recordings!Steps[task[t].kind]
                        /\ task[t].sid \in Sids \/ task[t] = Recordings!Idle
                        /\ task[t].key \in 0..minted
      OBVIOUS
    <2>1. /\ task[t].kind \in {"none", "play", "store", "local", "provider", "both"}
          /\ task[t].sid \in Sids \/ task[t] = Recordings!Idle
          /\ task[t].key \in 0..minted
      BY DEF RecordingsInv, TaskShape, KeysType
    <2>2. task[t].at \in Recordings!Over \cup Recordings!Steps[task[t].kind]
      BY <1>1, <2>1 DEF RecordingsInv, TaskShape, Recordings!Over
    <2> QED BY <1>1, <2>1, <2>2
  <1> QED BY <1>2 DEF RecordingsInv, KeysType, IndexType, Recordings!TypeOK

(* What the index lists can be played: with first stores and playbacks at  *)
(* one time, a Keychain that fails before or after it acts, and deaths of  *)
(* `serve` between the file and the row, there is one key, and a file and  *)
(* its row part only under a task or at a cut.                             *)
THEOREM RecordingsPlay == Recordings!Spec => []Playable
  <1>1. RecordingsInv => Playable
    BY DEF RecordingsInv, KeysAgree, Playable, Recordings!Playable
  <1> QED BY <1>1, RecordingsInvariant, PTL

(* Nothing deleted comes back: a repeated callback finds its claim, and a  *)
(* deletion finds only what is in the index.                               *)
THEOREM DeletionIsFinal == Recordings!Spec => []DeletedStaysDeleted
  <1>1. RecordingsInv => DeletedStaysDeleted
    BY DEF RecordingsInv, IndexType, StoredOnce, DeletedInOrder, DeletedStaysDeleted,
       Recordings!DeletedStaysDeleted
  <1> QED BY <1>1, RecordingsInvariant, PTL

(* The three side by side, as `serve` has them: each runs or stands still. *)
LEMMA ServeRunsEach == ServeSpec => Spec /\ Agents!Spec /\ Recordings!Spec
  <1>1. ServeInit => Init /\ Agents!Init /\ Recordings!Init
    BY DEF ServeInit
  <1>2. [ServeNext]_<<part, vars, agents, recordings>>
          => [Next]_vars /\ [Agents!Next]_(Agents!vars) /\ [Recordings!Next]_(Recordings!vars)
    BY DEF ServeNext, agents, recordings, Agents!vars, Agents!serve, Agents!platform,
       Recordings!vars, Recordings!index, Recordings!disk
  <1> QED BY <1>1, <1>2, PTL DEF ServeSpec, Spec, Agents!Spec, Recordings!Spec

(* The variables of the agents and of the recordings keep their types.     *)
THEOREM ServeTypes == ServeSpec => []TypesOK
  <1>1. AgentsInv /\ RecordingsInv => TypesOK
    BY RecordingTypesHold DEF AgentsInv, TypesOK
  <1> QED BY <1>1, ServeRunsEach, AgentsInvariant, RecordingsInvariant, PTL
=============================================================================
