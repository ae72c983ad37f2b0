-------------------------- MODULE TunnelSupervisor --------------------------
(***************************************************************************)
(* The cloudflared child of `serve`: spawned with a token that is read     *)
(* from the keychain first, restarted with a backoff when it exits, given  *)
(* up after so many exits, killed with `serve`, and reaped through its     *)
(* pidfile by the next `serve` when this one died without killing it.      *)
(*                                                                         *)
(* Every listener, timer and continuation is one action.  Times are left   *)
(* out (a timer may fire whenever it is set), and so is the delay of a     *)
(* restart.  A child is its pid, and no pid is used twice.  With a         *)
(* credentials file there is no secret to await, which only leaves out     *)
(* what happens meanwhile.                                                 *)
(***************************************************************************)
EXTENDS Naturals, FiniteSets

CONSTANTS
  MaxChildren,  \* bound: children ever spawned
  MaxLives,     \* bound: starts of `serve`
  GiveUpAfter,  \* restart.giveUpAfter
  MissingBinary \* binPath may name nothing

ASSUME TunnelAssumption ==
  /\ MaxChildren \in Nat /\ MaxLives \in Nat
  /\ GiveUpAfter \in Nat \ {0}
  /\ MissingBinary \in BOOLEAN

Children == 1..MaxChildren
None == 0

VARIABLES
  \* the machine
  spawned,      \* children 1..spawned have existed
  alive,        \* those that run
  signalled,    \* those that were sent a signal
  unfiled,      \* history: those whose pidfile was never written
  pidfile,
  lives,        \* starts of `serve` so far
  \* one TunnelSupervisor
  serve,        \* "off", "up", or "crashed" by an error nobody handles
  first,        \* the children before this life's own
  child,        \* this.child
  state,
  restarts,
  fetching,     \* spawnOnce awaits the secret
  timer,        \* a restart is scheduled
  ready,        \* child -> where awaitReady stands
  health,       \* child -> where the health loop begun after it stands
  stop,         \* "no", "grace" or "done"
  gaveUp        \* history: this life logged that it gives up

machine == <<spawned, alive, signalled, unfiled, pidfile, lives>>
probes == <<ready, health>>
memory == <<serve, first, child, state, restarts, fetching, timer, probes, stop,
            gaveUp>>
vars == <<machine, memory>>

-----------------------------------------------------------------------------
Probing == {"asked", "yes", "no"}
Mine == (first + 1)..spawned
Off == [c \in Children |-> "off"]
stopping == stop # "no"

Forget ==
  /\ child' = None /\ restarts' = 0 /\ timer' = FALSE
  /\ ready' = Off /\ health' = Off /\ stop' = "no" /\ gaveUp' = FALSE

Init ==
  /\ spawned = 0 /\ alive = {} /\ signalled = {} /\ unfiled = {}
  /\ pidfile = None /\ lives = 0
  /\ serve = "off" /\ first = 0 /\ child = None /\ state = "disabled"
  /\ restarts = 0 /\ fetching = FALSE /\ timer = FALSE
  /\ ready = Off /\ health = Off /\ stop = "no" /\ gaveUp = FALSE

-----------------------------------------------------------------------------
(* Spawning.                                                               *)

(* The child, its pidfile, and the first probe of awaitReady, which a      *)
(* supervisor that is stopping does not make.                              *)
Spawn ==
  LET c == spawned + 1 IN
  /\ spawned < MaxChildren
  /\ spawned' = c /\ alive' = alive \cup {c} /\ pidfile' = c /\ child' = c
  /\ ready' = IF stopping THEN ready ELSE [ready EXCEPT ![c] = "asked"]

MutReap == signalled
(* reapStaleChild: what the pidfile names is killed if it still runs.      *)
Reap == IF pidfile \in alive THEN signalled \cup {pidfile} ELSE signalled

(* A new `serve`: reapStaleChild, and spawnOnce up to its await.           *)
Start ==
  /\ serve # "up" /\ lives < MaxLives
  /\ lives' = lives + 1 /\ serve' = "up" /\ first' = spawned
  /\ signalled' = Reap
  /\ Forget /\ state' = "starting"
  /\ fetching' = TRUE /\ pidfile' = None
  /\ UNCHANGED <<spawned, alive, unfiled>>

(* The secret is there: the child is spawned.                              *)
SecretResolves ==
  /\ serve = "up" /\ fetching
  /\ fetching' = FALSE
  /\ Spawn
  /\ UNCHANGED <<signalled, unfiled, lives, serve, first, state, restarts, timer,
                 health, stop, gaveUp>>

(* The child runs and its pidfile is not written: `serve` dies in between, *)
(* or writeFileSync throws, which nobody catches (both callers drop the    *)
(* promise of spawnOnce) and which ends `serve`.                           *)
SpawnTorn ==
  LET c == spawned + 1 IN
  /\ serve = "up" /\ fetching /\ spawned < MaxChildren
  /\ spawned' = c /\ alive' = alive \cup {c} /\ unfiled' = unfiled \cup {c}
  /\ serve' \in {"off", "crashed"} /\ fetching' = FALSE
  /\ UNCHANGED <<signalled, pidfile, lives, first, child, state, restarts, timer,
                 probes, stop, gaveUp>>

(* No secret: the supervisor gives up at once.                             *)
SecretMissing ==
  /\ serve = "up" /\ fetching
  /\ fetching' = FALSE /\ state' = "gave_up" /\ gaveUp' = TRUE
  /\ UNCHANGED <<machine, serve, first, child, restarts, timer, probes, stop>>

(* There is nothing at binPath: the child emits an error nobody hears.     *)
SpawnFails ==
  /\ serve = "up" /\ fetching /\ MissingBinary
  /\ serve' = "crashed" /\ fetching' = FALSE
  /\ UNCHANGED <<machine, first, child, state, restarts, timer, probes, stop,
                 gaveUp>>

MutRestartFires ==
  /\ serve = "up" /\ timer
  /\ timer' = FALSE
  /\ IF state = "down" THEN fetching' = TRUE /\ state' = "starting"
     ELSE UNCHANGED <<fetching, state>>
  /\ UNCHANGED <<machine, serve, first, child, restarts, probes, stop, gaveUp>>

RestartFires ==
  /\ serve = "up" /\ timer
  /\ timer' = FALSE /\ fetching' = TRUE /\ state' = "starting"
  /\ UNCHANGED <<machine, serve, first, child, restarts, probes, stop, gaveUp>>

-----------------------------------------------------------------------------
(* The exit of a child.                                                    *)

(* A restart, or none after the last exit the breaker allows.              *)
Restart ==
  /\ restarts' = restarts + 1
  /\ IF restarts + 1 >= GiveUpAfter
     THEN state' = "gave_up" /\ gaveUp' = TRUE /\ UNCHANGED timer
     ELSE state' = "down" /\ timer' = TRUE /\ UNCHANGED gaveUp

(* A child of an earlier life, or of a `serve` that is gone, just ends.    *)
StrayExits(c) ==
  /\ c \in alive /\ (serve # "up" \/ c \notin Mine)
  /\ alive' = alive \ {c}
  /\ UNCHANGED <<spawned, signalled, unfiled, pidfile, lives, memory>>

(* The exit listener; stop(), when it waits for this exit, goes on.        *)
ChildExits(c) ==
  /\ serve = "up" /\ c \in alive /\ c \in Mine
  /\ alive' = alive \ {c}
  /\ child' = None /\ pidfile' = None
  /\ IF stopping
     THEN /\ stop' = "done"
          /\ state' = IF stop = "grace" THEN "stopped" ELSE state
          /\ UNCHANGED <<restarts, timer, gaveUp>>
     ELSE Restart /\ UNCHANGED stop
  /\ UNCHANGED <<spawned, signalled, unfiled, lives, serve, first, fetching, probes>>

-----------------------------------------------------------------------------
(* Probes of /ready.                                                       *)

(* Whoever listens on the metrics port answers.                            *)
ProbeAnswers(c, ok) ==
  /\ serve = "up" /\ (ok => alive # {})
  /\ \/ /\ ready[c] = "asked"
        /\ ready' = [ready EXCEPT ![c] = IF ok THEN "yes" ELSE "no"]
        /\ UNCHANGED health
     \/ /\ health[c] = "asked"
        /\ health' = [health EXCEPT ![c] = IF ok THEN "yes" ELSE "no"]
        /\ UNCHANGED ready
  /\ UNCHANGED <<machine, serve, first, child, state, restarts, fetching,
                 timer, stop, gaveUp>>

(* awaitReady goes on with its answer, or after its sleep.                 *)
AwaitReady(c, late) ==
  /\ serve = "up" /\ ready[c] \in {"yes", "no"}
  /\ IF ready[c] = "yes"
     THEN state' = "ready" /\ ready' = [ready EXCEPT ![c] = "off"]
     ELSE IF late \/ stopping \/ child = None
     THEN /\ state' = IF state = "starting" THEN "down" ELSE state
          /\ ready' = [ready EXCEPT ![c] = "off"]
     ELSE ready' = [ready EXCEPT ![c] = "asked"] /\ UNCHANGED state
  /\ health' = IF ready'[c] = "off" /\ state' = "ready"
               THEN [health EXCEPT ![c] = "idle"] ELSE health
  /\ UNCHANGED <<machine, serve, first, child, restarts, fetching, timer, stop,
                 gaveUp>>

HealthTick(c) ==
  /\ serve = "up" /\ health[c] = "idle"
  /\ health' = [health EXCEPT ![c] = "asked"]
  /\ UNCHANGED <<machine, serve, first, child, state, restarts, fetching,
                 timer, ready, stop, gaveUp>>

HealthApplies(c) ==
  /\ serve = "up" /\ health[c] \in {"yes", "no"}
  /\ health' = [health EXCEPT ![c] = "idle"]
  /\ state' = IF stopping THEN state
              ELSE IF health[c] = "no" /\ state = "ready" THEN "down"
              ELSE IF health[c] = "yes" /\ state = "down" /\ child # None
              THEN "ready" ELSE state
  /\ UNCHANGED <<machine, serve, first, child, restarts, fetching, timer,
                 ready, stop, gaveUp>>

-----------------------------------------------------------------------------
(* stop(), and the end of `serve`.                                         *)

Stop ==
  /\ serve = "up" /\ ~stopping
  /\ timer' = FALSE /\ health' = Off
  /\ IF child = None
     THEN /\ stop' = "done" /\ state' = "stopped" /\ pidfile' = None
          /\ UNCHANGED signalled
     ELSE /\ stop' = "grace" /\ signalled' = signalled \cup {child}
          /\ UNCHANGED <<state, pidfile>>
  /\ UNCHANGED <<spawned, alive, unfiled, lives, serve, first, child, restarts,
                 fetching, ready, gaveUp>>

(* The child outlives its grace: SIGKILL.                                  *)
GraceEnds ==
  /\ serve = "up" /\ stop = "grace"
  /\ alive' = alive \ {child}
  /\ child' = None /\ pidfile' = None
  /\ stop' = "done" /\ state' = "stopped"
  /\ UNCHANGED <<spawned, signalled, unfiled, lives, serve, first, restarts,
                 fetching, timer, probes, gaveUp>>

(* gateway.close has returned: the process exits.                          *)
Exit ==
  /\ serve = "up" /\ stop = "done"
  /\ serve' = "off" /\ fetching' = FALSE
  /\ UNCHANGED <<machine, first, child, state, restarts, timer, probes, stop,
                 gaveUp>>

(* `serve` is killed.  Its child goes on.                                  *)
Crash ==
  /\ serve = "up"
  /\ serve' = "off" /\ fetching' = FALSE
  /\ UNCHANGED <<machine, first, child, state, restarts, timer, probes, stop,
                 gaveUp>>

Next ==
  \/ Start \/ SecretResolves \/ SpawnTorn \/ SecretMissing \/ SpawnFails
  \/ RestartFires
  \/ Stop \/ GraceEnds \/ Exit \/ Crash
  \/ \E c \in Children :
       \/ StrayExits(c) \/ ChildExits(c)
       \/ \E b \in BOOLEAN : ProbeAnswers(c, b) \/ AwaitReady(c, b)
       \/ HealthTick(c) \/ HealthApplies(c)

Spec == Init /\ [][Next]_vars

(* Node fires the restart timer and resumes spawnOnce when the keychain    *)
(* has answered.                                                           *)
Fairness == WF_vars(RestartFires) /\ WF_vars(SecretResolves \/ SecretMissing)
FairSpec == Spec /\ Fairness

-----------------------------------------------------------------------------
(* Every variable has its type.                                            *)
TypeOK ==
  /\ spawned \in 0..MaxChildren /\ first \in 0..spawned
  /\ alive \subseteq 1..spawned /\ signalled \subseteq 1..spawned
  /\ unfiled \subseteq 1..spawned
  /\ pidfile \in 0..spawned /\ child \in 0..spawned
  /\ lives \in 0..MaxLives /\ restarts \in 0..GiveUpAfter
  /\ serve \in {"off", "up", "crashed"}
  /\ state \in {"disabled", "starting", "ready", "down", "gave_up", "stopped"}
  /\ fetching \in BOOLEAN /\ timer \in BOOLEAN
  /\ ready \in [Children -> {"off"} \cup Probing]
  /\ health \in [Children -> {"off", "idle"} \cup Probing]
  /\ stop \in {"no", "grace", "done"} /\ gaveUp \in BOOLEAN

(* Over crashes, restarts and stops, of the children that came into the    *)
(* pidfile all that run but one were sent a signal. Left out are those     *)
(* whose `serve` ended between the spawn and the pidfile: no later one     *)
(* finds them. A child that was sent a signal may take its time.           *)
OneTunnel ==
  \A c, d \in alive \ (signalled \cup unfiled) : c = d

(* "Kill a stale child from a previous serve before spawning a fresh one":  *)
(* what runs beside the children of this life was sent a signal. It fails   *)
(* for a child whose pidfile was not written.                               *)
StaleChildKilled == serve = "up" => alive \ Mine \subseteq signalled

(* One life of `serve` spawns no more than the breaker allows.             *)
CrashLoopBroken == serve = "up" => Cardinality(Mine) <= GiveUpAfter

(* At most one child in the pidfile runs without having been sent a signal, *)
(* and there is no crash loop.                                              *)
ChildrenBounded == OneTunnel /\ CrashLoopBroken

Down == serve = "up" /\ ~stopping /\ child = None
(* A tunnel that is down comes back, or the supervisor has given up,       *)
(* whatever late probes say of its state.                                  *)
TunnelComesBack == Down ~> ~Down \/ gaveUp \/ spawned = MaxChildren
=============================================================================
