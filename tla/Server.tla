------------------------------- MODULE Server -------------------------------
(***************************************************************************)
(* The life of the one server process: configured, started by systemd,     *)
(* serving, drained and replaced by a deployment, with the limits it shows *)
(* and applies while it serves.  How a spin runs against other spins is    *)
(* the subject of MoneyTx: here the bankroll moves by itself.              *)
(***************************************************************************)
EXTENDS Wheel

CONSTANTS
    Envs,           \* the environments the process may be started in
    Reqs,           \* requests in flight
    Bankrolls,      \* what the bankroll may be, in cents
    Stakes,         \* stakes that players ask for
    Draws,          \* values of the entropy source
    Old, New        \* the schema version each of two binaries was built for

EnvRecords ==
    [rtp : Int, demoRTP : Int, rake : Int, referral : Int,
     minStake : Int, maxStake : Int, prod : BOOLEAN, migrateOnBoot : BOOLEAN,
     wellFormed : BOOLEAN]      \* every other variable is there, parses and is allowed

ASSUME EnvsAreTyped      == Envs \subseteq EnvRecords
ASSUME BankrollsAreWords == Bankrolls \subseteq 0..MaxInt64     \* CHECK (bankroll_cents >= 0)
ASSUME StakesAreWords    == Stakes \subseteq (-MaxInt64)..MaxInt64
ASSUME DrawsAreNatural   == Draws \subseteq Nat
ASSUME VersionsGrow      == Old \in Nat /\ New \in Nat /\ Old < New

VARIABLES
    env,            \* the environment file, the same for every start
    installed,      \* the binary in bin/, by its schema version
    schema,         \* the version the database is migrated to
    phase,          \* of the process
    running,        \* the binary the process runs
    deploy,         \* the step deploy.sh is at
    flights,        \* the requests the process is serving
    bankroll,
    shown,          \* the last GET /v1/game/config: its max and the bankroll it read
    answer          \* the last answer to a spin

processVars == <<installed, schema, phase, running, deploy, flights>>
gameVars    == <<bankroll, shown, answer>>
vars        == <<env, processVars, gameVars>>

Booting == {"wheel", "pool", "assert", "redis"}
Phases  == {"down", "serving", "draining"} \cup Booting
Steps   == {"idle", "swapped", "migrated", "restarting", "waiting", "done", "failed"}

NoAnswer == [verdict |-> "none"]
Answer(verdict, stake, isReal, payout, limit) ==
    [verdict |-> verdict, stake |-> stake, isReal |-> isReal, payout |-> payout,
     limit |-> limit, had |-> bankroll]
-----------------------------------------------------------------------------
(* config.Load, and its checks between fields that the game depends on.    *)

\* Mutant: the rake and the commission are not compared with the edge.
LoadsWithoutEdge(e) ==
    /\ e.wellFormed
    /\ {e.rtp, e.demoRTP, e.rake, e.referral} \subseteq 0..BP
    /\ e.minStake > 0 /\ e.maxStake >= e.minStake

Loads(e) ==
    /\ e.wellFormed
    /\ {e.rtp, e.demoRTP, e.rake, e.referral} \subseteq 0..BP
    /\ e.minStake > 0 /\ e.maxStake >= e.minStake
    /\ e.demoRTP >= e.rtp
    /\ e.rake + e.referral <= BP - e.rtp
    /\ e.prod => ~e.migrateOnBoot

Init ==
    /\ env \in Envs
    /\ installed = Old /\ schema = Old /\ running = Old
    /\ phase = "down" /\ deploy = "idle"
    /\ flights = [r \in Reqs |-> "none"]
    /\ bankroll \in Bankrolls
    /\ shown = [max |-> 0, had |-> 0]
    /\ answer = NoAnswer
-----------------------------------------------------------------------------
(* main: run and serve, one step at a time; a step that fails exits, and   *)
(* systemd starts the process again.                                       *)

Exits ==
    /\ phase' = "down"
    /\ flights' = [r \in Reqs |-> "none"]
    /\ UNCHANGED <<env, installed, schema, running, deploy, gameVars>>

Reaches(next) ==
    /\ phase' = next
    /\ UNCHANGED <<env, installed, running, deploy, flights, gameVars>>

Start ==
    /\ phase = "down" /\ deploy # "restarting"
    /\ Loads(env)
    /\ phase' = "wheel"
    /\ running' = installed
    /\ UNCHANGED <<env, installed, schema, deploy, flights, gameVars>>

CheckWheel ==
    /\ phase = "wheel"
    /\ Validate(env.rtp, env.demoRTP) /\ ValidateStakeCeiling(env.maxStake)
    /\ Reaches("pool") /\ UNCHANGED schema

OpenPool ==
    /\ phase = "pool"
    /\ Reaches("assert")
    /\ IF env.migrateOnBoot /\ schema < running
       THEN schema' = running ELSE UNCHANGED schema

\* Mutant: the schema is not looked at.
AssertNothing ==
    /\ phase = "assert"
    /\ Reaches("redis") /\ UNCHANGED schema

AssertCurrent ==
    /\ phase = "assert"
    /\ schema >= running
    /\ Reaches("redis") /\ UNCHANGED schema

OpenRedis ==
    /\ phase = "redis"
    /\ Reaches("serving") /\ UNCHANGED schema

\* A check that fails, a database or Redis out of reach, a panic, a kill -9.
Dies == phase # "down" /\ Exits

(* SIGTERM ends the context every request was given as its base: the       *)
(* requests in flight are cancelled, then the listener is closed.          *)
Terminate ==
    /\ phase = "serving" /\ deploy = "restarting"
    /\ phase' = "draining"
    /\ flights' = [r \in Reqs |-> IF flights[r] = "none" THEN "none" ELSE "cancelled"]
    /\ UNCHANGED <<env, installed, schema, running, deploy, gameVars>>

\* Mutant: Shutdown waits for its requests, however long they take.
DrainsForEver ==
    /\ phase = "draining"
    /\ \A r \in Reqs : flights[r] = "none"
    /\ Exits

\* All requests have ended, or fifteen seconds have passed.
Drained == phase = "draining" /\ Exits

Boots == Start \/ CheckWheel \/ OpenPool \/ AssertCurrent \/ OpenRedis
-----------------------------------------------------------------------------
(* Requests. *)

Arrive(r) ==
    /\ phase = "serving" /\ flights[r] = "none"
    /\ flights' = [flights EXCEPT ![r] = "running"]
    /\ UNCHANGED <<env, installed, schema, phase, running, deploy, gameVars>>

Ends(r) ==
    /\ flights' = [flights EXCEPT ![r] = "none"]
    /\ UNCHANGED <<env, installed, schema, phase, running, deploy, bankroll>>

\* A cancelled request, or one whose time is up, is answered 500.
Fails(r) ==
    /\ flights[r] # "none"
    /\ Ends(r) /\ UNCHANGED <<shown, answer>>

Lesser(a, b) == IF b < a THEN b ELSE a

Config(r) ==
    /\ flights[r] = "running"
    /\ shown' = [max |-> Lesser(env.maxStake, MaxAffordableStake(bankroll)), had |-> bankroll]
    /\ Ends(r) /\ UNCHANGED answer

\* Mutant: the bankroll must exceed the worst case.
AdmittedStrictly(stake) == bankroll > MaxExposure(stake)

\* The veto of a stake whose worst case the bankroll could not pay.
Admitted(stake) == bankroll >= MaxExposure(stake)

Played(stake, isReal, draw) ==
    LET table == TableFor(isReal)
    IN {Answer("played", stake, isReal, Payout(stake, table[i].mult), 0) :
            i \in PickFrom(table, draw)}

\* Service.Spin: the limits, in their order, and the draw.
Outcomes(stake, isReal, draw) ==
    IF stake < env.minStake THEN {Answer("too_small", stake, isReal, 0, env.minStake)}
    ELSE IF stake > env.maxStake THEN {Answer("too_large", stake, isReal, 0, env.maxStake)}
    ELSE IF isReal /\ ~Admitted(stake)
         THEN {Answer("exceeds_bank", stake, isReal, 0, MaxAffordableStake(bankroll))}
    ELSE Played(stake, isReal, draw)

Spin(r, stake, isReal, draw) ==
    /\ flights[r] = "running"
    /\ answer' \in Outcomes(stake, isReal, draw)
    /\ Ends(r) /\ UNCHANGED shown

\* Rounds settle and the house is funded.
BankrollMoves ==
    /\ \E b \in Bankrolls : bankroll' = b
    /\ UNCHANGED <<env, processVars, shown, answer>>

Serve ==
    \/ \E r \in Reqs :
          \/ Arrive(r) \/ Fails(r) \/ Config(r)
          \/ \E stake \in Stakes, isReal \in BOOLEAN, draw \in Draws :
                Spin(r, stake, isReal, draw)
    \/ BankrollMoves
-----------------------------------------------------------------------------
(* deploy.sh, on the server. *)

DeployGoes(from, to) ==
    /\ deploy = from
    /\ deploy' = to
    /\ UNCHANGED <<env, phase, running, flights, gameVars>>

Swap == DeployGoes("idle", "swapped") /\ installed' = New /\ UNCHANGED schema

MigrateUp ==
    /\ Loads(env)
    /\ DeployGoes("swapped", "migrated") /\ schema' = installed /\ UNCHANGED installed

\* Set -e: a migration that fails ends the script.
MigrationFails == DeployGoes("swapped", "failed") /\ UNCHANGED <<installed, schema>>

\* systemctl restart stops the process, waits for it, and starts the new binary.
Stop == DeployGoes("migrated", "restarting") /\ UNCHANGED <<installed, schema>>

\* Mutant: the script does not wait for the process to stop.
StoppedAtOnce == DeployGoes("restarting", "waiting") /\ UNCHANGED <<installed, schema>>

Stopped ==
    /\ phase = "down"
    /\ DeployGoes("restarting", "waiting") /\ UNCHANGED <<installed, schema>>

\* A process that is still booting has no listener to drain.
Interrupt == phase \in Booting /\ deploy = "restarting" /\ Exits

Healthy ==
    /\ phase = "serving"
    /\ DeployGoes("waiting", "done") /\ UNCHANGED <<installed, schema>>

\* Thirty polls of /healthz.
GivesUp == DeployGoes("waiting", "failed") /\ UNCHANGED <<installed, schema>>

Deploys == Swap \/ MigrateUp \/ MigrationFails \/ Stop \/ Stopped \/ Interrupt \/ Healthy \/ GivesUp

Next == Boots \/ Dies \/ Terminate \/ Drained \/ Serve \/ Deploys

(* The script runs on, systemd and the signal do their part, and draining  *)
(* has a time limit; no request is assumed to end.                         *)
Fairness ==
    /\ WF_vars(Terminate) /\ WF_vars(Drained) /\ WF_vars(Interrupt)
    /\ WF_vars(MigrateUp \/ MigrationFails) /\ WF_vars(Stop) /\ WF_vars(Stopped)
    /\ WF_vars(Healthy \/ GivesUp)

Spec == Init /\ [][Next]_vars /\ Fairness
-----------------------------------------------------------------------------
ServerTypeOK ==
    /\ env \in Envs
    /\ {installed, schema, running} \subseteq {Old, New}
    /\ phase \in Phases /\ deploy \in Steps
    /\ flights \in [Reqs -> {"none", "running", "cancelled"}]
    /\ bankroll \in Bankrolls
    /\ shown \in [max : 0..MaxInt64, had : Bankrolls \cup {0}]
    /\ answer # NoAnswer =>
          /\ answer.stake \in Stakes /\ answer.had \in Bankrolls
          /\ answer.payout \in 0..MaxInt64 /\ answer.limit \in 0..MaxInt64

(* What is paid is the truncated product itself, never what is left of it  *)
(* after an overflow, and on a real round the bankroll could pay it.       *)
ExactPayouts ==
    answer.verdict = "played" =>
        /\ \E i \in DOMAIN RealWheel :
              answer.payout = (answer.stake * RealWheel[i].mult) \div BP
        /\ answer.isReal => answer.payout <= answer.had

(* GET /game/config promises no bet the server refuses: up to the maximum  *)
(* it showed, a real stake is not refused for the bankroll while that is   *)
(* no smaller, and neither is the limit that a refusal names.              *)
PromisesKept ==
    answer.verdict \in {"too_large", "exceeds_bank"} =>
        /\ answer.isReal /\ answer.stake <= shown.max => answer.had < shown.had
        /\ answer.limit < answer.stake
        /\ answer.verdict = "exceeds_bank" =>
              \A i \in DOMAIN RealWheel :
                 (answer.limit * RealWheel[i].mult) \div BP <= answer.had

(* A server that serves keeps its edge: over the draws of its wheel a real *)
(* round of any stake it takes pays out, with rake and commission, no more *)
(* than was staked.                                                        *)
HouseKeepsItsEdge ==
    phase = "serving" =>
        \A stake \in Stakes \cap env.minStake..env.maxStake :
            Total([i \in DOMAIN RealWheel |->
                       RealWheel[i].weight * Payout(stake, RealWheel[i].mult)])
              + BP * (Payout(stake, env.rake) + Payout(stake, env.referral))
            <= BP * stake

(* No process serves on a schema older than the one it was built for,      *)
(* wherever a deployment was interrupted and whoever restarted it.         *)
SchemaKeepsUp == phase = "serving" => schema >= running

(* What answers when a deployment has found the server healthy is the new  *)
(* binary on the new schema.                                               *)
DeployedIsRunning ==
    deploy = "done" /\ phase = "serving" => running = New /\ schema = New

(* A deployment ends, whatever its requests and its processes do.          *)
DeploymentEnds == (deploy # "idle") ~> (deploy \in {"done", "failed"})
=============================================================================
