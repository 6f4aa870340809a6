---------------------------- MODULE ServerProofs ----------------------------
(***************************************************************************)
(* Proofs about Wheel and Server, for every size of the machine word,      *)
(* every table and every environment.  The argument about the money: a     *)
(* process that has passed its start-up checks has a ceiling on stakes     *)
(* under which no product wraps, and then the bankroll a stake needs and   *)
(* the stake a bankroll affords undo each other.                           *)
(***************************************************************************)
EXTENDS Server, SequenceTheorems, NaturalsInduction, WellFoundedInduction, TLAPS

-----------------------------------------------------------------------------
(* Arithmetic. *)

(* What division by a positive number leaves.                              *)
LEMMA Quotients ==
    ASSUME NEW a \in Nat, NEW b \in Nat, b > 0
    PROVE  /\ a \div b \in Nat
           /\ (a \div b) * b <= a
           /\ a < (a \div b) * b + b
OBVIOUS

(* Multiplication is monotone.                                             *)
LEMMA ProductsGrow ==
    ASSUME NEW a \in Nat, NEW b \in Nat, NEW c \in Nat, NEW d \in Nat, a <= b, c <= d
    PROVE  /\ a * c \in Nat
           /\ a * c <= b * d
<1>1. a * c <= b * c OBVIOUS
<1>2. b * c <= b * d OBVIOUS
<1> QED BY <1>1, <1>2

(* A quotient is bounded as its dividend is.                               *)
LEMMA QuotientsBounded ==
    ASSUME NEW a \in Nat, NEW b \in Nat, NEW c \in Nat, b > 0, a <= c * b
    PROVE  a \div b <= c
BY Quotients

(* What fits a word is left as it is.                                      *)
LEMMA WordsDoNotWrap ==
    ASSUME NEW n \in 0..MaxInt64
    PROVE  Wrap(n) = n
BY WordIsPositive DEF Wrap
-----------------------------------------------------------------------------
(* The wheel. *)

(* The top multiplier is one of the table, none is larger, and it pays at  *)
(* least the stake.                                                        *)
LEMMA TopIsOnTheWheel ==
    /\ MaxMultBP \in Nat /\ MaxMultBP >= BP
    /\ \A i \in DOMAIN RealWheel :
          RealWheel[i].mult \in Nat /\ RealWheel[i].mult <= MaxMultBP
<1>1. \A i \in DOMAIN RealWheel : RealWheel[i] \in [mult : Nat, weight : Nat]
  BY TablesAreTyped, ElementOfSeq, LenProperties DEF Tables
<1>2. \A i \in DOMAIN RealWheel : RealWheel[i].mult \in Nat
  BY <1>1
<1>3. /\ TopSegment \in DOMAIN RealWheel
      /\ \A j \in DOMAIN RealWheel : RealWheel[j].mult <= RealWheel[TopSegment].mult
  BY TopPaysMoreThan1x DEF TopSegment
<1>4. PICK i \in DOMAIN RealWheel : RealWheel[i].mult >= BP
  BY TopPaysMoreThan1x
<1> QED
  BY <1>2, <1>3, <1>4, WordIsPositive DEF MaxMultBP

(* Stakes up to MaxSafeStake can be multiplied.                            *)
LEMMA SafeStakes ==
    /\ MaxSafeStake \in Nat
    /\ MaxSafeStake * MaxMultBP <= MaxInt64
    /\ MaxSafeStake <= MaxInt64
<1>1. /\ MaxMultBP \in Nat /\ MaxMultBP > 0 /\ MaxInt64 \in Nat
  BY TopIsOnTheWheel, WordIsPositive
<1>2. MaxSafeStake \in Nat /\ MaxSafeStake * MaxMultBP <= MaxInt64
  BY <1>1, Quotients DEF MaxSafeStake
<1>3. MaxSafeStake * 1 <= MaxSafeStake * MaxMultBP
  BY <1>1, <1>2, ProductsGrow
<1> QED
  BY <1>1, <1>2, <1>3

(* A payout of a safe stake is the truncated product itself.               *)
LEMMA PayoutsAreExact ==
    ASSUME NEW stake \in 0..MaxSafeStake, NEW mult \in 0..MaxMultBP
    PROVE  /\ Payout(stake, mult) = (stake * mult) \div BP
           /\ Payout(stake, mult) \in 0..MaxInt64
<1>1. /\ stake \in Nat /\ mult \in Nat /\ MaxMultBP \in Nat /\ MaxSafeStake \in Nat
      /\ BP \in Nat /\ BP > 0 /\ MaxInt64 \in Nat
      /\ stake <= MaxSafeStake /\ mult <= MaxMultBP
  BY TopIsOnTheWheel, SafeStakes, WordIsPositive
<1>2. stake * mult \in Nat /\ stake * mult <= MaxSafeStake * MaxMultBP
  BY <1>1, ProductsGrow
<1>3. stake * mult \in 0..MaxInt64
  BY <1>1, <1>2, SafeStakes
<1>4. Payout(stake, mult) = (stake * mult) \div BP
  BY <1>1, <1>2, <1>3, WordsDoNotWrap DEF Payout, Quotient
<1>5. (stake * mult) \div BP \in Nat /\ ((stake * mult) \div BP) * BP <= stake * mult
  BY <1>1, <1>2, Quotients
<1>6. ((stake * mult) \div BP) * 1 <= ((stake * mult) \div BP) * BP
  BY <1>1, <1>5, ProductsGrow
<1> QED
  BY <1>1, <1>3, <1>4, <1>5, <1>6

(* Payouts grow with the stake and the multiplier.                         *)
LEMMA PayoutsGrow ==
    ASSUME NEW stake \in 0..MaxSafeStake, NEW more \in 0..MaxSafeStake, stake <= more,
           NEW mult \in 0..MaxMultBP, NEW higher \in 0..MaxMultBP, mult <= higher
    PROVE  Payout(stake, mult) <= Payout(more, higher)
<1>1. /\ stake \in Nat /\ more \in Nat /\ mult \in Nat /\ higher \in Nat
      /\ BP \in Nat /\ BP > 0
  BY TopIsOnTheWheel, SafeStakes, WordIsPositive
<1>2. /\ stake * mult \in Nat /\ more * higher \in Nat
      /\ stake * mult <= more * higher
  BY <1>1, ProductsGrow
<1>3. (stake * mult) \div BP <= (more * higher) \div BP
  BY <1>1, <1>2
<1> QED
  BY <1>3, PayoutsAreExact

(* The exposure of a safe stake is the payout at the top.                  *)
LEMMA ExposuresAreExact ==
    ASSUME NEW stake \in 0..MaxSafeStake
    PROVE  /\ MaxExposure(stake) = Payout(stake, MaxMultBP)
           /\ MaxExposure(stake) = (stake * MaxMultBP) \div BP
           /\ MaxExposure(stake) \in 0..MaxInt64
<1>1. MaxMultBP \in 0..MaxMultBP /\ stake \in Nat /\ ~(stake > MaxSafeStake)
  BY TopIsOnTheWheel, SafeStakes
<1> QED
  BY <1>1, PayoutsAreExact DEF MaxExposure

(* Neither branch of the affordable stake wraps, and its product with the  *)
(* top multiplier stays below the bankroll's with 1x.                      *)
LEMMA AffordableIsCovered ==
    ASSUME NEW money \in 1..MaxInt64
    PROVE  /\ Affordable(money) \in Nat
           /\ Affordable(money) * MaxMultBP <= money * BP
<1>1. /\ money \in Nat /\ MaxInt64 \in Nat /\ money <= MaxInt64
      /\ BP \in Nat /\ BP > 0 /\ MaxMultBP \in Nat /\ MaxMultBP >= BP
  BY TopIsOnTheWheel, WordIsPositive
<1>2. CASE money > MaxInt64 \div BP
  <2> DEFINE q == money \div MaxMultBP
  <2>1. q \in Nat /\ q * MaxMultBP <= money
    BY <1>1, Quotients
  <2> HIDE DEF q
  <2>2. q * BP \in Nat /\ q * BP <= q * MaxMultBP
    BY <1>1, <2>1, ProductsGrow
  <2>3. q * BP \in 0..MaxInt64
    BY <1>1, <2>1, <2>2
  <2>4. Affordable(money) = q * BP
    BY <1>2, <2>3, WordsDoNotWrap DEF Affordable, q
  <2>5. (q * BP) * MaxMultBP = (q * MaxMultBP) * BP
    BY <1>1, <2>1
  <2>6. (q * MaxMultBP) * BP <= money * BP
    BY <1>1, <2>1, ProductsGrow
  <2> QED
    BY <2>2, <2>4, <2>5, <2>6
<1>3. CASE ~(money > MaxInt64 \div BP)
  <2>1. /\ MaxInt64 \div BP \in Nat /\ (MaxInt64 \div BP) * BP <= MaxInt64
    BY <1>1, Quotients
  <2>2. /\ money * BP \in Nat /\ money * BP <= (MaxInt64 \div BP) * BP
    BY <1>1, <1>3, <2>1, ProductsGrow
  <2>3. money * BP \in 0..MaxInt64
    BY <1>1, <2>1, <2>2
  <2>4. Affordable(money) = (money * BP) \div MaxMultBP
    BY <1>1, <1>3, <2>2, <2>3, WordsDoNotWrap DEF Affordable, Quotient
  <2> QED
    BY <1>1, <2>2, <2>4, Quotients
<1> QED
  BY <1>2, <1>3

(* The stake a bankroll is said to afford is safe, and the bankroll covers *)
(* its worst case.                                                         *)
THEOREM AffordableStakesAreCovered ==
    ASSUME NEW money \in 0..MaxInt64
    PROVE  /\ MaxAffordableStake(money) \in 0..MaxSafeStake
           /\ MaxExposure(MaxAffordableStake(money)) <= money
<1>1. /\ money \in Nat /\ BP \in Nat /\ BP > 0
      /\ MaxMultBP \in Nat /\ MaxSafeStake \in Nat
  BY TopIsOnTheWheel, SafeStakes, WordIsPositive
<1>2. CASE money = 0
  <2>1. MaxAffordableStake(money) = 0
    BY <1>2 DEF MaxAffordableStake
  <2>2. 0 \in 0..MaxSafeStake /\ 0 * MaxMultBP = 0 /\ 0 \div BP = 0
    BY <1>1
  <2> QED
    BY <1>2, <2>1, <2>2, ExposuresAreExact
<1>3. CASE money # 0
  <2> DEFINE s == MaxAffordableStake(money)
  <2>1. money \in 1..MaxInt64
    BY <1>3
  <2>2. /\ s \in 0..MaxSafeStake /\ s <= Affordable(money) /\ Affordable(money) \in Nat
    BY <1>1, <2>1, AffordableIsCovered DEF MaxAffordableStake
  <2> HIDE DEF s
  <2>3. s \in Nat /\ s * MaxMultBP \in Nat
        /\ s * MaxMultBP <= Affordable(money) * MaxMultBP
    BY <1>1, <2>2, ProductsGrow
  <2>4. money * BP \in Nat /\ Affordable(money) * MaxMultBP \in Nat
        /\ Affordable(money) * MaxMultBP <= money * BP
    BY <1>1, <2>1, <2>2, AffordableIsCovered
  <2>5. (s * MaxMultBP) \div BP <= money
    BY <1>1, <2>3, <2>4, QuotientsBounded
  <2>6. MaxExposure(s) <= money
    BY <2>2, <2>5, ExposuresAreExact
  <2> QED
    BY <2>2, <2>6 DEF s
<1> QED
  BY <1>2, <1>3
-----------------------------------------------------------------------------
(* The process. *)

\* What a process that got past CheckWheel knows of its environment.
Checked ==
    /\ Loads(env) /\ Validate(env.rtp, env.demoRTP)
    /\ ValidateStakeCeiling(env.maxStake)

Typed ==
    /\ env \in Envs
    /\ installed \in {Old, New} /\ schema \in {Old, New} /\ running \in {Old, New}
    /\ phase \in Phases /\ deploy \in Steps
    /\ flights \in [Reqs -> {"none", "running", "cancelled"}]
    /\ bankroll \in Bankrolls

StartsChecked ==
    /\ phase # "down" => Loads(env)
    /\ phase \notin {"down", "wheel"} => Checked
    /\ phase \notin {"serving", "draining"} => \A r \in Reqs : flights[r] = "none"

ShownSound ==
    /\ shown \in [max : 0..MaxSafeStake, had : Bankrolls \cup {0}]
    /\ MaxExposure(shown.max) <= shown.had
    /\ shown.max > 0 => shown.max <= env.maxStake

PlayedSound(a) ==
    /\ \E i \in DOMAIN RealWheel : a.payout = (a.stake * RealWheel[i].mult) \div BP
    /\ a.isReal => a.payout <= a.had

AnswerRecords ==
    [verdict : {"too_small", "too_large", "exceeds_bank", "played"}, stake : Stakes,
     isReal : BOOLEAN, payout : 0..MaxInt64, limit : 0..MaxInt64, had : Bankrolls]

AnswerSound(a) ==
    /\ a \in AnswerRecords
    /\ a.verdict = "played" => PlayedSound(a)
    /\ a.verdict = "too_large" => /\ a.limit = env.maxStake /\ env.maxStake > 0
                                 /\ a.stake > env.maxStake
    /\ a.verdict = "exceeds_bank" => /\ a.isReal /\ a.stake \in 0..MaxSafeStake
                                    /\ a.had < MaxExposure(a.stake)
                                    /\ a.limit = MaxAffordableStake(a.had)

VersionsSound ==
    /\ deploy # "idle" => installed = New
    /\ deploy \in {"migrated", "restarting", "waiting", "done"} => schema = New
    /\ phase \in {"redis", "serving", "draining"} => schema >= running
    /\ deploy \in {"waiting", "done"} /\ phase # "down" => running = New

ServerInv ==
    /\ Typed /\ StartsChecked /\ VersionsSound
    /\ ShownSound
    /\ answer = NoAnswer \/ AnswerSound(answer)

(* A server starts with nothing shown and nothing answered.                *)
LEMMA ServerStarts == Init => ServerInv
<1> SUFFICES ASSUME Init PROVE ServerInv
  OBVIOUS
<1>1. Typed /\ StartsChecked /\ VersionsSound
  BY VersionsGrow DEF Init, Typed, StartsChecked, VersionsSound, Phases, Steps
<1>2. 0 \in 0..MaxSafeStake /\ 0 * MaxMultBP = 0 /\ 0 \div BP = 0
  BY SafeStakes, TopIsOnTheWheel, WordIsPositive
<1>3. ShownSound
  BY <1>2, ExposuresAreExact DEF Init, ShownSound
<1> QED
  BY <1>1, <1>3 DEF Init, ServerInv

(* The environment does not change under a process.                        *)
LEMMA CheckedStays ==
    ASSUME UNCHANGED env
    PROVE  (Checked <=> Checked') /\ (Loads(env) <=> Loads(env)')
BY DEF Checked, Loads

(* The steps of the process keep versions and checks in order, and leave   *)
(* the game alone.                                                         *)
LEMMA ProcessKeepsOrder ==
    ASSUME ServerInv, Boots \/ Dies \/ Terminate \/ Drained \/ Interrupt
    PROVE  Typed' /\ StartsChecked' /\ VersionsSound' /\ UNCHANGED <<env, shown, answer>>
<1> USE VersionsGrow DEF ServerInv, Typed, StartsChecked, VersionsSound, gameVars
<1>0. env' = env /\ (Checked <=> Checked') /\ (Loads(env) <=> Loads(env)')
  BY CheckedStays DEF Boots, Start, CheckWheel, OpenPool, AssertCurrent, OpenRedis, Dies,
     Terminate, Drained, Interrupt, Reaches, Exits
<1>1. CASE Start
  BY <1>0, <1>1 DEF Start, Phases, Booting, Steps
<1>2. CASE CheckWheel
  BY <1>0, <1>2 DEF CheckWheel, Reaches, Phases, Booting, Checked
<1>3. CASE OpenPool
  BY <1>0, <1>3 DEF OpenPool, Reaches, Phases, Booting
<1>4. CASE AssertCurrent
  BY <1>0, <1>4 DEF AssertCurrent, Reaches, Phases, Booting
<1>5. CASE OpenRedis
  BY <1>0, <1>5 DEF OpenRedis, Reaches, Phases, Booting
<1>6. CASE Terminate
  BY <1>0, <1>6 DEF Terminate, Phases, Booting
<1>7. CASE Exits
  BY <1>0, <1>7 DEF Exits, Phases, Booting
<1> QED
  BY <1>1, <1>2, <1>3, <1>4, <1>5, <1>6, <1>7 DEF Boots, Dies, Drained, Interrupt

(* So do the steps of a deployment.                                        *)
LEMMA DeploymentKeepsOrder ==
    ASSUME ServerInv, Deploys, ~Interrupt
    PROVE  Typed' /\ StartsChecked' /\ VersionsSound' /\ UNCHANGED <<env, shown, answer>>
<1> USE VersionsGrow DEF ServerInv, Typed, StartsChecked, VersionsSound, gameVars, DeployGoes, Steps
<1>0. env' = env /\ (Checked <=> Checked') /\ (Loads(env) <=> Loads(env)')
  BY CheckedStays DEF Deploys, Swap, MigrateUp, MigrationFails, Stop, Stopped, Healthy, GivesUp
<1>1. CASE Swap
  BY <1>0, <1>1 DEF Swap
<1>2. CASE MigrateUp
  BY <1>0, <1>2 DEF MigrateUp
<1>3. CASE MigrationFails
  BY <1>0, <1>3 DEF MigrationFails
<1>4. CASE Stop
  BY <1>0, <1>4 DEF Stop
<1>5. CASE Stopped
  BY <1>0, <1>5 DEF Stopped
<1>6. CASE Healthy
  BY <1>0, <1>6 DEF Healthy
<1>7. CASE GivesUp
  BY <1>0, <1>7 DEF GivesUp
<1> QED
  BY <1>1, <1>2, <1>3, <1>4, <1>5, <1>6, <1>7 DEF Deploys

(* Requests do not disturb it either, and no answer is given on an         *)
(* unchecked environment.                                                  *)
LEMMA RequestsKeepOrder ==
    ASSUME ServerInv, Serve
    PROVE  Typed' /\ StartsChecked' /\ VersionsSound' /\ UNCHANGED env
<1> USE DEF ServerInv, Typed, StartsChecked, VersionsSound
<1>1. CASE BankrollMoves
  <2>1. UNCHANGED <<env, installed, schema, phase, running, deploy, flights>>
    BY <1>1 DEF BankrollMoves, processVars
  <2> QED
    BY <1>1, <2>1, CheckedStays DEF BankrollMoves
<1>2. CASE \E r \in Reqs : Arrive(r)
  <2>1. (Checked <=> Checked') /\ (Loads(env) <=> Loads(env)')
    BY <1>2, CheckedStays DEF Arrive
  <2> QED
    BY <1>2, <2>1 DEF Arrive, gameVars
<1>3. CASE \E r \in Reqs : flights[r] # "none" /\ Ends(r)
  <2>1. (Checked <=> Checked') /\ (Loads(env) <=> Loads(env)')
    BY <1>3, CheckedStays DEF Ends
  <2> QED
    BY <1>3, <2>1 DEF Ends
<1>4. (\E r \in Reqs : Arrive(r)) \/ (\E r \in Reqs : flights[r] # "none" /\ Ends(r))
        \/ BankrollMoves
  BY DEF Serve, Fails, Config, Spin
<1> QED
  BY <1>1, <1>2, <1>3, <1>4 DEF BankrollMoves, Arrive, Ends, processVars

(* What Config and Spin know of the limits.                                *)
LEMMA LimitsAreSafe ==
    ASSUME ServerInv, NEW r \in Reqs, flights[r] = "running"
    PROVE  /\ Checked
           /\ env.minStake \in Int /\ env.minStake > 0
           /\ env.maxStake \in 1..MaxSafeStake
           /\ bankroll \in Bankrolls /\ bankroll \in 0..MaxInt64
<1>1. Checked
  BY DEF ServerInv, StartsChecked
<1>2. env \in EnvRecords
  BY EnvsAreTyped DEF ServerInv, Typed
<1> QED
  BY <1>1, <1>2, SafeStakes, BankrollsAreWords
  DEF Checked, Loads, ValidateStakeCeiling, EnvRecords, ServerInv, Typed

(* The maximum that is shown is one the bankroll it was read from covers.  *)
LEMMA ConfigShowsSound ==
    ASSUME ServerInv, NEW r \in Reqs, Config(r)
    PROVE  ShownSound'
<1> DEFINE m == MaxAffordableStake(bankroll)
           l == Lesser(env.maxStake, m)
<1>1. /\ env.maxStake \in 1..MaxSafeStake /\ MaxSafeStake \in Nat
      /\ bankroll \in Bankrolls /\ bankroll \in 0..MaxInt64
  BY LimitsAreSafe, SafeStakes DEF Config
<1>2. m \in 0..MaxSafeStake /\ MaxExposure(m) <= bankroll
  BY <1>1, AffordableStakesAreCovered
<1> HIDE DEF m
<1>3. l \in 0..MaxSafeStake /\ l <= m /\ l <= env.maxStake
  BY <1>1, <1>2 DEF Lesser
<1> HIDE DEF l
<1>4. MaxExposure(l) <= MaxExposure(m)
  <2>1. MaxMultBP \in 0..MaxMultBP
    BY TopIsOnTheWheel
  <2> QED
    BY <1>1, <1>2, <1>3, <2>1, PayoutsGrow, ExposuresAreExact
<1>5. /\ MaxExposure(l) \in Int /\ MaxExposure(m) \in Int /\ bankroll \in Int
  BY <1>1, <1>2, <1>3, ExposuresAreExact, WordIsPositive
<1>6. shown' = [max |-> l, had |-> bankroll] /\ env' = env
  BY DEF Config, Ends, l, m
<1> QED
  BY <1>1, <1>2, <1>3, <1>4, <1>5, <1>6 DEF ShownSound

(* What a table of the wheel pays on a safe stake.                         *)
LEMMA PlaysAreSound ==
    ASSUME Checked, NEW stake \in Stakes, NEW isReal \in BOOLEAN, NEW draw \in Draws,
           stake \in 0..MaxSafeStake, bankroll \in Bankrolls, bankroll \in 0..MaxInt64,
           isReal => Admitted(stake), NEW a \in Played(stake, isReal, draw)
    PROVE  a \in AnswerRecords /\ a.verdict = "played" /\ PlayedSound(a)
<1> DEFINE table == TableFor(isReal)
<1>1. PICK i \in DOMAIN table :
         a = Answer("played", stake, isReal, Payout(stake, table[i].mult), 0)
  BY DEF Played, PickFrom
<1>2. i \in DOMAIN RealWheel /\ table[i].mult = RealWheel[i].mult
  <2>1. /\ Len(RealWheel) = Slots /\ Len(DemoWheel) = Slots
        /\ \A j \in DOMAIN RealWheel : RealWheel[j].mult = DemoWheel[j].mult
    BY DEF Checked, Validate, SameMultipliers
  <2>2. DOMAIN RealWheel = DOMAIN DemoWheel
    BY <2>1, TablesAreTyped, LenProperties DEF Tables
  <2> QED
    BY <1>1, <2>1, <2>2 DEF TableFor
<1> DEFINE mult == RealWheel[i].mult
<1>3. mult \in 0..MaxMultBP /\ MaxMultBP \in 0..MaxMultBP
  BY <1>2, TopIsOnTheWheel
<1>4. /\ Payout(stake, mult) = (stake * mult) \div BP
      /\ Payout(stake, mult) \in 0..MaxInt64
  BY <1>3, PayoutsAreExact
<1>5. isReal => Payout(stake, mult) <= bankroll
  <2>1. stake <= stake /\ mult <= MaxMultBP
    BY <1>3, SafeStakes
  <2>2. Payout(stake, mult) <= Payout(stake, MaxMultBP)
    BY <1>3, <2>1, PayoutsGrow
  <2>3. isReal => bankroll >= Payout(stake, MaxMultBP)
    BY ExposuresAreExact DEF Admitted
  <2>4. Payout(stake, MaxMultBP) \in Int
    BY <1>3, PayoutsAreExact
  <2> QED
    BY <1>4, <2>2, <2>3, <2>4
<1>6. a = [verdict |-> "played", stake |-> stake, isReal |-> isReal,
           payout |-> Payout(stake, mult), limit |-> 0, had |-> bankroll]
  BY <1>1, <1>2 DEF Answer
<1>7. 0 \in 0..MaxInt64
  BY WordIsPositive
<1> HIDE DEF mult
<1>8. a \in AnswerRecords
  BY <1>4, <1>6, <1>7 DEF AnswerRecords
<1>9. \E k \in DOMAIN RealWheel : a.payout = (a.stake * RealWheel[k].mult) \div BP
  BY <1>2, <1>4, <1>6 DEF mult
<1> QED
  BY <1>5, <1>6, <1>8, <1>9 DEF PlayedSound

(* Every answer that Spin gives is sound.                                  *)
LEMMA SpinAnswersSoundly ==
    ASSUME ServerInv, NEW r \in Reqs, NEW stake \in Stakes, NEW isReal \in BOOLEAN,
           NEW draw \in Draws, Spin(r, stake, isReal, draw)
    PROVE  AnswerSound(answer')
<1> DEFINE a == answer'
<1>1. /\ Checked /\ env.minStake \in Int /\ env.minStake > 0
      /\ env.maxStake \in 1..MaxSafeStake
      /\ bankroll \in Bankrolls /\ bankroll \in 0..MaxInt64
      /\ MaxSafeStake \in Nat /\ MaxInt64 \in Nat /\ MaxSafeStake <= MaxInt64
      /\ stake \in Int
  BY LimitsAreSafe, SafeStakes, WordIsPositive, StakesAreWords DEF Spin
<1>2. a \in Outcomes(stake, isReal, draw)
  BY DEF Spin
<1>3. env.minStake <= env.maxStake
  BY <1>1 DEF Checked, Loads
<1>4. CASE stake < env.minStake
  <2>1. a = [verdict |-> "too_small", stake |-> stake, isReal |-> isReal, payout |-> 0,
             limit |-> env.minStake, had |-> bankroll]
    BY <1>2, <1>4 DEF Outcomes, Answer
  <2>2. env.minStake \in 0..MaxInt64 /\ 0 \in 0..MaxInt64
    BY <1>1, <1>3
  <2> QED
    BY <1>1, <2>1, <2>2 DEF AnswerSound, AnswerRecords
<1>5. CASE ~(stake < env.minStake) /\ stake > env.maxStake
  <2>1. a = [verdict |-> "too_large", stake |-> stake, isReal |-> isReal, payout |-> 0,
             limit |-> env.maxStake, had |-> bankroll]
    BY <1>2, <1>5 DEF Outcomes, Answer
  <2>2. env.maxStake \in 0..MaxInt64 /\ 0 \in 0..MaxInt64
    BY <1>1
  <2> QED
    BY <1>1, <1>5, <2>1, <2>2 DEF AnswerSound, AnswerRecords
<1>6. CASE stake >= env.minStake /\ stake <= env.maxStake /\ isReal /\ ~Admitted(stake)
  <2>1. a = [verdict |-> "exceeds_bank", stake |-> stake, isReal |-> isReal, payout |-> 0,
             limit |-> MaxAffordableStake(bankroll), had |-> bankroll]
    BY <1>1, <1>2, <1>6 DEF Outcomes, Answer
  <2>2. stake \in 0..MaxSafeStake
    BY <1>1, <1>6
  <2>3. MaxAffordableStake(bankroll) \in 0..MaxInt64 /\ 0 \in 0..MaxInt64
    BY <1>1, AffordableStakesAreCovered
  <2>4. bankroll < MaxExposure(stake)
    BY <1>1, <1>6, <2>2, ExposuresAreExact DEF Admitted
  <2> QED
    BY <1>1, <1>6, <2>1, <2>2, <2>3, <2>4 DEF AnswerSound, AnswerRecords
<1>7. CASE stake >= env.minStake /\ stake <= env.maxStake /\ (isReal => Admitted(stake))
  <2>1. a \in Played(stake, isReal, draw)
    BY <1>1, <1>2, <1>7 DEF Outcomes
  <2>2. stake \in 0..MaxSafeStake
    BY <1>1, <1>7
  <2>3. a \in AnswerRecords /\ a.verdict = "played" /\ PlayedSound(a)
    BY <1>1, <1>7, <2>1, <2>2, PlaysAreSound
  <2> QED
    BY <2>3 DEF AnswerSound
<1> QED
  BY <1>1, <1>4, <1>5, <1>6, <1>7

(* The invariant is inductive.                                             *)
LEMMA ServerSteps == ServerInv /\ [Next]_vars => ServerInv'
<1> SUFFICES ASSUME ServerInv, [Next]_vars PROVE ServerInv'
  OBVIOUS
<1>1. CASE Boots \/ Dies \/ Terminate \/ Drained \/ Deploys
  <2>1. Typed' /\ StartsChecked' /\ VersionsSound' /\ UNCHANGED <<env, shown, answer>>
    BY <1>1, ProcessKeepsOrder, DeploymentKeepsOrder
  <2> QED
    BY <2>1 DEF ServerInv, ShownSound, AnswerSound
<1>2. CASE Serve
  <2>1. Typed' /\ StartsChecked' /\ VersionsSound' /\ UNCHANGED env
    BY <1>2, RequestsKeepOrder
  <2>2. CASE UNCHANGED <<shown, answer>>
    BY <2>1, <2>2 DEF ServerInv, ShownSound, AnswerSound
  <2>3. CASE \E r \in Reqs : Config(r)
    <3>1. answer' = answer
      BY <2>3 DEF Config
    <3>2. answer' = NoAnswer \/ AnswerSound(answer)'
      BY <2>1, <3>1 DEF ServerInv, AnswerSound
    <3> QED
      BY <2>1, <2>3, <3>2, ConfigShowsSound DEF ServerInv
  <2>4. CASE \E r \in Reqs, stake \in Stakes, isReal \in BOOLEAN, draw \in Draws :
               Spin(r, stake, isReal, draw)
    <3>1. AnswerSound(answer')
      BY <2>4, SpinAnswersSoundly
    <3>2. shown' = shown
      BY <2>4 DEF Spin
    <3>3. AnswerSound(answer)'
      BY <2>1, <3>1 DEF AnswerSound
    <3> QED
      BY <2>1, <3>2, <3>3 DEF ServerInv, ShownSound
  <2> QED
    BY <1>2, <2>2, <2>3, <2>4 DEF Serve, Arrive, Fails, BankrollMoves, gameVars
<1>3. CASE UNCHANGED vars
  <2>1. UNCHANGED <<env, installed, schema, phase, running, deploy, flights, bankroll, shown, answer>>
    BY <1>3 DEF vars, processVars, gameVars
  <2>2. Typed' /\ StartsChecked' /\ VersionsSound'
    BY <2>1, CheckedStays DEF ServerInv, Typed, StartsChecked, VersionsSound
  <2> QED
    BY <2>1, <2>2 DEF ServerInv, ShownSound, AnswerSound
<1> QED
  BY <1>1, <1>2, <1>3 DEF Next

(* The invariant holds of every run of the server.                         *)
THEOREM ServerInvariance == Spec => []ServerInv
BY ServerStarts, ServerSteps, PTL DEF Spec
-----------------------------------------------------------------------------
(* Types: in particular, no payout, maximum or limit is ever negative.     *)
THEOREM TypeCorrect == Spec => []ServerTypeOK
<1>1. ServerInv => ServerTypeOK
  <2> SUFFICES ASSUME ServerInv PROVE ServerTypeOK
    OBVIOUS
  <2>1. shown \in [max : 0..MaxInt64, had : Bankrolls \cup {0}]
    <3>1. \A n \in 0..MaxSafeStake : n \in 0..MaxInt64
      BY SafeStakes, WordIsPositive
    <3> QED
      BY <3>1 DEF ServerInv, ShownSound
  <2>2. answer # NoAnswer => answer \in AnswerRecords
    BY DEF ServerInv, AnswerSound
  <2> QED
    BY <2>1, <2>2 DEF ServerInv, Typed, ServerTypeOK, AnswerRecords
<1> QED
  BY <1>1, ServerInvariance, PTL

(* A played round pays the truncated product, and the bankroll covers it.  *)
THEOREM PayoutsAreAlwaysExact == Spec => []ExactPayouts
<1>1. ServerInv => ExactPayouts
  BY DEF ServerInv, AnswerSound, PlayedSound, ExactPayouts, NoAnswer
<1> QED
  BY <1>1, ServerInvariance, PTL

(* Stakes are integers, and bankrolls words.                               *)
LEMMA StakesAndBankrolls ==
    /\ \A s \in Stakes : s \in Int
    /\ \A b \in Bankrolls \cup {0} : b \in 0..MaxInt64
    /\ MaxInt64 \in Nat
<1>1. MaxInt64 \in Nat /\ -MaxInt64 \in Int
  BY WordIsPositive
<1>2. ASSUME NEW s \in Stakes PROVE s \in Int
  BY <1>1, StakesAreWords
<1>3. ASSUME NEW b \in Bankrolls \cup {0} PROVE b \in 0..MaxInt64
  BY <1>1, BankrollsAreWords
<1> QED
  BY <1>1, <1>2, <1>3

(* What a sound answer to a refused stake says, against what was shown.    *)
LEMMA SoundAnswersKeepPromises == ServerInv => PromisesKept
<1> SUFFICES ASSUME ServerInv, answer.verdict \in {"too_large", "exceeds_bank"},
                    answer # NoAnswer
             PROVE  /\ answer.isReal /\ answer.stake <= shown.max => answer.had < shown.had
                    /\ answer.limit < answer.stake
                    /\ answer.verdict = "exceeds_bank" =>
                          \A i \in DOMAIN RealWheel :
                             (answer.limit * RealWheel[i].mult) \div BP <= answer.had
  BY DEF PromisesKept, NoAnswer
<1> DEFINE stake == answer.stake
           had == answer.had
           limit == answer.limit
<1>1. /\ AnswerSound(answer) /\ answer \in AnswerRecords
      /\ stake \in Int /\ had \in 0..MaxInt64 /\ limit \in 0..MaxInt64
      /\ ShownSound
  <2>1. AnswerSound(answer) /\ ShownSound
    BY DEF ServerInv
  <2>2. answer \in AnswerRecords
    BY <2>1 DEF AnswerSound
  <2>3. stake \in Stakes /\ had \in Bankrolls /\ limit \in 0..MaxInt64
    BY <2>2 DEF AnswerRecords
  <2> QED
    BY <2>1, <2>2, <2>3, StakesAndBankrolls
<1>2. /\ shown.max \in 0..MaxSafeStake /\ shown.had \in 0..MaxInt64
      /\ MaxExposure(shown.max) <= shown.had
      /\ shown.max > 0 => shown.max <= env.maxStake
      /\ MaxSafeStake \in Nat /\ MaxInt64 \in Nat
  <2>1. /\ shown.max \in 0..MaxSafeStake /\ shown.had \in Bankrolls \cup {0}
        /\ MaxExposure(shown.max) <= shown.had
        /\ shown.max > 0 => shown.max <= env.maxStake
    BY <1>1 DEF ShownSound
  <2>2. shown.had \in 0..MaxInt64 /\ MaxSafeStake \in Nat /\ MaxInt64 \in Nat
    BY <2>1, SafeStakes, StakesAndBankrolls
  <2> QED
    BY <2>1, <2>2
<1>3. CASE answer.verdict = "too_large"
  <2>1. limit = env.maxStake /\ env.maxStake > 0 /\ stake > env.maxStake
    BY <1>1, <1>3 DEF AnswerSound
  <2>2. env.maxStake \in 0..MaxInt64
    BY <1>1, <2>1
  <2>3. limit < stake /\ ~(stake <= shown.max)
    BY <1>1, <1>2, <2>1, <2>2
  <2> QED
    BY <1>3, <2>3
<1>4. CASE answer.verdict = "exceeds_bank"
  <2>1. /\ stake \in 0..MaxSafeStake /\ had < MaxExposure(stake)
        /\ limit = MaxAffordableStake(had)
    BY <1>1, <1>4 DEF AnswerSound
  <2>2. limit \in 0..MaxSafeStake /\ MaxExposure(limit) <= had
    BY <1>1, <2>1, AffordableStakesAreCovered
  <2>3. /\ MaxMultBP \in 0..MaxMultBP
        /\ \A i \in DOMAIN RealWheel : RealWheel[i].mult \in 0..MaxMultBP
    BY TopIsOnTheWheel
  <2> HIDE DEF stake, had, limit
  <2>4. stake <= shown.max => had < shown.had
    <3>1. SUFFICES ASSUME stake <= shown.max PROVE had < shown.had
      OBVIOUS
    <3>2. Payout(stake, MaxMultBP) <= Payout(shown.max, MaxMultBP)
      BY <1>2, <2>1, <2>3, <3>1, PayoutsGrow
    <3>3. MaxExposure(stake) <= MaxExposure(shown.max)
      BY <1>2, <2>1, <3>2, ExposuresAreExact
    <3>4. MaxExposure(stake) \in Int /\ MaxExposure(shown.max) \in Int
      BY <1>2, <2>1, ExposuresAreExact
    <3> QED
      BY <1>1, <1>2, <2>1, <3>3, <3>4
  <2>5. limit < stake
    <3>1. SUFFICES ASSUME stake <= limit PROVE FALSE
      BY <1>1, <2>1
    <3>2. Payout(stake, MaxMultBP) <= Payout(limit, MaxMultBP)
      BY <2>1, <2>2, <2>3, <3>1, PayoutsGrow
    <3>3. /\ MaxExposure(stake) <= MaxExposure(limit)
          /\ MaxExposure(stake) \in Int /\ MaxExposure(limit) \in Int
      BY <2>1, <2>2, <3>2, ExposuresAreExact
    <3> QED
      BY <1>1, <2>1, <2>2, <3>3
  <2>6. ASSUME NEW i \in DOMAIN RealWheel
        PROVE  (limit * RealWheel[i].mult) \div BP <= had
    <3>1. RealWheel[i].mult \in 0..MaxMultBP
      BY <2>3
    <3> DEFINE mult == RealWheel[i].mult
    <3> HIDE DEF mult
    <3>2. mult \in 0..MaxMultBP
      BY <3>1 DEF mult
    <3>3. mult <= MaxMultBP
      BY <3>2, TopIsOnTheWheel
    <3>4. /\ Payout(limit, mult) <= Payout(limit, MaxMultBP)
          /\ Payout(limit, mult) \in Int /\ Payout(limit, MaxMultBP) \in Int
      BY <1>2, <2>2, <2>3, <3>2, <3>3, PayoutsGrow, PayoutsAreExact
    <3>5. Payout(limit, mult) <= had
      BY <1>1, <2>2, <3>4, ExposuresAreExact
    <3>6. (limit * mult) \div BP <= had
      BY <2>2, <3>2, <3>5, PayoutsAreExact
    <3> QED
      BY <3>6 DEF mult
  <2> QED
    BY <2>4, <2>5, <2>6 DEF stake, had, limit
<1> QED
  BY <1>3, <1>4

(* GET /game/config promises no bet that the server refuses, and a refusal *)
(* names a stake that is smaller and covered.                              *)
THEOREM PromisesAreKept == Spec => []PromisesKept
BY SoundAnswersKeepPromises, ServerInvariance, PTL

(* The process never serves on a schema older than its binary.             *)
THEOREM SchemaIsNeverBehind == Spec => []SchemaKeepsUp
<1>1. ServerInv => SchemaKeepsUp
  BY DEF ServerInv, VersionsSound, SchemaKeepsUp
<1> QED
  BY <1>1, ServerInvariance, PTL

(* A deployment that ended well left the new binary on the new schema.     *)
THEOREM DeploymentsAreReal == Spec => []DeployedIsRunning
<1>1. ServerInv => DeployedIsRunning
  BY DEF ServerInv, Typed, VersionsSound, DeployedIsRunning
<1> QED
  BY <1>1, ServerInvariance, PTL

-----------------------------------------------------------------------------
(***************************************************************************)
(* The loops over the segments.  Induction over the segments is used in    *)
(* the form of a least counterexample, as its library theorem takes an     *)
(* operator for a parameter.                                               *)
(***************************************************************************)

(* Counting up to n, for a set of numbers.                                 *)
LEMMA Counting ==
    ASSUME NEW n \in Nat, NEW Good, 0 \in Good,
           \A k \in 1..n : k - 1 \in Good => k \in Good
    PROVE  \A k \in 0..n : k \in Good
<1> DEFINE less == OpToRel(<, Nat)
           Bad == (0..n) \ Good
<1>1. SUFFICES ASSUME Bad # {} PROVE FALSE
  OBVIOUS
<1>2. \A j, k \in Nat : j < k => <<j, k>> \in less
  BY DEF OpToRel
<1>3. PICK k \in Bad : \A j \in Bad : <<j, k>> \notin less
  <2>1. IsWellFoundedOn(less, Nat)
    BY NatLessThanWellFounded, Zenon
  <2>2. Bad \subseteq Nat
    OBVIOUS
  <2> HIDE DEF less, Bad
  <2> QED
    BY <1>1, <2>1, <2>2, WFMin, Zenon
<1>4. k \in 1..n /\ k \in Nat /\ k - 1 \in 0..n /\ k - 1 \in Nat /\ k - 1 < k
  OBVIOUS
<1>5. k - 1 \in Good
  <2>1. <<k - 1, k>> \in less
    BY <1>2, <1>4
  <2> HIDE DEF less
  <2> QED
    BY <1>3, <1>4, <2>1
<1> QED
  BY <1>3, <1>4, <1>5

IsSums(sum, f, n) == sum = [k \in 0..n |-> IF k = 0 THEN 0 ELSE sum[k - 1] + f[k]]

(* The recursion of Sums defines a function.                               *)
LEMMA SumsExist ==
    ASSUME NEW n \in Nat, NEW f
    PROVE  \E sum : IsSums(sum, f, n)
<1> DEFINE Good == {k \in 0..n : \E sum : IsSums(sum, f, k)}
<1>1. 0 \in Good
  <2>1. IsSums([k \in 0..0 |-> 0], f, 0)
    BY DEF IsSums
  <2> QED
    BY <2>1
<1>2. ASSUME NEW k \in 1..n, k - 1 \in Good
      PROVE  k \in Good
  <2>1. PICK sum : IsSums(sum, f, k - 1)
    BY <1>2
  <2> DEFINE more == [j \in 0..k |-> IF j = 0 THEN 0 ELSE sum[j - 1] + f[j]]
  <2>2. ASSUME NEW j \in 0..(k - 1)
        PROVE  more[j] = sum[j]
    BY <2>1 DEF IsSums
  <2>3. \A j \in 0..k : j # 0 => j - 1 \in 0..(k - 1)
    OBVIOUS
  <2>4. IsSums(more, f, k)
    BY <2>2, <2>3 DEF IsSums
  <2> QED
    BY <2>4
<1> HIDE DEF Good
<1>3. n \in Good
  BY <1>1, <1>2, Counting
<1> QED
  BY <1>3 DEF Good

(* Sums, one segment at a time.                                            *)
LEMMA SumsUnfold ==
    ASSUME NEW f, Len(f) \in Nat
    PROVE  /\ Sums(f)[0] = 0
           /\ \A k \in 1..Len(f) : Sums(f)[k] = Sums(f)[k - 1] + f[k]
<1> DEFINE sum == Sums(f)
           n == Len(f)
<1>1. sum = CHOOSE s : IsSums(s, f, n)
  BY Zenon DEF Sums, IsSums
<1>2. \E s : IsSums(s, f, n)
  BY SumsExist
<1> HIDE DEF sum
<1>3. IsSums(sum, f, n)
  BY <1>1, <1>2, Zenon
<1> QED
  BY <1>3 DEF IsSums, sum

(* A column of a table is a sequence as long as the table.                 *)
LEMMA ColumnsOfTables ==
    ASSUME NEW table \in Tables, NEW f, DOMAIN f = DOMAIN table,
           \A i \in DOMAIN table : f[i] \in Nat, f = [i \in DOMAIN f |-> f[i]]
    PROVE  /\ Len(table) \in Nat /\ DOMAIN table = 1..Len(table)
           /\ f \in Seq(Nat) /\ Len(f) = Len(table)
<1>1. Len(table) \in Nat /\ DOMAIN table = 1..Len(table)
  BY LenProperties DEF Tables
<1>2. f \in [1..Len(table) -> Nat]
  BY <1>1
<1>3. f \in Seq(Nat)
  BY <1>1, <1>2, SeqDef
<1>4. 1..Len(f) = 1..Len(table) /\ Len(f) \in Nat
  BY <1>1, <1>3, LenProperties
<1> QED
  BY <1>1, <1>3, <1>4

(* Sums of numbers are numbers and grow.                                   *)
LEMMA SumsGrow ==
    ASSUME NEW f \in Seq(Nat)
    PROVE  /\ \A k \in 0..Len(f) : Sums(f)[k] \in Nat
           /\ \A k \in 1..Len(f) : Sums(f)[k - 1] <= Sums(f)[k]
<1> DEFINE Good == {k \in 0..Len(f) : Sums(f)[k] \in Nat}
<1>1. Len(f) \in Nat /\ \A k \in 1..Len(f) : f[k] \in Nat
  BY LenProperties
<1>2. 0 \in Good
  BY <1>1, SumsUnfold
<1>3. ASSUME NEW k \in 1..Len(f), k - 1 \in Good PROVE k \in Good
  BY <1>1, <1>3, SumsUnfold
<1> HIDE DEF Good
<1>4. \A k \in 0..Len(f) : k \in Good
  BY <1>1, <1>2, <1>3, Counting
<1>5. \A k \in 0..Len(f) : Sums(f)[k] \in Nat
  BY <1>4 DEF Good
<1>6. ASSUME NEW k \in 1..Len(f)
      PROVE  Sums(f)[k - 1] <= Sums(f)[k]
  <2>1. /\ k - 1 \in 0..Len(f) /\ k \in 0..Len(f)
        /\ Sums(f)[k] = Sums(f)[k - 1] + f[k] /\ f[k] \in Nat
    BY <1>1, SumsUnfold
  <2> QED
    BY <1>5, <2>1
<1> QED
  BY <1>5, <1>6
-----------------------------------------------------------------------------
(* The edge. *)

(* Truncation is in the house's favour: what the segments pay, weighted,   *)
(* is no more than the stake times their weighted multipliers.             *)
LEMMA PaysNoMoreThanWeighted ==
    ASSUME NEW stake \in 0..MaxSafeStake
    PROVE  LET pays == Total([i \in DOMAIN RealWheel |->
                                RealWheel[i].weight * Payout(stake, RealWheel[i].mult)])
           IN /\ pays \in Nat /\ Weighted(RealWheel) \in Nat
              /\ BP * pays <= stake * Weighted(RealWheel)
<1> DEFINE n == Len(RealWheel)
           w(i) == RealWheel[i].weight
           m(i) == RealWheel[i].mult
           f == [i \in DOMAIN RealWheel |-> w(i) * Payout(stake, m(i))]
           g == [i \in DOMAIN RealWheel |-> m(i) * w(i)]
           Good == {k \in 0..n : BP * Sums(f)[k] <= stake * Sums(g)[k]}
<1>1. /\ stake \in Nat /\ BP \in Nat /\ BP > 0
      /\ n \in Nat /\ DOMAIN RealWheel = 1..n
  BY SafeStakes, WordIsPositive, TablesAreTyped, LenProperties DEF Tables
<1>2. ASSUME NEW i \in DOMAIN RealWheel
      PROVE  /\ w(i) \in Nat /\ m(i) \in 0..MaxMultBP /\ m(i) \in Nat
             /\ Payout(stake, m(i)) = (stake * m(i)) \div BP
             /\ Payout(stake, m(i)) \in Nat
  <2>1. RealWheel[i] \in [mult : Nat, weight : Nat]
    BY <1>1, TablesAreTyped, ElementOfSeq DEF Tables
  <2>2. w(i) \in Nat /\ m(i) \in Nat /\ m(i) \in 0..MaxMultBP
    BY <2>1, TopIsOnTheWheel
  <2> HIDE DEF w, m
  <2>3. Payout(stake, m(i)) = (stake * m(i)) \div BP /\ Payout(stake, m(i)) \in 0..MaxInt64
    BY <2>2, PayoutsAreExact
  <2> QED
    BY <2>2, <2>3
<1> HIDE DEF w, m
<1>3. ASSUME NEW i \in DOMAIN RealWheel
      PROVE  /\ f[i] \in Nat /\ g[i] \in Nat
             /\ BP * f[i] <= stake * g[i]
  <2> DEFINE a == stake * m(i)
             q == a \div BP
  <2>1. a \in Nat
    BY <1>1, <1>2
  <2>2. q \in Nat /\ q * BP <= a
    BY <1>1, <2>1, Quotients
  <2>3. f[i] = w(i) * q /\ g[i] = m(i) * w(i) /\ w(i) \in Nat /\ m(i) \in Nat
    BY <1>2
  <2> HIDE DEF q
  <2>4. f[i] \in Nat /\ g[i] \in Nat
    BY <2>2, <2>3
  <2>5. w(i) * (q * BP) <= w(i) * a
    BY <1>1, <2>1, <2>2, <2>3, ProductsGrow
  <2>6. BP * (w(i) * q) = w(i) * (q * BP) /\ stake * (m(i) * w(i)) = w(i) * a
    BY <1>1, <2>2, <2>3
  <2> QED
    BY <2>3, <2>4, <2>5, <2>6
<1>4. /\ f \in Seq(Nat) /\ Len(f) = n
      /\ g \in Seq(Nat) /\ Len(g) = n
  <2>1. DOMAIN f = DOMAIN RealWheel /\ f = [i \in DOMAIN f |-> f[i]]
    OBVIOUS
  <2>2. DOMAIN g = DOMAIN RealWheel /\ g = [i \in DOMAIN g |-> g[i]]
    OBVIOUS
  <2> HIDE DEF f, g
  <2> QED
    BY <1>3, <2>1, <2>2, ColumnsOfTables, TablesAreTyped
<1> HIDE DEF f, g
<1>5. 0 \in Good
  BY <1>1, <1>4, SumsUnfold
<1>6. ASSUME NEW k \in 1..n, k - 1 \in Good
      PROVE  k \in Good
  <2> DEFINE F == Sums(f)[k - 1]
             H == Sums(g)[k - 1]
             fk == f[k]
             gk == g[k]
  <2>1. F \in Nat /\ H \in Nat /\ k - 1 \in 0..n
    BY <1>1, <1>4, SumsGrow
  <2>2. Sums(f)[k] = F + fk /\ Sums(g)[k] = H + gk
    BY <1>1, <1>4, SumsUnfold
  <2>3. fk \in Nat /\ gk \in Nat /\ BP * fk <= stake * gk
    BY <1>1, <1>3
  <2>4. BP * F <= stake * H
    BY <1>6
  <2> HIDE DEF F, H, fk, gk
  <2>5. BP * (F + fk) = BP * F + BP * fk /\ stake * (H + gk) = stake * H + stake * gk
    BY <1>1, <2>1, <2>3
  <2>6. /\ BP * F \in Int /\ BP * fk \in Int /\ stake * H \in Int /\ stake * gk \in Int
    BY <1>1, <2>1, <2>3
  <2>7. BP * (F + fk) <= stake * (H + gk)
    BY <2>3, <2>4, <2>5, <2>6
  <2> QED
    BY <2>2, <2>7
<1> HIDE DEF Good
<1>7. n \in Good
  <2> HIDE DEF n
  <2>1. \A k \in 0..n : k \in Good
    BY <1>1, <1>5, <1>6, Counting
  <2> QED
    BY <1>1, <2>1
<1>8. /\ BP * Total(f) <= stake * Total(g)
      /\ Total(f) \in Nat /\ Total(g) \in Nat
  BY <1>1, <1>4, <1>7, SumsGrow DEF Good, Total
<1>9. Weighted(RealWheel) = Total(g)
  BY DEF Weighted, g, m, w
<1> QED
  BY <1>8, <1>9 DEF f, m, w

(* The house never pays out, in the mean, more than it takes: RTP, rake    *)
(* and commission are within the stake, and no truncation is against it.   *)
THEOREM TheEdgeIsKept == Spec => []HouseKeepsItsEdge
<1>1. ServerInv => HouseKeepsItsEdge
  <2> SUFFICES ASSUME ServerInv, phase = "serving",
                      NEW stake \in Stakes \cap env.minStake..env.maxStake
               PROVE  Total([i \in DOMAIN RealWheel |->
                               RealWheel[i].weight * Payout(stake, RealWheel[i].mult)])
                        + BP * (Payout(stake, env.rake) + Payout(stake, env.referral))
                      <= BP * stake
    BY DEF HouseKeepsItsEdge
  <2> DEFINE pays == Total([i \in DOMAIN RealWheel |->
                              RealWheel[i].weight * Payout(stake, RealWheel[i].mult)])
             rtp == env.rtp
             rake == env.rake
             ref == env.referral
  <2>1. Checked
    BY DEF ServerInv, StartsChecked
  <2>2. /\ rtp \in 0..BP /\ rake \in 0..BP /\ ref \in 0..BP /\ rake + ref <= BP - rtp
        /\ env.minStake > 0 /\ env.minStake \in Int /\ env.maxStake \in Int
        /\ env.maxStake <= MaxSafeStake
        /\ Weighted(RealWheel) \div BP = rtp
    <3>1. env \in EnvRecords
      BY EnvsAreTyped DEF ServerInv, Typed
    <3>2. env.maxStake <= MaxSafeStake /\ RTPOf(RealWheel) = rtp
      BY <2>1 DEF Checked, ValidateStakeCeiling, Validate, ValidateTable
    <3> QED
      BY <2>1, <3>1, <3>2 DEF Checked, Loads, EnvRecords, RTPOf
  <2>3. stake \in 0..MaxSafeStake /\ stake \in Nat /\ BP \in Nat /\ BP > 0
    BY <2>2, SafeStakes, WordIsPositive
  <2>4. /\ pays \in Nat /\ Weighted(RealWheel) \in Nat
        /\ BP * pays <= stake * Weighted(RealWheel)
    BY <2>3, PaysNoMoreThanWeighted
  <2> HIDE DEF pays, rtp, rake, ref
  <2>5. Weighted(RealWheel) = BP * rtp
    BY <2>2, <2>3, <2>4, RTPIsWhole
  <2>6. pays <= stake * rtp
    <3>1. BP * pays <= BP * (stake * rtp)
      BY <2>2, <2>3, <2>4, <2>5
    <3> QED
      BY <2>2, <2>3, <2>4, <3>1
  <2>7. ASSUME NEW part \in 0..BP
        PROVE  Payout(stake, part) \in Nat /\ BP * Payout(stake, part) <= stake * part
    <3>1. part \in 0..MaxMultBP /\ part \in Nat /\ stake * part \in Nat
      BY <2>3, TopIsOnTheWheel
    <3>2. Payout(stake, part) = (stake * part) \div BP
      BY <2>3, <3>1, PayoutsAreExact
    <3> QED
      BY <2>3, <3>1, <3>2, Quotients
  <2> DEFINE x == Payout(stake, rake)
             y == Payout(stake, ref)
  <2>8. /\ x \in Nat /\ y \in Nat
        /\ BP * x <= stake * rake /\ BP * y <= stake * ref
    BY <2>2, <2>7
  <2> HIDE DEF x, y
  <2>9. pays + BP * (x + y) <= BP * stake
    <3>1. stake * (rtp + (rake + ref)) <= stake * BP
      BY <2>2, <2>3, ProductsGrow
    <3>2. stake * (rtp + (rake + ref)) = stake * rtp + stake * rake + stake * ref
      BY <2>2, <2>3
    <3>3. BP * (x + y) = BP * x + BP * y /\ BP * stake = stake * BP
      BY <2>3, <2>8
    <3>4. /\ stake * rtp \in Int /\ stake * rake \in Int /\ stake * ref \in Int
          /\ BP * x \in Int /\ BP * y \in Int /\ stake * BP \in Int
      BY <2>2, <2>3, <2>8
    <3> QED
      BY <2>4, <2>6, <2>8, <3>1, <3>2, <3>3, <3>4
  <2> QED
    BY <2>9 DEF pays, x, y, rake, ref
<1> QED
  BY <1>1, ServerInvariance, PTL
-----------------------------------------------------------------------------
(* The draw. *)

\* The weights of a valid table.
LEMMA WeightsOfTables ==
    ASSUME NEW table \in Tables
    PROVE  /\ Len(table) \in Nat /\ DOMAIN table = 1..Len(table)
           /\ Weights(table) \in Seq(Nat) /\ Len(Weights(table)) = Len(table)
           /\ \A i \in DOMAIN table : Weights(table)[i] = table[i].weight
<1>1. Len(table) \in Nat /\ DOMAIN table = 1..Len(table)
  BY LenProperties DEF Tables
<1>2. ASSUME NEW i \in DOMAIN table
      PROVE  table[i].weight \in Nat
  <2>1. table[i] \in [mult : Nat, weight : Nat]
    BY <1>1, ElementOfSeq DEF Tables
  <2> QED
    BY <2>1
<1>3. /\ DOMAIN Weights(table) = DOMAIN table
      /\ \A i \in DOMAIN table : Weights(table)[i] = table[i].weight
      /\ Weights(table) = [i \in DOMAIN Weights(table) |-> Weights(table)[i]]
  BY DEF Weights
<1> HIDE DEF Weights
<1> QED
  BY <1>1, <1>2, <1>3, ColumnsOfTables

(* No draw falls through a table that Validate passed, and none lands in   *)
(* two segments: the error at the end of PickFrom is unreachable.          *)
THEOREM EveryDrawLandsOnce ==
    ASSUME NEW isReal \in BOOLEAN, NEW rtp, NEW demoRTP, Validate(rtp, demoRTP),
           NEW draw \in Nat
    PROVE  \E i \in 1..Slots : PickFrom(TableFor(isReal), draw) = {i}
<1> DEFINE table == TableFor(isReal)
           n == Len(table)
           s == Sums(Weights(table))
           r == draw % BP
<1>1. /\ table \in Tables /\ n = Slots /\ Total(Weights(table)) = BP
  BY TablesAreTyped DEF TableFor, Validate, ValidateTable
<1> HIDE DEF table
<1>2. /\ n \in Nat /\ DOMAIN table = 1..n
      /\ Weights(table) \in Seq(Nat) /\ Len(Weights(table)) = n
  BY <1>1, WeightsOfTables
<1>3. BP \in Nat /\ BP > 0 /\ r \in Nat /\ r < BP
  BY WordIsPositive
<1>4. /\ s[0] = 0 /\ s[n] = BP
      /\ \A k \in 0..n : s[k] \in Nat
      /\ \A k \in 1..n : s[k - 1] <= s[k]
  BY <1>1, <1>2, SumsGrow, SumsUnfold DEF Total
<1>5. PickFrom(table, draw) = {i \in 1..n : s[i - 1] <= r /\ r < s[i]}
  BY <1>2 DEF PickFrom, WeightBefore
<1> HIDE DEF s, n, r
<1>6. ASSUME NEW j \in 0..n, r < s[j]
      PROVE  \A k \in j..n : r < s[k]
  <2> DEFINE Good == {k \in 0..n : k >= j => r < s[k]}
  <2>1. 0 \in Good
    BY <1>2, <1>6
  <2>2. ASSUME NEW k \in 1..n, k - 1 \in Good
        PROVE  k \in Good
    <3>1. CASE k = j
      BY <1>2, <1>6, <3>1
    <3>2. CASE k > j
      <4>1. r < s[k - 1] /\ s[k - 1] <= s[k] /\ s[k - 1] \in Nat /\ s[k] \in Nat
        BY <1>2, <1>4, <2>2, <3>2
      <4> QED
        BY <1>2, <1>3, <4>1
    <3>3. CASE k < j
      BY <1>2, <3>3
    <3> QED
      BY <1>2, <3>1, <3>2, <3>3
  <2> HIDE DEF Good
  <2>3. \A k \in 0..n : k \in Good
    BY <1>2, <2>1, <2>2, Counting
  <2> QED
    BY <1>2, <2>3 DEF Good
<1>7. \E i \in 1..n : s[i - 1] <= r /\ r < s[i]
  <2> DEFINE Good == {k \in 0..n : s[k] <= r}
  <2>1. 0 \in Good
    BY <1>2, <1>3, <1>4
  <2>2. SUFFICES ASSUME \A i \in 1..n : s[i - 1] <= r => s[i] <= r
                 PROVE  FALSE
    <3>1. \A i \in 1..n : i \in 0..n
      BY <1>2
    <3> QED
      BY <1>3, <1>4, <3>1
  <2>3. \A k \in 1..n : k - 1 \in Good => k \in Good
    BY <1>2, <2>2
  <2> HIDE DEF Good
  <2>4. \A k \in 0..n : k \in Good
    BY <1>2, <2>1, <2>3, Counting
  <2>5. s[n] <= r
    BY <1>2, <2>4 DEF Good
  <2> QED
    BY <1>3, <1>4, <2>5
<1>8. ASSUME NEW i \in 1..n, NEW j \in 1..n, s[i - 1] <= r, r < s[i],
             s[j - 1] <= r, r < s[j]
      PROVE  i = j
  <2>1. ASSUME NEW a \in 1..n, NEW b \in 1..n, r < s[a], s[b - 1] <= r
        PROVE  ~(a < b)
    <3>1. SUFFICES ASSUME a < b PROVE FALSE
      OBVIOUS
    <3>2. a \in 0..n /\ b - 1 \in a..n /\ b - 1 \in 0..n
      BY <1>2, <3>1
    <3>3. r < s[b - 1]
      BY <1>6, <2>1, <3>2
    <3> QED
      BY <1>3, <1>4, <2>1, <3>2, <3>3
  <2> QED
    BY <1>2, <1>8, <2>1
<1>9. PICK i \in 1..n : s[i - 1] <= r /\ r < s[i]
  BY <1>7
<1>10. {j \in 1..n : s[j - 1] <= r /\ r < s[j]} = {i}
  BY <1>8, <1>9
<1>11. PickFrom(table, draw) = {i} /\ i \in 1..Slots
  BY <1>1, <1>5, <1>10 DEF n
<1> QED
  BY <1>11 DEF table
=============================================================================
