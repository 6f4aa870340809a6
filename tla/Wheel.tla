------------------------------- MODULE Wheel --------------------------------
(***************************************************************************)
(* The wheel and the arithmetic of stakes (internal/game/wheel.go), on     *)
(* machine words: int64 products wrap, and division truncates.  A table is *)
(* the sequence of its segments.                                           *)
(***************************************************************************)
EXTENDS Integers, Sequences

CONSTANTS
    MaxInt64,       \* math.MaxInt64
    BP,             \* 10000: 1x in basis points, and WeightTotal
    RealWheel,      \* var Wheel
    DemoWheel,
    Slots           \* the segments that spins_segment_index_check allows

Tables == Seq([mult : Nat, weight : Nat])

\* What a loop over the segments adds up: the sum of the first n, for every n.
Sums(f) == LET sum[n \in 0..Len(f)] == IF n = 0 THEN 0 ELSE sum[n - 1] + f[n] IN sum

Total(f) == Sums(f)[Len(f)]

Weights(table) == [i \in DOMAIN table |-> table[i].weight]

Weighted(table) == Total([i \in DOMAIN table |-> table[i].mult * table[i].weight])

ASSUME WordIsPositive   == MaxInt64 \in Nat \ {0} /\ BP \in Nat \ {0}
ASSUME TablesAreTyped   == RealWheel \in Tables /\ DemoWheel \in Tables
ASSUME TopPaysMoreThan1x ==     \* 200x: a top of less than 1x would wrap MaxAffordableStake
    /\ \E i \in DOMAIN RealWheel : RealWheel[i].mult >= BP
    /\ \E i \in DOMAIN RealWheel : \A j \in DOMAIN RealWheel :
          RealWheel[j].mult <= RealWheel[i].mult
ASSUME RTPIsWhole == Weighted(RealWheel) % BP = 0    \* 9000 bp: Validate would round down
-----------------------------------------------------------------------------
(* int64 *)

Wrap(n) == ((n + MaxInt64 + 1) % (2 * (MaxInt64 + 1))) - (MaxInt64 + 1)

Quotient(a, b) == IF a >= 0 THEN a \div b ELSE -((-a) \div b)

Payout(stake, mult) == Quotient(Wrap(stake * mult), BP)

TopSegment == CHOOSE i \in DOMAIN RealWheel :
                 \A j \in DOMAIN RealWheel : RealWheel[j].mult <= RealWheel[i].mult

MaxMultBP == RealWheel[TopSegment].mult

MaxSafeStake == MaxInt64 \div MaxMultBP

MaxExposure(stake) ==
    IF stake > MaxSafeStake THEN MaxInt64 ELSE Payout(stake, MaxMultBP)

\* Mutant: it always multiplies first.
AffordableMultiplied(bankroll) == Quotient(Wrap(bankroll * BP), MaxMultBP)

\* A large bankroll divides first, which rounds to a multiple of BP cents.
Affordable(bankroll) ==
    IF bankroll > MaxInt64 \div BP
    THEN Wrap((bankroll \div MaxMultBP) * BP)
    ELSE Quotient(Wrap(bankroll * BP), MaxMultBP)

MaxAffordableStake(bankroll) ==
    IF bankroll <= 0 THEN 0
    ELSE IF Affordable(bankroll) > MaxSafeStake THEN MaxSafeStake
    ELSE Affordable(bankroll)
-----------------------------------------------------------------------------
(* What the server checks before it serves. *)

\* Mutant: any positive ceiling will do.
PositiveStakeCeiling(maxStake) == maxStake > 0

ValidateStakeCeiling(maxStake) == maxStake > 0 /\ maxStake <= MaxSafeStake

RTPOf(table) == Weighted(table) \div BP

ValidateTable(table, wantRTP) ==
    /\ \A i \in DOMAIN table : table[i].weight > 0
    /\ Total(Weights(table)) = BP
    /\ RTPOf(table) = wantRTP

SameMultipliers(a, b) == \A i \in DOMAIN a : a[i].mult = b[i].mult

Validate(wantRTP, demoRTP) ==
    /\ ValidateTable(RealWheel, wantRTP)
    /\ ValidateTable(DemoWheel, demoRTP)
    /\ demoRTP >= wantRTP
    /\ Len(RealWheel) = Slots /\ Len(DemoWheel) = Slots
    /\ SameMultipliers(RealWheel, DemoWheel)
-----------------------------------------------------------------------------
(* The draw. *)

TableFor(isReal) == IF isReal THEN RealWheel ELSE DemoWheel

WeightBefore(table, i) == Sums(Weights(table))[i - 1]

\* The segments a draw of a uint32 lands in: exactly one, if the table is valid.
PickFrom(table, draw) ==
    {i \in DOMAIN table :
        /\ WeightBefore(table, i) <= draw % BP
        /\ draw % BP < WeightBefore(table, i + 1)}
=============================================================================
