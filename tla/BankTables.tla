----------------------------- MODULE BankTables -----------------------------
(***************************************************************************)
(* The money tables of the database and the statements that move money.    *)
(*                                                                         *)
(* A books value is the committed content of three tables:                 *)
(*   wallets  the row of each user: real, demo and held cents,             *)
(*   ledger   table "transactions", split by user and realm, oldest first, *)
(*   house    the single house row: bankroll and rake.                     *)
(* An operator below is one statement of internal/wallet or the sequence   *)
(* of statements one transaction of internal/game or internal/users        *)
(* issues.  Operators take a books value and return the one they leave:    *)
(* who may run them, and when, is the business of Bank and MoneyTx.        *)
(***************************************************************************)
EXTENDS Integers, Sequences, FiniteSets

CONSTANTS
    Users,          \* user ids; row locks are taken in their order
    NoUser,         \* users.referred_by IS NULL
    Referrer,       \* users.referred_by
    Refs,           \* client_refs of spins and ids of withdrawals
    NoRef,          \* transactions.ref_id IS NULL
    Mults,          \* multipliers of the wheel, in basis points
    RakeBP,         \* RAKE_BP
    ReferralBP,     \* REFERRAL_BP
    RTPBP           \* RTP_BP

ASSUME UsersAreIds      == Users \subseteq Nat /\ NoUser \notin Users /\ IsFiniteSet(Users)
ASSUME ReferrersAreSane ==      \* CHECK (referred_by <> id)
    /\ Referrer \in [Users -> Users \cup {NoUser}]
    /\ \A u \in Users : Referrer[u] # u
ASSUME WheelIsSane ==           \* game.Validate
    /\ Mults \subseteq Nat
    /\ \E m \in Mults : \A n \in Mults : n <= m
ASSUME SplitFitsTheEdge ==      \* config.Load
    /\ RakeBP \in Nat /\ ReferralBP \in Nat /\ RTPBP \in Nat
    /\ RakeBP + ReferralBP <= 10000 - RTPBP
-----------------------------------------------------------------------------
(* The arithmetic of a spin; int64 division truncates. *)

Payout(stake, mult) == (stake * mult) \div 10000

MaxMultBP == CHOOSE m \in Mults : \A n \in Mults : n <= m

\* Below MaxSafeStake, which ValidateStakeCeiling makes MAX_STAKE_CENTS respect.
MaxExposure(stake) == Payout(stake, MaxMultBP)

Rake(stake) == (stake * RakeBP) \div 10000

\* payCommission: who earns a share of this play, if anyone.
Payee(u, isReal) == IF isReal /\ ReferralBP > 0 THEN Referrer[u] ELSE NoUser

Commission(u, isReal, stake) ==
    IF Payee(u, isReal) = NoUser THEN 0 ELSE (stake * ReferralBP) \div 10000
-----------------------------------------------------------------------------
(* The statements of internal/wallet. *)

Spendable(w, isReal) == IF isReal THEN w.real ELSE w.demo

Adjusted(w, isReal, delta) ==
    IF isReal THEN [w EXCEPT !.real = @ + delta]
              ELSE [w EXCEPT !.demo = @ + delta]

Row(kind, amount, after, ref) ==
    [kind |-> kind, amount |-> amount, after |-> after, ref |-> ref]

\* UPDATE wallets ... RETURNING, then INSERT INTO transactions.
Move(b, u, isReal, kind, delta, ref) ==
    LET w == Adjusted(b.wallets[u], isReal, delta)
    IN [wallets |-> [b.wallets EXCEPT ![u] = w],
        ledger  |-> [b.ledger EXCEPT ![<<u, isReal>>] =
                        Append(@, Row(kind, delta, Spendable(w, isReal), ref))],
        house   |-> b.house]

\* The CHECK (real_cents >= 0) or (demo_cents >= 0) of that UPDATE.
MoveFits(b, u, isReal, delta) == Spendable(b.wallets[u], isReal) + delta >= 0

MoveHouse(b, bankrollDelta, rakeDelta) ==
    [b EXCEPT !.house = [bankroll |-> @.bankroll + bankrollDelta,
                         rake     |-> @.rake + rakeDelta]]

MoveHeld(b, u, delta) ==
    LET w == [b.wallets[u] EXCEPT !.held = @ + delta]
    IN [wallets |-> [b.wallets EXCEPT ![u] = w], ledger |-> b.ledger, house |-> b.house]

Hold(b, u, amount, ref) ==
    MoveHeld(Move(b, u, TRUE, "withdraw", -amount, ref), u, amount)

ReleaseHold(b, u, amount) == MoveHeld(b, u, -amount)

\* Mutant: the money comes back without a ledger row.
ReverseHoldUnrecorded(b, u, amount, ref) ==
    LET r == ReleaseHold(b, u, amount)
    IN [r EXCEPT !.wallets[u].real = @ + amount]

\* Mutant: the money comes back and the hold stays.
ReverseHoldKept(b, u, amount, ref) ==
    Move(b, u, TRUE, "withdraw_reversed", amount, ref)

ReverseHold(b, u, amount, ref) ==
    Move(ReleaseHold(b, u, amount), u, TRUE, "withdraw_reversed", amount, ref)
-----------------------------------------------------------------------------
(* What a whole transaction writes.  A spin row s is [user, ref, isReal,   *)
(* stake, mult]; its payout_cents and rake_cents are functions of these.   *)

SpinId(s) == <<s.user, s.ref>>

\* Mutant: the commission is paid and charged to nobody.
HouseDeltaNoCommission(s) == s.stake - Payout(s.stake, s.mult) - Rake(s.stake)

HouseDelta(s) ==
    s.stake - Payout(s.stake, s.mult) - Rake(s.stake)
            - Commission(s.user, s.isReal, s.stake)

BetPlaced(b, s) == Move(b, s.user, s.isReal, "bet", -s.stake, SpinId(s))

\* Mutant: practice wins are paid in real money.
WinPaidReal(b, s) ==
    LET payout == Payout(s.stake, s.mult)
    IN IF payout > 0 THEN Move(b, s.user, TRUE, "win", payout, SpinId(s)) ELSE b

WinPaid(b, s) ==
    LET payout == Payout(s.stake, s.mult)
    IN IF payout > 0 THEN Move(b, s.user, s.isReal, "win", payout, SpinId(s))
                     ELSE b

HouseSettled(b, s) ==
    IF s.isReal THEN MoveHouse(b, HouseDelta(s), Rake(s.stake)) ELSE b

\* Mutant: practice earns the referrer real commission.
CommissionPaidOnDemo(b, s) ==
    LET commission == (s.stake * ReferralBP) \div 10000
    IN IF commission > 0 /\ Referrer[s.user] # NoUser
       THEN Move(b, Referrer[s.user], TRUE, "referral", commission, SpinId(s))
       ELSE b

CommissionPaid(b, s) ==
    LET commission == Commission(s.user, s.isReal, s.stake)
    IN IF commission > 0
       THEN Move(b, Payee(s.user, s.isReal), TRUE, "referral", commission, SpinId(s))
       ELSE b

SpinPosted(b, s) ==
    CommissionPaid(HouseSettled(WinPaid(BetPlaced(b, s), s), s), s)

\* The CHECKs that SpinPosted's statements meet on their way.
SpinFits(b, s) ==
    /\ MoveFits(b, s.user, s.isReal, -s.stake)
    /\ s.isReal => /\ b.house.bankroll + HouseDelta(s) >= 0
                   /\ b.house.rake + Rake(s.stake) >= 0

\* Top up TO the target: nothing is written when the balance is there already.
ToppedUp(b, u, target) ==
    LET delta == target - b.wallets[u].demo
    IN IF delta > 0 THEN Move(b, u, FALSE, "demo_grant", delta, NoRef) ELSE b
-----------------------------------------------------------------------------
(* The books before the first transaction: balances come from one grant or *)
(* deposit each, and the house is funded.                                  *)

Opened(real, demo, bankroll) ==
    [wallets |-> [u \in Users |-> [real |-> real[u], demo |-> demo[u], held |-> 0]],
     ledger  |-> [k \in Users \X BOOLEAN |->
                    LET cents == IF k[2] THEN real[k[1]] ELSE demo[k[1]]
                        kind  == IF k[2] THEN "deposit" ELSE "demo_grant"
                    IN IF cents > 0 THEN <<Row(kind, cents, cents, NoRef)>> ELSE <<>>],
     house   |-> [bankroll |-> bankroll, rake |-> 0]]

Kinds == {"demo_grant", "bet", "win", "deposit", "withdraw", "withdraw_reversed",
          "referral"}

RowRefs == (Users \X Refs) \cup {NoRef}

Rows == [kind : Kinds, amount : Int, after : Nat, ref : RowRefs]

Books == [wallets : [Users -> [real : Nat, demo : Nat, held : Nat]],
          ledger  : [Users \X BOOLEAN -> Seq(Rows)],
          house   : [bankroll : Nat, rake : Nat]]
-----------------------------------------------------------------------------
(* Books that balance: the ledger of a wallet explains its cents.          *)

\* Every row starts where the one before it ended, and the last ends at cents.
AddsUpTo(rows, cents) ==
    LET before(i) == IF i = 1 THEN 0 ELSE rows[i - 1].after
    IN /\ \A i \in 1..Len(rows) : rows[i].after = before(i) + rows[i].amount
       /\ cents = before(Len(rows) + 1)

Sound(b) ==
    /\ b \in Books
    /\ \A u \in Users, isReal \in BOOLEAN :
          AddsUpTo(b.ledger[<<u, isReal>>], Spendable(b.wallets[u], isReal))
=============================================================================
