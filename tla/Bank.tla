-------------------------------- MODULE Bank --------------------------------
(***************************************************************************)
(* What the database transactions of the game promise: every one of them   *)
(* takes effect in a single instant, against the committed tables of that  *)
(* instant, or not at all.  MoneyTx implements this specification.         *)
(***************************************************************************)
EXTENDS BankTables, Totals

CONSTANTS
    MinStake, MaxStake,   \* MIN_STAKE_CENTS, MAX_STAKE_CENTS
    DemoTarget,           \* DEMO_GRANT_CENTS, what a top-up tops up to
    InitReal, InitDemo,   \* opening balances
    InitBankroll,
    Requests              \* what players and the payout worker may ask for

Ops == {"spin", "topup", "withdraw", "settle", "fail"}

ASSUME StakesArePositive ==     \* config.Load
    MinStake \in Nat \ {0} /\ MaxStake \in Nat
ASSUME RequestsAreTyped ==
    Requests \subseteq [op : Ops, user : Users, isReal : BOOLEAN, amount : Nat, ref : Refs]
ASSUME OpeningIsSane ==
    /\ InitReal \in [Users -> Nat] /\ InitDemo \in [Users -> Nat]
    /\ InitBankroll \in Nat /\ DemoTarget \in Nat

VARIABLES
    books,          \* tables wallets, transactions and house
    spins,          \* table spins
    cooling,        \* users.demo_topup_at is younger than the cooldown
    withdrawals     \* table withdrawals

bankVars == <<books, spins, cooling, withdrawals>>

SpinRows == [user : Users, ref : Refs, isReal : BOOLEAN,
             stake : MinStake..MaxStake, mult : Mults]

OpenStatus == {"pending"}       \* pending, approved, sending
WithdrawalRows == [ref : Refs, user : Users, amount : Nat \ {0},
                   status : {"pending", "paid", "failed"}]

\* The rows a request for a spin or a withdrawal would insert.
SpinRow(r, mult) == [user |-> r.user, ref |-> r.ref, isReal |-> r.isReal,
                     stake |-> r.amount, mult |-> mult]
WithdrawalRow(r) == [ref |-> r.ref, user |-> r.user, amount |-> r.amount,
                     status |-> "pending"]

\* The unique index spins_client_ref.
Played(u, ref) == \E s \in spins : s.user = u /\ s.ref = ref

\* The unique index wd_client_ref.
Requested(u, ref) == \E w \in withdrawals : w.user = u /\ w.ref = ref

\* The unique index wd_one_open.
HasOpenWithdrawal(u) ==
    \E w \in withdrawals : w.user = u /\ w.status \in OpenStatus

BankTypeOK ==
    /\ books \in Books
    /\ spins \subseteq SpinRows
    /\ cooling \in [Users -> BOOLEAN]
    /\ withdrawals \subseteq WithdrawalRows
-----------------------------------------------------------------------------
BankInit ==
    /\ books = Opened(InitReal, InitDemo, InitBankroll)
    /\ spins = {}
    /\ cooling = [u \in Users |-> FALSE]
    /\ withdrawals = {}

(* One round: admitted against the balance and the bankroll it will be     *)
(* settled on.                                                             *)
Spin(r, mult) ==
    /\ r.op = "spin"
    /\ spins' = spins \cup {SpinRow(r, mult)}
    /\ r.amount \in MinStake..MaxStake
    /\ ~Played(r.user, r.ref)
    /\ Spendable(books.wallets[r.user], r.isReal) >= r.amount
    /\ r.isReal => books.house.bankroll >= MaxExposure(r.amount)
    /\ books' = SpinPosted(books, SpinRow(r, mult))
    /\ UNCHANGED <<cooling, withdrawals>>

(* One demo top-up per cooldown, whether or not it had anything to add.    *)
TopUpDemo(u) ==
    /\ ~cooling[u]
    /\ cooling' = [cooling EXCEPT ![u] = TRUE]
    /\ books' = ToppedUp(books, u, DemoTarget)
    /\ UNCHANGED <<spins, withdrawals>>

CooldownElapses(u) ==
    /\ cooling[u]
    /\ cooling' = [cooling EXCEPT ![u] = FALSE]
    /\ UNCHANGED <<books, spins, withdrawals>>

RequestWithdrawal(r) ==
    /\ r.op = "withdraw"
    /\ r.amount > 0
    /\ ~Requested(r.user, r.ref)
    /\ ~HasOpenWithdrawal(r.user)
    /\ MoveFits(books, r.user, TRUE, -r.amount)
    /\ withdrawals' = withdrawals \cup {WithdrawalRow(r)}
    /\ books' = Hold(books, r.user, r.amount, <<r.user, r.ref>>)
    /\ UNCHANGED <<spins, cooling>>

Closed(w, status) == (withdrawals \ {w}) \cup {[w EXCEPT !.status = status]}

SettleWithdrawal(w) ==
    /\ w.status \in OpenStatus
    /\ withdrawals' = Closed(w, "paid")
    /\ books' = ReleaseHold(books, w.user, w.amount)
    /\ UNCHANGED <<spins, cooling>>

FailWithdrawal(w) ==
    /\ w.status \in OpenStatus
    /\ withdrawals' = Closed(w, "failed")
    /\ books' = ReverseHold(books, w.user, w.amount, <<w.user, w.ref>>)
    /\ UNCHANGED <<spins, cooling>>

BankNext ==
    \/ \E r \in Requests : RequestWithdrawal(r) \/ \E m \in Mults : Spin(r, m)
    \/ \E u \in Users : TopUpDemo(u) \/ CooldownElapses(u)
    \/ \E w \in withdrawals : SettleWithdrawal(w) \/ FailWithdrawal(w)

BankSpec == BankInit /\ [][BankNext]_bankVars
-----------------------------------------------------------------------------
(* Properties of the committed tables. *)

(* I1: every balance is derivable from the ledger.  Row by row the ledger  *)
(* of a wallet adds up to the balance_after it records, and the last one   *)
(* is the balance of the wallet, whatever ran beside it.                   *)
LedgerExplainsBalances ==
    \A u \in Users, isReal \in BOOLEAN :
        AddsUpTo(books.ledger[<<u, isReal>>], Spendable(books.wallets[u], isReal))

RowsOf(b, u, isReal, kind, id) ==
    LET rows == b.ledger[<<u, isReal>>]
    IN {i \in 1..Len(rows) : rows[i].kind = kind /\ rows[i].ref = id}

(* The ledger holds one row of this kind for the spin, of this amount, or  *)
(* none when the amount is zero.                                           *)
RecordedOnce(b, u, isReal, kind, id, amount) ==
    IF amount = 0
    THEN RowsOf(b, u, isReal, kind, id) = {}
    ELSE \E i \in RowsOf(b, u, isReal, kind, id) :
            /\ RowsOf(b, u, isReal, kind, id) = {i}
            /\ b.ledger[<<u, isReal>>][i].amount = amount

(* I6: a spin has one bet of its stake and, when it pays, one win of its   *)
(* payout, in its own realm and none in the other, even when its request   *)
(* was sent many times and several handlers served it at once.             *)
SpinsFullyRecorded ==
    \A s \in spins :
        /\ RecordedOnce(books, s.user, s.isReal, "bet", SpinId(s), -s.stake)
        /\ RecordedOnce(books, s.user, s.isReal, "win", SpinId(s), Payout(s.stake, s.mult))
        /\ \A kind \in {"bet", "win"} :
               RecordedOnce(books, s.user, ~s.isReal, kind, SpinId(s), 0)

(* I7 both ways: a real spin pays its player's referrer the commission     *)
(* once, and nobody else earns one, nor from any other play.               *)
ReferralsEarned ==
    \A u \in Users :
        /\ \A s \in spins :
              RecordedOnce(books, u, TRUE, "referral", SpinId(s),
                           IF u = Payee(s.user, s.isReal)
                           THEN Commission(s.user, s.isReal, s.stake) ELSE 0)
        /\ LET rows == books.ledger[<<u, TRUE>>]
           IN \A i \in 1..Len(rows) :
                 rows[i].kind = "referral" => \E s \in spins : rows[i].ref = SpinId(s)

(* The unique index is never even tested by two committed rounds: a        *)
(* client_ref a player retries is played at most once.                     *)
RefPlayedOnce ==
    \A s, t \in spins : s.user = t.user /\ s.ref = t.ref => s = t

\* What is owned in real cents, by the players and by the house.
Wealth(b) ==
    Total([u \in Users |-> b.wallets[u].real + b.wallets[u].held])
        + b.house.bankroll + b.house.rake

PaidWithdrawals == {w \in withdrawals : w.status = "paid"}

PaidOut == Total([w \in PaidWithdrawals |-> w.amount])

(* Money is neither made nor lost: what the players and the house own in   *)
(* real cents, with what was paid out, is what there was at the start.     *)
RealMoneyConserved ==
    Wealth(books) + PaidOut = Total(InitReal) + InitBankroll

(* I5, for each player: what is held is his one open withdrawal.           *)
HeldMatches ==
    /\ \A w \in withdrawals :
          w.status \in OpenStatus => books.wallets[w.user].held = w.amount
    /\ \A u \in Users : ~HasOpenWithdrawal(u) => books.wallets[u].held = 0
    /\ \A v, w \in withdrawals :
          v.status \in OpenStatus /\ w.status \in OpenStatus /\ v.user = w.user => v = w
=============================================================================
