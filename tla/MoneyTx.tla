------------------------------ MODULE MoneyTx -------------------------------
(***************************************************************************)
(* The transactions that move money, as the goroutines of the API run them *)
(* concurrently: READ COMMITTED, every balance read FOR UPDATE, wallets    *)
(* locked in ascending user id, then the house, every write relative.      *)
(*                                                                         *)
(* The variables of Bank are the COMMITTED tables.  What a transaction has *)
(* written and not committed is a function of its request and its draw, is *)
(* seen by nobody, and is added to the tables by its Commit action; the    *)
(* statements between two lock acquisitions touch only rows this process   *)
(* has locked, so one Post action stands for them and for their CHECKs.    *)
(* A transaction may roll back wherever it is: a statement fails, the      *)
(* ten-second context expires, the client hangs up or the server dies.     *)
(***************************************************************************)
EXTENDS Bank

CONSTANTS
    Procs,          \* goroutines that run transactions
    NoProc,         \* nobody holds the lock
    NoReq,          \* no transaction is open
    Suspendable     \* users that SetActive is called for: a bound

ASSUME ProcsAreNotNoProc == NoProc \notin Procs
ASSUME NoReqIsNone       == NoReq \notin Requests
ASSUME SuspendableUsers  == Suspendable \subseteq Users

VARIABLES
    active,         \* users.is_active
    walletLock,     \* who holds the row lock of each wallet
    userLock,       \* who holds the row lock TopUpDemo's UPDATE users takes
    houseLock,      \* who holds the row lock of the house
    pc,             \* where each process is
    req,            \* the request each process is serving
    mult            \* the multiplier it drew

lockVars == <<walletLock, userLock, houseLock>>
vars == <<books, spins, cooling, withdrawals, active, walletLock, userLock,
          houseLock, pc, req, mult>>

PCs == {"idle", "wallets", "house", "draw", "post", "commit", "broken"}

TypeOK ==
    /\ BankTypeOK
    /\ active \in [Users -> BOOLEAN]
    /\ walletLock \in [Users -> Procs \cup {NoProc}]
    /\ userLock \in [Users -> Procs \cup {NoProc}]
    /\ houseLock \in Procs \cup {NoProc}
    /\ pc \in [Procs -> PCs]
    /\ req \in [Procs -> Requests \cup {NoReq}]
    /\ \A p \in Procs : pc[p] = "idle" <=> req[p] = NoReq
    /\ mult \in [Procs -> Mults \cup {0}]

Init ==
    /\ BankInit
    /\ active = [u \in Users |-> TRUE]
    /\ walletLock = [u \in Users |-> NoProc]
    /\ userLock = [u \in Users |-> NoProc]
    /\ houseLock = NoProc
    /\ pc = [p \in Procs |-> "idle"]
    /\ req = [p \in Procs |-> NoReq]
    /\ mult = [p \in Procs |-> 0]
-----------------------------------------------------------------------------
(* The wallets a transaction locks; payCommission decides on the second.   *)
LockSet(r) ==
    IF r.op = "spin" THEN {r.user, Payee(r.user, r.isReal)} \ {NoUser} ELSE {r.user}

Unlocked(p) == {u \in LockSet(req[p]) : walletLock[u] # p}

WalletsLocked(p) == Unlocked(p) = {}

\* Mutant: the caller's wallet first, then the referrer's.
NextWalletOwnFirst(p) ==
    IF req[p].user \in Unlocked(p) THEN req[p].user ELSE CHOOSE u \in Unlocked(p) : TRUE

\* ORDER BY user_id FOR UPDATE.
NextWallet(p) == CHOOSE u \in Unlocked(p) : \A v \in Unlocked(p) : u <= v

Serving(p, op) == pc[p] # "idle" /\ req[p].op = op

Goto(p, where) == pc' = [pc EXCEPT ![p] = where]

Open(p, r) ==
    /\ pc[p] = "idle"
    /\ req' = [req EXCEPT ![p] = r]
    /\ Goto(p, "wallets")

(* Both COMMIT and ROLLBACK release every lock of the transaction.         *)
End(p) ==
    /\ Goto(p, "idle")
    /\ req' = [req EXCEPT ![p] = NoReq]
    /\ mult' = [mult EXCEPT ![p] = 0]
    /\ walletLock' = [u \in Users |-> IF walletLock[u] = p THEN NoProc ELSE walletLock[u]]
    /\ userLock' = [u \in Users |-> IF userLock[u] = p THEN NoProc ELSE userLock[u]]
    /\ houseLock' = IF houseLock = p THEN NoProc ELSE houseLock
    /\ UNCHANGED active

Abandon(p) == End(p) /\ UNCHANGED bankVars

Rollback(p) == pc[p] # "idle" /\ Abandon(p)
-----------------------------------------------------------------------------
(* Service.Spin. *)

BeginSpin(p, r) ==
    /\ r.op = "spin"
    /\ r.amount \in MinStake..MaxStake
    /\ active[r.user]
    /\ Open(p, r)
    /\ UNCHANGED <<bankVars, active, lockVars, mult>>

LockWallet(p) ==
    /\ pc[p] = "wallets"
    /\ ~WalletsLocked(p)
    /\ walletLock[NextWallet(p)] = NoProc
    /\ walletLock' = [walletLock EXCEPT ![NextWallet(p)] = p]
    /\ UNCHANGED <<bankVars, active, userLock, houseLock, pc, req, mult>>

CheckFunds(p) ==
    /\ pc[p] = "wallets" /\ Serving(p, "spin") /\ WalletsLocked(p)
    /\ LET r == req[p]
           enough == Spendable(books.wallets[r.user], r.isReal) >= r.amount
       IN \/ /\ enough
             /\ Goto(p, IF r.isReal THEN "house" ELSE "draw")
             /\ UNCHANGED <<bankVars, active, lockVars, req, mult>>
          \/ ~enough /\ Abandon(p)            \* ErrInsufficientFunds

\* Mutant: admission reads the house without FOR UPDATE.
LockHouseUnlocked(p) ==
    /\ pc[p] = "house"
    /\ houseLock = NoProc
    /\ LET affordable == books.house.bankroll >= MaxExposure(req[p].amount)
       IN \/ affordable /\ Goto(p, "draw") /\ UNCHANGED <<bankVars, active, lockVars, req, mult>>
          \/ ~affordable /\ Abandon(p)

(* HouseLock and admission control.                                        *)
LockHouse(p) ==
    /\ pc[p] = "house"
    /\ houseLock = NoProc
    /\ LET affordable == books.house.bankroll >= MaxExposure(req[p].amount)
       IN \/ /\ affordable
             /\ houseLock' = p
             /\ Goto(p, "draw")
             /\ UNCHANGED <<bankVars, active, walletLock, userLock, req, mult>>
          \/ ~affordable /\ Abandon(p)        \* ErrStakeExceedsBank

(* A unique index makes an INSERT wait for an uncommitted one of its key.  *)
KeyContends(p, q) ==
    /\ q # p
    /\ pc[q] \in {"post", "commit"} /\ Serving(q, "spin")
    /\ req[q].user = req[p].user /\ req[q].ref = req[p].ref

KeyContended(p) == \E q \in Procs : KeyContends(p, q)

\* Mutant: the unique index spins_client_ref is missing.
DrawUnchecked(p) ==
    /\ pc[p] = "draw"
    /\ \E m \in Mults : mult' = [mult EXCEPT ![p] = m]
    /\ Goto(p, "post")
    /\ UNCHANGED <<bankVars, active, lockVars, req>>

(* The draw and INSERT INTO spins.                                         *)
Draw(p) ==
    /\ pc[p] = "draw"
    /\ ~KeyContended(p)
    /\ LET played == Played(req[p].user, req[p].ref)
       IN \/ /\ ~played
             /\ \E m \in Mults : mult' = [mult EXCEPT ![p] = m]
             /\ Goto(p, "post")
             /\ UNCHANGED <<bankVars, active, lockVars, req>>
          \/ played /\ Abandon(p)             \* ErrDuplicateSpin

Drawn(p) == SpinRow(req[p], mult[p])

\* Mutant: the bet is written through the pool, outside the transaction.
PostSpinThroughPool(p) ==
    /\ pc[p] = "post"
    /\ Goto(p, "commit")
    /\ books' = BetPlaced(books, Drawn(p))
    /\ UNCHANGED <<spins, cooling, withdrawals, active, lockVars, req, mult>>

(* Bet, win, house and commission.  "broken" is the branch the code calls  *)
(* unreachable: a CHECK fires although admission control let the spin by.  *)
PostSpin(p) ==
    /\ pc[p] = "post"
    /\ Goto(p, IF SpinFits(books, Drawn(p)) THEN "commit" ELSE "broken")
    /\ UNCHANGED <<bankVars, active, lockVars, req, mult>>

CommitSpin(p) ==
    /\ pc[p] = "commit" /\ Serving(p, "spin")
    /\ books' = SpinPosted(books, Drawn(p))
    /\ spins' = spins \cup {Drawn(p)}
    /\ UNCHANGED <<cooling, withdrawals>>
    /\ End(p)
-----------------------------------------------------------------------------
(* Service.TopUpDemo: the UPDATE claims the cooldown and keeps the row.    *)

ClaimTopUp(p, r) ==
    /\ r.op = "topup"
    /\ userLock[r.user] = NoProc
    /\ ~cooling[r.user]                       \* else ErrTopUpNotEligible
    /\ Open(p, r)
    /\ userLock' = [userLock EXCEPT ![r.user] = p]
    /\ UNCHANGED <<bankVars, active, walletLock, houseLock, mult>>

CommitTopUp(p) ==
    /\ pc[p] = "wallets" /\ Serving(p, "topup") /\ WalletsLocked(p)
    /\ cooling' = [cooling EXCEPT ![req[p].user] = TRUE]
    /\ books' = ToppedUp(books, req[p].user, DemoTarget)
    /\ UNCHANGED <<spins, withdrawals>>
    /\ End(p)
-----------------------------------------------------------------------------
(* The withdrawal flow around Hold, ReleaseHold and ReverseHold: the worker *)
(* that will drive it is not written; it locks the wallet and the           *)
(* withdrawal's row, and calls one of the three, as wallet_test.go does.    *)

BeginWithdrawal(p, r) ==
    /\ r.op = "withdraw"
    /\ r.amount > 0
    /\ Open(p, r)
    /\ UNCHANGED <<bankVars, active, lockVars, mult>>

PostWithdrawal(p) ==
    /\ pc[p] = "wallets" /\ Serving(p, "withdraw") /\ WalletsLocked(p)
    /\ LET r == req[p]
           ok == /\ MoveFits(books, r.user, TRUE, -r.amount)
                 /\ ~HasOpenWithdrawal(r.user)
                 /\ ~Requested(r.user, r.ref)
       IN \/ /\ ok
             /\ Goto(p, "commit")
             /\ UNCHANGED <<bankVars, active, lockVars, req, mult>>
          \/ ~ok /\ Abandon(p)

CommitWithdrawal(p) ==
    /\ pc[p] = "commit" /\ Serving(p, "withdraw")
    /\ LET r == req[p]
       IN /\ books' = Hold(books, r.user, r.amount, <<r.user, r.ref>>)
          /\ withdrawals' = withdrawals \cup {WithdrawalRow(r)}
    /\ UNCHANGED <<spins, cooling>>
    /\ End(p)

Closing(p) == Serving(p, "settle") \/ Serving(p, "fail")

BeginClosing(p, r) ==
    /\ r.op \in {"settle", "fail"}
    /\ WithdrawalRow(r) \in withdrawals
    /\ \A q \in Procs : Closing(q) => <<req[q].user, req[q].ref>> # <<r.user, r.ref>>
    /\ Open(p, r)
    /\ UNCHANGED <<bankVars, active, lockVars, mult>>

PostClosing(p) ==
    /\ pc[p] = "wallets" /\ Closing(p) /\ WalletsLocked(p)
    /\ Goto(p, IF books.wallets[req[p].user].held >= req[p].amount
               THEN "commit" ELSE "broken")   \* "hold accounting is corrupt"
    /\ UNCHANGED <<bankVars, active, lockVars, req, mult>>

CommitClosing(p) ==
    /\ pc[p] = "commit" /\ Closing(p)
    /\ LET r == req[p]
       IN \/ /\ r.op = "settle"
             /\ books' = ReleaseHold(books, r.user, r.amount)
             /\ withdrawals' = Closed(WithdrawalRow(r), "paid")
          \/ /\ r.op = "fail"
             /\ books' = ReverseHold(books, r.user, r.amount, <<r.user, r.ref>>)
             /\ withdrawals' = Closed(WithdrawalRow(r), "failed")
    /\ UNCHANGED <<spins, cooling>>
    /\ End(p)
-----------------------------------------------------------------------------
SetActive(u, flag) ==
    /\ userLock[u] = NoProc
    /\ active' = [active EXCEPT ![u] = flag]
    /\ UNCHANGED <<bankVars, lockVars, pc, req, mult>>

CooldownPasses(u) ==
    /\ CooldownElapses(u)
    /\ UNCHANGED <<active, lockVars, pc, req, mult>>

Begin(p) ==
    \E r \in Requests :
        BeginSpin(p, r) \/ ClaimTopUp(p, r) \/ BeginWithdrawal(p, r) \/ BeginClosing(p, r)

Step(p) ==
    \/ LockWallet(p) \/ CheckFunds(p) \/ LockHouse(p) \/ Draw(p) \/ PostSpin(p)
    \/ CommitSpin(p) \/ CommitTopUp(p)
    \/ PostWithdrawal(p) \/ CommitWithdrawal(p) \/ PostClosing(p) \/ CommitClosing(p)

Next ==
    \/ \E p \in Procs : Begin(p) \/ Step(p) \/ Rollback(p)
    \/ \E u \in Suspendable, flag \in BOOLEAN : SetActive(u, flag)
    \/ \E u \in Users : CooldownPasses(u)

Spec == Init /\ [][Next]_vars

(* Postgres serves the waiters of a row lock in the order they came, so a  *)
(* transaction that is not cancelled is never passed over for ever.        *)
FairSpec == Spec /\ \A p \in Procs : SF_vars(Step(p))
-----------------------------------------------------------------------------
(* Properties. *)

(* ErrBankrollExhausted and the other CHECK failures the code calls        *)
(* unreachable are: what was admitted can still be settled at the end.     *)
ChecksNeverFire == \A p \in Procs : pc[p] # "broken"

\* The transactions that a transaction waits for, if it waits.
Blockers(p) ==
    CASE pc[p] = "wallets" /\ ~WalletsLocked(p) -> {walletLock[NextWallet(p)]}
      [] pc[p] = "house" -> {houseLock}
      [] pc[p] = "draw"  -> {q \in Procs : KeyContends(p, q)}
      [] OTHER -> {}

(* No set of transactions wait for each other's rows in a circle: players  *)
(* who refer each other spin at once, and top-ups keep a users row.        *)
NoDeadlock ==
    \A S \in SUBSET Procs : S # {} => \E p \in S : Blockers(p) \cap S = {}

(* I8, and more: no step changes or drops a row the ledger holds, and a    *)
(* step that writes it writes on behalf of one transaction, at its commit. *)
LedgerAppendOnly ==
    [][/\ \A k \in Users \X BOOLEAN :
              /\ Len(books.ledger[k]) <= Len(books'.ledger[k])
              /\ SubSeq(books'.ledger[k], 1, Len(books.ledger[k])) = books.ledger[k]
       /\ books.ledger # books'.ledger =>
              \E p \in Procs : pc[p] # "idle" /\ pc'[p] = "idle"]_vars

(* Every transaction that begins ends, committed or not, and frees its     *)
(* locks, however the others interleave with it.                           *)
TransactionsEnd == \A p \in Procs : (pc[p] # "idle") ~> (pc[p] = "idle")
-----------------------------------------------------------------------------
(* The inductive invariant.  What a transaction established under a lock   *)
(* still holds while it keeps the lock.                                    *)

SpinInv(p) ==
    LET r == req[p]
    IN Serving(p, "spin") =>
        /\ r.amount \in MinStake..MaxStake
        /\ pc[p] # "wallets" => Spendable(books.wallets[r.user], r.isReal) >= r.amount
        /\ pc[p] = "house" => r.isReal
        /\ pc[p] \in {"draw", "post", "commit"} /\ r.isReal =>
               houseLock = p /\ books.house.bankroll >= MaxExposure(r.amount)
        /\ pc[p] \in {"post", "commit"} => mult[p] \in Mults /\ ~Played(r.user, r.ref)

TopUpInv(p) ==
    Serving(p, "topup") =>
        pc[p] = "wallets" /\ userLock[req[p].user] = p /\ ~cooling[req[p].user]

WithdrawalInv(p) ==
    LET r == req[p]
    IN Serving(p, "withdraw") =>
        /\ r.amount > 0
        /\ pc[p] \in {"wallets", "commit"}
        /\ pc[p] = "commit" => /\ MoveFits(books, r.user, TRUE, -r.amount)
                               /\ ~Requested(r.user, r.ref)
                               /\ ~HasOpenWithdrawal(r.user)

ClosingInv(p) ==
    Closing(p) =>
        /\ pc[p] \in {"wallets", "commit"}
        /\ WithdrawalRow(req[p]) \in withdrawals
        /\ \A q \in Procs \ {p} :
              Closing(q) => <<req[q].user, req[q].ref>> # <<req[p].user, req[p].ref>>

TxInv(p) ==
    /\ pc[p] \notin {"idle", "wallets"} => WalletsLocked(p)
    /\ pc[p] # "broken"
    /\ SpinInv(p) /\ TopUpInv(p) /\ WithdrawalInv(p) /\ ClosingInv(p)

IInv ==
    /\ TypeOK
    /\ Sound(books)
    /\ RefPlayedOnce
    /\ HeldMatches
    /\ \A p \in Procs : TxInv(p)
=============================================================================
