# A verification development for braelaspin

braelaspin is a spin-the-wheel game for real money: a Go API in front of
Postgres and Redis, and two clients, web and Flutter, with the same logic. This
directory holds TLA+ modules that model the parts whose correctness is hard to
test, TLC configurations that check them on small instances, and TLAPS proofs of
what matters most.

## 1. Inventory

| component | state | operations | talks to | hard because | correct when |
|---|---|---|---|---|---|
| wallets, ledger, house (`internal/wallet`, `0001_init.sql`) | tables `wallets`, `transactions`, `house` | `Lock`, `HouseLock`, `Move`, `MoveHouse`, `Hold`, `ReleaseHold`, `ReverseHold` | called inside the transactions of the spin engine, the users service and the payout worker to come | concurrent transactions on the same rows, lock order, partial failure | the ledger explains every balance, money is neither made nor lost, no deadlock |
| spin engine (`internal/game/spin.go`) | table `spins` | `Spin`, `FindByClientRef`, `Config` | wallets, wheel | admission control long before the debit it guards, retries of a key | what is admitted settles, one round per key |
| wheel (`internal/game/wheel.go`) | none | `PickFrom`, `Payout`, `MaxExposure`, `MaxAffordableStake`, `Validate` | spin engine, configuration | truncation and int64 overflow | no admitted stake overflows, advertised stakes are accepted |
| integrity checks (`wallet/invariant.go`) | none | `Invariants`, `AssertInvariant` | all tables | run beside the transactions they check | they complain of nothing while the code is right |
| users (`internal/users`) | table `users` | `Create`, `TopUpDemo`, `SetActive` | wallets | unique keys under concurrency, collisions of generated codes, the cooldown claim | one top-up per cooldown, one whole account per line |
| history lists (`internal/api/game.go`) | none | `spins`, `history`, `page` | tables `spins`, `transactions` | rows become visible out of the order of their ids | each row is read once; the running balances add up |
| spin request (`internal/api/game.go`, `internal/rds`) | Redis key per `client_ref` | `Claim`, `Store`, `Release`, `spin`, `spinByRef` | client, spin engine | time-outs, retries, an ambiguous commit, Redis restarts | a retry never plays twice; the answers tell the truth |
| sessions (`internal/auth/token.go`, `internal/api/auth.go`, `internal/rds`) | refresh tokens and bans in Redis, access tokens at the client | login, refresh, logout, logout-all | middleware | stateless access tokens, expiry, token theft, restarts | a token is rotated at most once, a ban outlives the tokens it bans |
| rate limits (`internal/rds`, `internal/httpx`) | a counter with a TTL per action and subject | `Allow` | every route | INCR and EXPIRE NX of concurrent callers; fails open without Redis; twice the limit across a boundary, as documented | at most twice the limit in any window; who waits as told gets in |
| client session (`web/src/core/api.ts`, `app/lib/core/api.dart`) | tokens, the refresh in flight | `send`, `refreshOnce` | the API | callbacks in any order | one refresh at a time, no request lost |
| client store (`web/src/core/store.ts`, `app/lib/core/store.dart`) | spin phase, balances, mode | `placeSpin`, `recoverSpin`, `settleSpin`, `refreshMe` | client session, spin screen | a lost answer, a result or a read that lands late | the balance shown is one the server had, and counts every settled round |
| spin screen (`ui/screens/spin.ts`, `spin_screen.dart`, `ui/wheel-view.ts`, `wheel_view.dart`, `ui/app.ts`) | the Spin button, the wheel that turns | `_spin`, `spinTo`, `destroy`, mode and tab switches | client store | callbacks that outlive their screen | one bet at a time, and always the next one |
| server lifecycle and configuration (`cmd/api`, `internal/config`) | the process and its step | `Load`, `serve`, SIGTERM, `Shutdown` | everything | a start that fails half-way, requests in flight at shutdown | only a sound configuration serves |
| deployment (`deploy/`, `internal/db`) | the binary, the schema version | swap, `migrate up`, restart, health check | the server, systemd | a process that dies and restarts between two steps | no binary serves on a schema older than its own; a deployment ends |
| phone numbers, passwords (`internal/auth`) | none | `Normalise`, `ValidatePassword` | registration, login | one line has three spellings | one spelling in the database |
| HTTP plumbing, user interface, winners feed | - | - | - | - | not modelled: no state that interleaves |
| M-Pesa, admin, live feed | tables only | none at this commit | - | - | not modelled: not written yet |

Hard everywhere: transactions and requests that interleave; a request that is
cancelled, by its ten-second limit or by SIGTERM, between any two calls; a
Redis that may restart empty; a commit whose answer is lost; clients whose
callbacks arrive in any order. `PROJECT.json` lists each hazard with its line
and the properties that would catch it.

## 2. Plan

Done, in this order: the money core (`BankTables`, `Bank`, `MoneyTx`,
`Integrity`), the spin request (`Rounds`, `SpinHandler`, `PlaceSpin`), the
server's sessions (`Sessions`), the session of a client (`ClientSession`), its
game (`GameScreen`), the wheel and the life of the server (`Wheel`, `Server`),
the lists a player reads (`History`), and registration behind its rate limit
(`RateLimit`, `Signup`, `Accounts`): first what money depends on, then what
tells the player the truth about it, then what keeps it running. All of them
have proofs.

Left: the geometry of the wheels (`core/wheel.ts`, `spin_math.dart`), that is,
that the wheel stops at the segment the server chose; the stake ladder of the
clients.

## 3. The modules

| module | models | role |
|---|---|---|
| `BankTables` | `wallet.go`, CHECKs of `0001_init.sql`, the arithmetic of `spin.go` | the money tables as one record `books`, each statement an operator on it |
| `Bank` | what the transactions promise | abstract specification: each transaction takes effect at one instant |
| `MoneyTx` | `Service.Spin`, `TopUpDemo`, `SetActive`, the withdrawal calls | detailed: goroutines, row locks, rollbacks; implements `Bank` |
| `Totals` | `SUM(column)` | the sum of the values of a function, for the modules above and below |
| `Integrity` | `wallet/invariant.go` | the checks, as operators on the tables of `Bank` |
| `Rounds` | what a player is promised about a `client_ref` | abstract: played once or never, one outcome told |
| `SpinHandler` | `api/game.go` `spin` and `spinByRef`, `rds.go` `Claim`, `Store`, `Release` | the handlers and the idempotency key; implements `Rounds` |
| `PlaceSpin` | `placeSpin`, `recoverSpin` and the network | composes one client with `SpinHandler` |
| `Sessions` | `token.go`, `api/auth.go`, `RequireAuth`, the refresh and ban keys | the sessions of a user at the server |
| `ClientSession` | `api.ts`, `api.dart`, the session part of the stores | one running client: callers of `send`, the refresh they share, reloads |
| `GameScreen` | the game part of the stores, `spin.ts`, `spin_screen.dart`, the wheel views, `app.ts` | one running client: presses, screens, modes, reads |
| `Wheel` | `wheel.go` | the tables, the draw and the arithmetic, on machine words |
| `Server` | `main.go`, `config.Load`, `db.go`, `deploy.sh`, the limits of `Service.Spin` and `Config` | one process and its deployment |
| `History` | `api/game.go` `spins`, `history`, `page`; the INSERTs of `Service.Spin` | one reader beside the transactions that write |
| `RateLimit` | `rds.go` `Allow`, `middleware.go` `RateLimit` | one counter, its window and its callers |
| `Signup` | `register`, `users.Create`, `phone.go`, `ValidatePassword` | composes concurrent registrations with `RateLimit`; implements `Accounts` |
| `Accounts` | what a registration promises | abstract: one whole account per line, true answers |
| `*Proofs` | | theorems about the module they extend; `MoneyTxProofs` begins with the sums, the single statements and the transactions of `Bank`, and covers `Integrity` |
| `MC*` | | instances for TLC |

### Money core

State: `books.wallets`, `books.ledger`, `books.house`, `spins`, `withdrawals`
and `cooling` are the committed tables; `walletLock`, `userLock` and `houseLock`
the row locks; `pc`, `req` and `mult` the goroutine. `MoneyTx` runs READ
COMMITTED as the code uses it: `LockWallet` is one row of `SELECT ... ORDER BY
user_id FOR UPDATE`, `CheckFunds` the comparison after it, `LockHouse` the
house's row and admission control, `Draw` the draw and the INSERT of the spin
(which waits for, and fails on, the same `client_ref`), `PostSpin` the debit,
credit, house and commission statements, `CommitSpin` the commit. What is
written and not committed is a function of the request and the draw and is added
to the tables by the commit; `Rollback` may come anywhere before. A CHECK that
fails leads to `broken`, which `ChecksNeverFire` says is never reached.

`Hold`, `ReleaseHold` and `ReverseHold` have no caller in `internal/` yet; the
withdrawal actions call them as `wallet_test.go` does and as the tables demand.
That a withdrawal is settled or reversed once, while it is open, is a guard of the
model (`BeginClosing`): the three calls check nothing of the sort, so no property
here speaks of a caller that gets it wrong.

`Integrity` is the integrity checks as they are: each one SELECT over the
committed tables, so one state of them. They see less than the properties
beside them (I6 and I7 do not notice a commission that was not paid, for one),
but they are what production would run, and `AlwaysHealthy` says they may run at
any time.

### Spin request

State: `played` is table `spins` for each `client_ref`, `key` the Redis key, and
`pc`, `serving`, `result`, `reply` each handler; `phase`, `current`, `attempt`
and `verdict` are the client's. One step is one call to Redis or Postgres.
`Service.Spin` is one step, as `AtomicTransactions` allows. Every call may fail
with or without its effect; `ServerCrashes` drops all handlers; Redis restarts
empty; keys expire. The client posts once, but a request may arrive late or
again, since `game.go:38-40` makes its promise to clients that repeat it.

### Sessions

State: `live` are the refresh tokens in Redis, `ban` the ticks left of the ban
key, `access` the ticks left of each access token, `pc`, `token` and `age` the
requests. `Consume`, `CheckBan`, `Lookup`, `Issue`, `AllowAgain` and `RevokeAll`
are the calls in the order of the handlers. A tick is the minute by which a ban
outlasts access tokens; a request lives ten seconds, so it spans at most one.

### Client session

State: the tokens in storage, `refreshing`, `presented` and `granted` (the
shared refresh), `pc` and `bearer` of each `send`, `auth`. A step runs from one
`await` to the next, all the callers a promise resumes included. `Reload` may
come at any time, and a request that was given up may still reach the server.

### Game screen

State: `wallet` and `ver` are the server's wallets and the number of their
states, `round` is where the handler of each press waits, `phase`, `shown` and
`mode` are `Store.spin`, `Store.balances` and `Store.realMode`, `mounted` and
`disabled` the screen and its button. `Painted` is the subscription to
`store.spin`; nothing else paints the web's button. A bet that timed out is
looked up (`LookUp`, `FindByClientRef`): the answer has the payout of the round and
the wallet as it is by then, with the number of that state, which may count a
credit or a later bet in. Where the clients differ
the model has the web's behaviour: the Dart button listens to the balances too,
and Dart shows the result in a dialog between `settleSpin` and `clearSpin`.
Abstracted: stakes are the minimum stake, the bankroll's cap on real stakes is
not reached, and the sessions are those of one account.

### Wheel and server

State: `env` is the environment file, `installed` and `running` the binaries,
by the schema version each was built for, `schema` the database's, `phase` the
step of `serve`, `deploy` the line of `deploy.sh`, `flights` the requests;
`shown` and `answer` are the last config and the last spin the server answered.
The steps of `serve` come in the order of `main.go`; any of them may fail, the
process may die at any time, and systemd starts it again. `Wheel` computes as
Go does: a product wraps at the word, a quotient truncates. Service.Spin is one
step, and the bankroll moves by itself: the order of statements is `MoneyTx`'s
subject, what they compute is this one's. Configuration is the values the game
depends on; all the others are right or wrong together (`wellFormed`), since
`Load` refuses either way. A migration is one step: goose runs each in a
transaction, and the repository has a single one.

### History

State: `rows` are the committed rows of `spins` and `transactions`, `wallets` the
committed balances, `nextId` the two sequences, `written` what each transaction
has inserted, `balance` what its UPDATEs made of the wallets it locked, `round`
whose it is and whether for real money; `query`, `cursor` and `pages` are the
reader's. A bet is 1, a win 2, a commission 1, and balances count from what a
player had before: what matters of the money here is that no two entries of a
wallet are written at once. A page is one SELECT; `Newest` puts each row at its
`Place`, which is how many rows there are from its id up.

### Registration

State: `users`, `granted` and `active` are what is committed of `users`,
`wallets` and `transactions`; `pc`, `asked`, `code` and `attempt` the requests;
`hits` and `ttl` the Redis counter, `watch` an observer that begins at any
admission and counts those of one window from it on, and `owed` what a caller
remembers of a refusal. A phone is its digits, so `Normalise` is what the code does to them. The two
unique indexes are separate steps (`InsertPhone`, `InsertCode`), each of which
waits for an uncommitted entry of the same key, as Postgres does. `watch`
starts afresh when Redis fails or restarts, as the code then admits everybody.
`Retry-After` is the TTL in whole ticks: the code adds a second to it, so what
holds without that second holds with it.

## 4. The runs

Passing runs are exhaustive: no state constraint, only the bounds named here.
`money_safety`, `game_screen`, `server`, `history` and `signup` take one to
four minutes with two workers, the others less than one.

| run | instance | distinct states | why the bounds are enough |
|---|---|---|---|
| `money_safety` | 3 goroutines; players 1 and 2 refer each other, 3 shares no wallet with them; 8 requests of every kind; a house that can pay the 200x once and not twice | 334535 | the shortest lock cycle needs two referred spins and a third transaction that waits; admission control bites only when two spins together would overdraw |
| `money_liveness` | 2 goroutines, 4 requests, player 1 may be suspended | 17532 | two transactions that take the same rows again and again |
| `spin_request` | 3 handlers, one `client_ref`, 2 outcomes, 3 attempts | 71291 | `client_ref`s share no server state; two handlers race while a third retries |
| `sessions` | 2 requests, 3 tokens, access tokens of 2 ticks, a margin of 1 | 425409 | two requests race for a token and its successor; a third token is a second session |
| `client_session` | 3 calls, 3 pairs | 494040 | a refresh, a caller who joins it and one who is late |
| `game_screen` | 2 presses, 2 reads, 1 credit, a win and a loss, balances of one stake | 1978225 | a read overtaken by a round, and by another read; a balance that is used up |
| `server` | 4 segments, 13-bit words (products of bankrolls above 204 and stakes above 25 wrap), 7 environments of which 2 may serve, 5 bankrolls up to the largest word, 1 request, 1 deployment | 354060 | both branches of the affordable stake and both sides of every limit; a request that outlives SIGTERM; every environment fails another check |
| `history` | 2 players, one the other's referrer, 2 transactions, 3 rounds, pages of 1 to 3 | 772664 | two transactions that can draw ids in one order and commit in the other, and a third round after the first page |
| `signup` | 2 requests, 6 different bodies (two valid ones spell one line; one each has a bad number, a bad password, a malformed body), 3 codes, 2 attempts, a limit of 2 in a window of 2 ticks | 1141498 | two inserts of a phone or a code race, the one that waits is refused or gets it; a window passes and another begins |

The properties of each run are in its `.cfg`, stated in words in the module.
Deadlock is checked but in `server` (nothing serves in a bad environment) and
`history` (rounds are bounded): no other instance may get stuck. `MCServer` also evaluates
`game.Validate` on the two tables the repository ships, and `MCSignup` checks
that `Normalise` gives every spelling over some digits its one line.

The violation runs each show one statement of the repository that the code does
not keep; section 6.

**Fairness.** `money_liveness` assumes strong fairness of each goroutine's
`Step`. Postgres queues the waiters of a row lock, so a transaction
that can get its lock again and again gets it; and a goroutine runs until its
transaction ends. `Begin` and `Rollback` have no fairness. `server` assumes weak fairness of what
a deployment does next (the script runs on, the signal arrives, `Shutdown` has
its fifteen seconds, the health check its thirty polls) and none of a request,
a start or a crash: `DeploymentEnds` holds whatever those do. `history` assumes
that a player who began to scroll scrolls on. No liveness is
claimed of clients: on the web the refresh has no time-out, and a player need
not press anything.

**Deadlock of locks** is an invariant (`NoDeadlock`) and not TLC's deadlock
check, because a transaction may always roll back in the model.

## 5. What is proved

TLAPS proves, for every value of the constants that meets the assumptions:

| theorem | says |
|---|---|
| `TypeCorrect` of each module (of `Server` it is `ServerTypeOK`) | no wallet, bankroll or rake is negative, no payout or limit out of range, and every table, lock and process stays of its type |
| `LedgerExplains` | the ledger explains every balance, row by row |
| `LedgerOnlyGrows` | no row of the ledger changes or goes |
| `RealMoneyIsConserved` | no transaction makes or loses a real cent |
| `EverySpinIsRecorded`, `EveryReferralIsEarned` | a spin has its rows and no others; a commission is owed, and what is owed is paid |
| `ChecksStayQuiet` | the integrity checks find nothing, whenever they run |
| `AdmittedSpinsSettle` | what admission control let by settles, whatever it draws |
| `PlayedAtMostOnce` | a `client_ref` is played at most once |
| `AtomicTransactions` | `MoneyTx` implements `Bank` |
| `NeverDeadlocked` | transactions never wait for each other in a circle |
| `PlaceSpinProofs!PromiseKept` | clients, network, handlers and Redis implement `Rounds` |
| `ClaimsHold`, `StoredResponsesStay` | a claim is exclusive while Redis keeps it; no handler that failed, was refused or came second removes the response of another |
| `RejectionsAreFinal` | a bet that arrived once and was refused is not played, then or later |
| `OneRedeemer`, `DeadTokensStayDead` | sessions are chains; a spent refresh token stays dead |
| `LogoutAllHolds`, `SuspensionCompletes` | a ban outlasts what it must stop; a suspended account is out in the end |
| `EachTokenPresentedOnce`, `SignedInMeansSession` | single flight; who is shown as signed in has a token |
| `ReplaysAreNew` | a replay never carries the token its request was refused for |
| `AffordableStakesAreCovered`, `PayoutsAreAlwaysExact` | for every word width and wheel: an affordable stake is covered, and nothing paid has overflowed |
| `PromisesAreKept` | a bet within the maximum shown is not refused for a bankroll that is no smaller, and a refusal names a stake that is covered |
| `TheEdgeIsKept` | a stake is worth no more than itself in the mean, rake and commission included |
| `EveryDrawLandsOnce` | on a table `Validate` passes, a draw lands in exactly one segment |
| `SchemaIsNeverBehind`, `DeploymentsAreReal` | no process serves on an older schema; a deployment that succeeded is the new binary |
| `NoSecondBet`, `ShownIsTrue`, `RoundsCountInOrder` | one bet at a time; balances shown are true and count settled rounds |
| `LimitIsSound`, `AdmissionsStayBounded`, `WaitingIsEnough` | at most twice the limit in any window; who waits as told gets in |
| `RowsAppearInOrder` | a player's rows become visible in the order of their ids |
| `StatementsAddUp`, `PagesStayFaithful` | every balance in the ledger takes on from the one before, up to the wallet; pages skip and repeat nothing |
| `AccountsAreSound`, `RegistrationKeepsPromise` | concurrent registrations implement `Accounts`: one whole account per line and code |

**Assumptions.** Users are numbers, finitely many, and nobody refers himself (a
CHECK); the wheel has a multiplier and rake plus commission leave the edge its share (what
`game.Validate` and `config.Load` refuse otherwise); stakes and opening
balances are not negative; the real wheel's top pays at least 1x (200x as
shipped; below 1x `MaxAffordableStake` itself would wrap, whatever `Validate`
says) and its RTP is a whole number of basis points (9000; `Validate` rounds
down, section 6, and without this `TheEdgeIsKept` is false); bankrolls and
stakes fit a word; the code that refers the first players is registered; lifetimes are positive, and so are the limits of a page; placeholders differ from
what they stand for. Each is named in the module that declares the constant,
and TLC evaluates it in a passing run.

**Arguments.** Each module has an inductive invariant, and one lemma per action.

- `IInv` of `MoneyTx`: beside the type and `Sound(books)` (each ledger adds up to
  its wallet), what a transaction established under a lock still holds while it
  keeps the lock: the funds it checked, the bankroll that covers its worst
  case, a `client_ref` nobody has committed. `ChecksNeverFire` alone is not
  inductive: nothing would say why the house still has the money at `PostSpin`.
  `HeldMatches` says player by player what I5 says of the sums, as one open
  withdrawal per player allows. The lemmas about single statements come first.
- `TablesAgree` is what the committed tables say of each other: the rows of the
  ledger and those of `spins` and `withdrawals` match one to one, every row is
  lawful in its realm (`LawfulBooks`), and real money adds up. Each part is kept by
  the steps of `Bank`; that `MoneyTx` implements `Bank` carries it over. The checks
  I1 to I7 follow from it (`TablesAreHealthy`).
- `LocksInOrder`: a transaction holds wallets of its own request, those with the
  lower ids first, and the house only once it has them all. Of transactions that
  wait for each other, take the one that waits for the highest wallet: who holds that
  waits for a wallet too, and by the order it is a higher one (`NoCircle`).
- Sums are sums over finite sets or over segments. The library's induction
  theorems take an operator as a parameter, which no backend can instantiate, so
  induction is done on a minimal counterexample: a set of subsets has a minimal
  member (`MinimalSet`), a set of numbers a least one (`NatSetInduction`,
  `Counting`). From that: the fold behind `Total` exists, and may take any element
  first (`TotalSplits`).
- `HandlerInv`: what is stored, about to be stored or about to be answered is the
  outcome in table `spins`; a claim that Redis has not lost has one owner. The
  client's steps leave the handlers' variables or take one of their steps, so
  `PlaceSpin` needs no more. For `RejectionsAreFinal`,
  `SingleInv` adds that a bet that arrived once meets no other handler of its
  `client_ref`, and is not played before its own handler plays it.
- `SessionInv`: a request between `Consume` and `Issue` holds its family alone
  (`ChainInv`); the ban covers the access tokens and the requests under way at a
  logout-all, each with the time it may still take (`BanInv`); a suspension
  counts against both (`SuspensionInv`).
- `ClientInv`: the pair a refresh was granted is not yet spent, and a token in
  storage is spent only if the page went away while it was presented
  (`FlightInv`); while `boot` waits nothing else is under way (`BootInv`); what a
  refresh grants is newer than every bearer in flight (`GrantIsNew`).
- `ScreenInv`: the phase is that of the one unresolved round, and an enabled
  button means there is none (`PhaseInv`); every result and read is of a state
  the wallet had, and of the present one only if they agree (`VersionInv`);
  the server played the unresolved round after the settled ones (`OrderInv`).
  The properties themselves are conjuncts.
- `ServerInv`: a process past `CheckWheel` runs with limits under which no
  product wraps (`Checked`), and one past `AssertCurrent` on a schema that has
  caught up. The stake a bankroll affords and the bankroll a stake needs then
  undo each other (`AffordableIsCovered`), in both branches of the division,
  which is what `PromisesKept` comes down to. Every truncation of a payout, of the
  rake and of the commission is downwards, which is why the edge survives them.
- `LimitInv`: a counter's window that began before the observer has an admission he
  did not see, and only one window can end under him (`SeenInv`). `AccountInv`: a request between its INSERT and its commit
  holds its phone and its code, so its commit is one step of `Accounts`.

- `TableInv` of `History`: a transaction writes only rows of wallets it has locked,
  no two lock the same wallet, and what it has written is newer than all of the
  same player's that is committed (`UnseenIsNewer`). That alone gives
  `CommitsInOrder`. `RoundsAddUp` says of a transaction's own view of the ledger what
  `BooksAddUp` says of the committed one. `ReadInv`: the pages are the head of the
  list of `since`, the cursor is the id of its last row, and whatever came since is
  newer, so the next page is the next part of the same list (`NewestGoesOn`).

**Only model-checked**: `TransactionsEnd`, `DeploymentEnds` and `ReadingEnds`,
which as liveness under fairness are beyond TLAPS.

## 6. Findings

| run | the repository says | the code does |
|---|---|---|
| `stuck_wheel` | `spinTo` "Resolves when it comes to rest" (`wheel-view.ts:105`) | leaving the tab cancels the animation and nobody resolves it: no further bet until the page is reloaded |
| `client_next_refresh` | "so the next 401 starts a fresh one" (`api.ts:163`) | a 401 without a refresh token leaves a finished promise behind; the next session ends at its first 401 |
| `retry_original` | a retry gets the original outcome (`game.go:38-40`) | an interrupted first request leaves an empty claim or none: 409 |

Seen while modelling, and without a run of their own:

- `store.ts:144` says `refreshMe` "repaints everything". The Spin button of the
  web is painted by `store.spin` alone: after a login the screen is mounted with
  balances of zero, and the button stays disabled until the player changes tabs.
- `errors.ts:44` says of an offline request that it "certainly never took
  effect". A connection that breaks after sending is called offline too.
- `token.go:22-24` says that reuse of a rotated token "kills the whole family".
  It is refused, and the family's live token goes on.
- `game.go:138` says of by-ref's 404 "Definitively: it never happened. The client
  can safely retry." It reads table `spins` and not the claim, so it answers 404 for a
  bet that is under way or not yet arrived, and `store.ts:214-215` stops asking. No
  property forbids it: `Rounds` lets the bet be played afterwards, and the client
  only says that it timed out.
- `outcome.ts:91` calls the difference of the two numbers "The balance
  immediately after the bet is taken". Of a recovered round the balance is the
  present one: after a credit or another bet the difference is a balance the wallet
  never had, and a negative one if enough was staked meanwhile (which is why
  `shown` is an integer). Settling shows the true balance again.
- `auth.go:118`: a registration that commits and then cannot store its session in
  Redis is answered 500, and its retry that the number is taken. `Accounts` permits it:
  the account is whole and the answer true; the player has to sign in.
- `main.go:200` says "let in-flight requests finish". `BaseContext`
  (`main.go:181`) gives them the context that SIGTERM cancels: they are ended,
  and `Shutdown` waits for requests that are already failing (`Terminate`).
- `wheel.go:342-343` says that dividing first loses at most one cent. It rounds
  the stake down to a multiple of 10000 cents.
- `wheel.go:199-200` says that the RTP "is exactly what the caller says it should
  be". `Validate` compares it after a division that rounds down, so a wheel may pay
  up to one basis point more than is configured. The shipped wheels do not, and
  `HouseKeepsItsEdge` assumes as much (`RTPIsWhole`).
- `auth.go:249-250` says logout-all invalidates every session of the caller. A
  later login's `AllowAgain` (`auth.go:182`) lifts the ban for all of them, and
  a refresh token nobody presents during the ban can be redeemed after it.
- `store.ts:128-129` says the local session is cleared regardless of a failed
  revoke. A refresh under way when logout clears the tokens stores its pair
  when it returns, and the next start boots into that session.
- `store.ts:245-246`: the number must not change before the wheel has shown why.
  A `refreshMe` that returns while the wheel turns shows the payout; settling
  then takes back any credit it had read.
- `token.go:110-113` promises a suspension within a second; `SetActive` does not
  write the ban that `VerifyAccess` reads, so access tokens outlive the suspension.
  `SuspensionTakesEffect` therefore says only that all is over one access lifetime
  later, a late mint included.

## 7. What is not modelled, and why

- The wheels' geometry: planned (section 2). Provisioning, building, uploading
  and `migrate down`.
- M-Pesa, admin, the live feed: only their tables exist at this commit.
- Integrity checks I4 (deposits: no code credits one) and I8 (the catalogue).
- Argon2id, `Mask`, the winners feed, HTTP encoding, CORS, rendering, sound: no state
  that interleaves.
- Two tabs of one browser share a refresh token but not the refresh in flight;
  `ClientSession` has one running client. Two accounts on one client, one after
  the other: `GameScreen` has one account. On the web the refresh has
  no time-out, so nothing is claimed to end there; and `boot` takes an outage
  for the end of the session (`store.ts:103`), which no document speaks of.
- `is_active` is read without a lock at the start of a spin (`spin.go:110`): an
  account suspended meanwhile plays the round it began. `MoneyTx` has the window.
