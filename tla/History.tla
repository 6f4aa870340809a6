------------------------------ MODULE History -------------------------------
(***************************************************************************)
(* What a player reads while the game goes on: GET /v1/game/spins and      *)
(* GET /v1/history page through a table by descending id, while            *)
(* transactions insert into it (internal/api/game.go).  An id is drawn     *)
(* from the table's sequence when a row is INSERTed, and the row is seen   *)
(* when its transaction commits, so ids become visible out of order and    *)
(* with gaps: what keeps a player's own rows in order is the wallet lock.  *)
(* A real round locks the referrer's wallet and the house too.             *)
(* What money may be spent is the subject of MoneyTx; here a bet is 1, a   *)
(* win 2, a commission 1, and balances count from what there was before    *)
(* the first round, which may leave them below 0.                          *)
(***************************************************************************)
EXTENDS Integers, FiniteSetsExt, SequencesExt

CONSTANTS
    Users, NoUser,
    Referrer,       \* users.referred_by, or NoUser
    Procs,          \* goroutines that play rounds
    Reader,         \* the player whose pages are read
    RawLimits,      \* ?limit=; 0 is one that is absent, malformed or not positive
    DefLimit, MaxLimit,     \* of each endpoint: 25 and 100, 50 and 200
    MaxRounds       \* rounds that are begun: a bound

Tables == {"spins", "transactions"}
Kinds  == {"bet", "win", "referral"}

ASSUME ReferrersAreOthers == \A u \in Users : Referrer[u] \in (Users \cup {NoUser}) \ {u}
ASSUME ReaderPlays        == Reader \in Users /\ NoUser \notin Users
ASSUME LimitsAreSane ==
    /\ RawLimits \subseteq Nat /\ MaxRounds \in Nat
    /\ \A t \in Tables : MaxLimit[t] \in Nat /\ DefLimit[t] \in 1..MaxLimit[t]

VARIABLES
    rows,           \* the committed rows
    wallets,        \* the committed balances, practice and real
    nextId,         \* the sequence of each table
    pc,             \* where each transaction is
    round,          \* who plays in it, and for what
    balance,        \* what its UPDATEs made of the wallets it locked
    written,        \* the rows it inserted and has not committed
    query,          \* what the reader asks for: endpoint, kind, limit
    cursor,         \* next_cursor of its last page; 0 before the first
    pages,          \* the items of the pages so far
    since,          \* the rows there were when it read the first
    reading

tableVars == <<rows, wallets, nextId, pc, round, balance, written>>
readVars  == <<query, cursor, pages, since, reading>>
vars      == <<tableVars, readVars>>

Row(t, u, isReal, kind, amount, after) ==
    [table |-> t, id |-> nextId[t], user |-> u, isReal |-> isReal, kind |-> kind,
     amount |-> amount, after |-> after]

Rows == [table : Tables, id : Nat \ {0}, user : Users, isReal : BOOLEAN,
         kind : Kinds \cup {"round"}, amount : -1..2, after : Int]

NoRound == [user |-> NoUser, isReal |-> FALSE]
NoneLocked == [u \in Users |-> 0]

Queries == [table : {"spins"}, kind : {""}, limit : RawLimits]
           \cup [table : {"transactions"}, kind : {"", "referral"}, limit : RawLimits]

TypeOK ==
    /\ rows \subseteq Rows /\ nextId \in [Tables -> Nat \ {0}]
    /\ wallets \in [Users -> [BOOLEAN -> Int]] /\ balance \in [Procs -> [Users -> Int]]
    /\ pc \in [Procs -> {"idle", "locked", "recorded", "bet", "won", "paid"}]
    /\ round \in [Procs -> [user : Users \cup {NoUser}, isReal : BOOLEAN]]
    /\ written \in [Procs -> SUBSET Rows]
    /\ \A row \in rows \cup UNION Range(written) : row.id < nextId[row.table]
    /\ query \in Queries /\ cursor \in 0..(nextId[query.table] - 1)
    /\ pages \in Seq(Rows) /\ since \subseteq Rows
    /\ reading \in {"idle", "reading", "done"}

Init ==
    /\ rows = {} /\ nextId = [t \in Tables |-> 1]
    /\ wallets = [u \in Users |-> [isReal \in BOOLEAN |-> 0]]
    /\ pc = [p \in Procs |-> "idle"]
    /\ round = [p \in Procs |-> NoRound] /\ balance = [p \in Procs |-> NoneLocked]
    /\ written = [p \in Procs |-> {}]
    /\ query \in Queries
    /\ cursor = 0 /\ pages = <<>> /\ since = {} /\ reading = "idle"
-----------------------------------------------------------------------------
(* A round: lock the wallets, and the house if it is real; then INSERT.    *)

Payee(rd) == IF rd.isReal THEN Referrer[rd.user] ELSE NoUser

Wallets(rd) == {rd.user, Payee(rd)} \ {NoUser}

\* Mutant: the balance is read without FOR UPDATE.
ReadOnly(rd) == TRUE

\* No other transaction holds a wallet that the round locks.
Free(rd) == \A q \in Procs : pc[q] # "idle" => Wallets(round[q]) \cap Wallets(rd) = {}

Begin(p, rd) ==
    /\ pc[p] = "idle" /\ Free(rd)
    /\ nextId["spins"] + Cardinality({q \in Procs : pc[q] = "locked"}) <= MaxRounds
    /\ pc' = [pc EXCEPT ![p] = "locked"]
    /\ round' = [round EXCEPT ![p] = rd]
    /\ balance' = [balance EXCEPT ![p] =
          [u \in Users |-> IF u \in Wallets(rd) THEN wallets[u][rd.isReal] ELSE 0]]
    /\ UNCHANGED <<rows, wallets, nextId, written, readVars>>

HouseFree(p) ==
    round[p].isReal => \A q \in Procs \ {p} : round[q].isReal => pc[q] \in {"idle", "locked"}

Insert(p, from, to, row) ==
    /\ pc[p] \in from
    /\ pc' = [pc EXCEPT ![p] = to]
    /\ written' = [written EXCEPT ![p] = @ \cup {row}]
    /\ nextId' = [nextId EXCEPT ![row.table] = @ + 1]
    /\ UNCHANGED <<rows, wallets, round, readVars>>

\* HouseLock, and INSERT INTO spins ... RETURNING id.
Record(p) ==
    /\ HouseFree(p)
    /\ Insert(p, {"locked"}, "recorded",
              Row("spins", round[p].user, round[p].isReal, "round", 0, 0))
    /\ UNCHANGED balance

\* Mutant: the entry carries the balance that Lock returned.
MovedFromLock(p, u, amount) == wallets[u][round[p].isReal] + amount

(* wallet.Move: the balance that UPDATE ... RETURNING gives is written     *)
(* with the entry.                                                         *)
Moved(p, u, amount) == balance[p][u] + amount

Move(p, from, to, u, kind, amount) ==
    /\ Insert(p, from, to,
              Row("transactions", u, round[p].isReal, kind, amount, Moved(p, u, amount)))
    /\ balance' = [balance EXCEPT ![p][u] = @ + amount]

Bet(p) == Move(p, {"recorded"}, "bet", round[p].user, "bet", -1)

Win(p) == Move(p, {"bet"}, "won", round[p].user, "win", 2)

Commission(p) ==
    /\ Payee(round[p]) # NoUser
    /\ Move(p, {"bet", "won"}, "paid", Payee(round[p]), "referral", 1)

End(p) ==
    /\ pc' = [pc EXCEPT ![p] = "idle"]
    /\ round' = [round EXCEPT ![p] = NoRound]
    /\ balance' = [balance EXCEPT ![p] = NoneLocked]
    /\ written' = [written EXCEPT ![p] = {}]
    /\ UNCHANGED <<nextId, readVars>>

Commit(p) ==
    /\ pc[p] \in {"bet", "won", "paid"}
    /\ Payee(round[p]) # NoUser => pc[p] = "paid"
    /\ rows' = rows \cup written[p]
    /\ wallets' = [u \in Users |->
          IF u \in Wallets(round[p])
          THEN [wallets[u] EXCEPT ![round[p].isReal] = balance[p][u]] ELSE wallets[u]]
    /\ End(p)

\* The ids it drew are lost.
Rollback(p) == pc[p] # "idle" /\ End(p) /\ UNCHANGED <<rows, wallets>>
-----------------------------------------------------------------------------
(* A page. *)

clampLimit(raw, def, max) ==
    IF raw = 0 THEN def ELSE IF raw > max THEN max ELSE raw

Limit(q) == clampLimit(q.limit, DefLimit[q.table], MaxLimit[q.table])

Matching(q) ==
    {row \in rows : /\ row.table = q.table /\ row.user = Reader
                    /\ q.kind = "" \/ row.kind = q.kind}

\* Mutant: the page starts at the cursor.
BelowOrAt(cur, row) == cur = 0 \/ row.id <= cur

\* $2::bigint IS NULL OR id < $2
Below(cur, row) == cur = 0 \/ row.id < cur

Place(set, row) == Cardinality({other \in set : other.id >= row.id})

Newest(set) == [i \in 1..Cardinality(set) |-> CHOOSE row \in set : Place(set, row) = i]

\* ORDER BY id DESC LIMIT n
Items(q, cur) ==
    LET all == Newest({row \in Matching(q) : Below(cur, row)})
    IN SubSeq(all, 1, Min({Len(all), Limit(q)}))

\* Mutant: every page has a next one.
NextCursorAlways(items, limit) == IF items = <<>> THEN 1 ELSE Last(items).id

\* page: a full page may have a next one.
NextCursor(items, limit) ==
    IF Len(items) = limit /\ items # <<>> THEN Last(items).id ELSE 0

ReadPage ==
    LET items == Items(query, cursor)
        last  == NextCursor(items, Limit(query))
    IN /\ reading # "done"
       /\ since' = IF reading = "idle" THEN Matching(query) ELSE since
       /\ pages' = pages \o items
       /\ cursor' = last
       /\ reading' = IF last = 0 THEN "done" ELSE "reading"
       /\ UNCHANGED <<query, tableVars>>

Next ==
    \/ \E p \in Procs :
          \/ \E u \in Users, isReal \in BOOLEAN : Begin(p, [user |-> u, isReal |-> isReal])
          \/ Record(p) \/ Bet(p) \/ Win(p) \/ Commission(p) \/ Commit(p) \/ Rollback(p)
    \/ ReadPage

\* A player who began to scroll scrolls on.
Spec == Init /\ [][Next]_vars /\ WF_vars(reading = "reading" /\ ReadPage)
-----------------------------------------------------------------------------
(* Page by page the player reads exactly the rows there were at the first  *)
(* page, newest first: none is skipped, repeated or slipped in, whatever   *)
(* commits and rolls back in between; and at the end, all of them.         *)
PagesAreFaithful ==
    /\ IsPrefix(pages, Newest(since))
    /\ reading = "done" => Len(pages) = Cardinality(since)

Ledger(set, u, isReal) ==
    {row \in set : row.table = "transactions" /\ row.user = u /\ row.isReal = isReal}

(* The ledger adds up: in the order of its ids, every entry of a player    *)
(* takes the balance of its realm on from where the one before it left it, *)
(* and the newest leaves it at what the wallet holds.                      *)
StatementAddsUp ==
    \A u \in Users, isReal \in BOOLEAN :
        LET entries  == Newest(Ledger(rows, u, isReal))
            After(i) == IF i > Len(entries) THEN 0 ELSE entries[i].after
        IN /\ wallets[u][isReal] = After(1)
           /\ \A i \in DOMAIN entries : entries[i].after = entries[i].amount + After(i + 1)

(* A row that becomes visible is newer than all that the player could have *)
(* seen before it.                                                         *)
CommitsInOrder ==
    [][\A new \in rows' \ rows, old \in rows :
          new.table = old.table /\ new.user = old.user => new.id > old.id]_rows

\* Scrolling comes to an end.
ReadingEnds == (reading = "reading") ~> (reading = "done")
=============================================================================
