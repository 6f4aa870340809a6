--------------------------- MODULE HistoryProofs ---------------------------
(***************************************************************************)
(* What a player reads is what was committed, in order: the wallet lock    *)
(* makes a player's rows visible in the order of their ids, so pages by    *)
(* descending id are faithful and the ledger's balances add up.            *)
(***************************************************************************)
EXTENDS History, FiniteSetTheorems, SequenceTheorems, TLAPS

(* Rows that ORDER BY id can list: finitely many, each with its id.        *)
Listable(set) ==
    /\ IsFiniteSet(set)
    /\ \A row \in set : row.id \in Nat
    /\ \A row, other \in set : row.id = other.id => row = other

\* Those listed no later than the row.
UpTo(set, row) == {other \in set : other.id >= row.id}

\* What lists part of the rows is listable.
LEMMA PartsAreListable ==
    ASSUME NEW set, Listable(set), NEW part \in SUBSET set
    PROVE  Listable(part)
  BY FS_Subset DEF Listable

(* The places of the rows are 1, 2, ... in the order of their ids.         *)
LEMMA PlacesFollowIds ==
    ASSUME NEW set, Listable(set), NEW row \in set, NEW other \in set
    PROVE  /\ Place(set, row) \in 1..Cardinality(set)
           /\ row.id > other.id => Place(set, row) < Place(set, other)
  <1>1. ASSUME NEW r \in set
        PROVE  /\ IsFiniteSet(UpTo(set, r)) /\ UpTo(set, r) \subseteq set
               /\ r \in UpTo(set, r)
    BY FS_Subset DEF UpTo, Listable
  <1>2. Place(set, row) \in 1..Cardinality(set)
    <2>1. Cardinality(UpTo(set, row)) \in Nat \ {0} /\ Cardinality(set) \in Nat
      BY <1>1, FS_CardinalityType, FS_EmptySet DEF Listable
    <2>2. Cardinality(UpTo(set, row)) <= Cardinality(set)
      BY <1>1, FS_Subset DEF Listable
    <2> QED BY <2>1, <2>2 DEF Place, UpTo
  <1>3. ASSUME row.id > other.id
        PROVE  Place(set, row) < Place(set, other)
    <2>1. UpTo(set, row) \subseteq UpTo(set, other) /\ other \notin UpTo(set, row)
      BY <1>3 DEF UpTo, Listable
    <2>2. Cardinality(UpTo(set, row)) < Cardinality(UpTo(set, other))
      <3>1. UpTo(set, row) # UpTo(set, other)
        BY <1>1, <2>1
      <3>2. Cardinality(UpTo(set, row)) \in Nat /\ Cardinality(UpTo(set, other)) \in Nat
        BY <1>1, FS_CardinalityType
      <3> QED BY <1>1, <2>1, <3>1, <3>2, FS_Subset
    <2> QED BY <2>2 DEF Place, UpTo
  <1> QED BY <1>2, <1>3

(* Every place is taken.                                                   *)
LEMMA PlacesAreTaken ==
    ASSUME NEW set, Listable(set), NEW i \in 1..Cardinality(set)
    PROVE  \E row \in set : Place(set, row) = i
  <1> DEFINE n == Cardinality(set)
             f == [row \in set |-> Place(set, row)]
  <1>1. n \in Nat
    BY FS_CardinalityType DEF Listable
  <1>2. f \in Injection(set, 1..n)
    <2>1. f \in [set -> 1..n]
      BY PlacesFollowIds
    <2>2. ASSUME NEW row \in set, NEW other \in set, row # other
          PROVE  f[row] # f[other]
      <3>1. row.id > other.id \/ other.id > row.id
        BY <2>2 DEF Listable
      <3>2. Place(set, row) < Place(set, other) \/ Place(set, other) < Place(set, row)
        BY <3>1, PlacesFollowIds
      <3>3. Place(set, row) \in Int /\ Place(set, other) \in Int
        BY PlacesFollowIds
      <3> QED BY <3>2, <3>3
    <2> QED BY <2>1, <2>2 DEF Injection, IsInjective
  <1>3. IsFiniteSet(1..n) /\ Cardinality(1..n) = n
    BY <1>1, FS_Interval
  <1>4. f \in Surjection(set, 1..n)
    <2> HIDE DEF f
    <2> QED BY <1>2, <1>3, FS_Injection
  <1> QED BY <1>4 DEF Surjection

(* The list has each row at its place.                                     *)
LEMMA NewestLists ==
    ASSUME NEW set, Listable(set)
    PROVE  /\ Newest(set) \in Seq(set)
           /\ Len(Newest(set)) = Cardinality(set) /\ Cardinality(set) \in Nat
           /\ \A i \in 1..Cardinality(set) :
                 Newest(set)[i] \in set /\ Place(set, Newest(set)[i]) = i
           /\ \A row \in set : /\ Place(set, row) \in 1..Cardinality(set)
                               /\ Newest(set)[Place(set, row)] = row
  <1> DEFINE n == Cardinality(set)
  <1>1. n \in Nat
    BY FS_CardinalityType DEF Listable
  <1>2. \A i \in 1..n : Newest(set)[i] \in set /\ Place(set, Newest(set)[i]) = i
    BY PlacesAreTaken DEF Newest
  <1>3. Newest(set) \in [1..n -> set]
    BY <1>2 DEF Newest
  <1>4. Newest(set) \in Seq(set) /\ Len(Newest(set)) = n
    BY <1>1, <1>3, SeqDef
  <1>5. ASSUME NEW row \in set
        PROVE  Place(set, row) \in 1..n /\ Newest(set)[Place(set, row)] = row
    <2>1. Place(set, row) \in 1..n
      BY PlacesFollowIds
    <2> DEFINE other == Newest(set)[Place(set, row)]
    <2>2. other \in set /\ Place(set, other) = Place(set, row)
      BY <1>2, <2>1
    <2>3. ~(row.id > other.id) /\ ~(other.id > row.id)
      <3> HIDE DEF other
      <3>1. row.id > other.id => Place(set, row) < Place(set, other)
        BY <2>2, PlacesFollowIds
      <3>2. other.id > row.id => Place(set, other) < Place(set, row)
        BY <2>2, PlacesFollowIds
      <3> QED BY <2>1, <2>2, <3>1, <3>2
    <2> QED
      <3> HIDE DEF other
      <3>1. row = other
        BY <2>2, <2>3 DEF Listable
      <3> QED BY <2>1, <3>1 DEF other
  <1> QED BY <1>1, <1>2, <1>4, <1>5

(* It is in the order of the ids.                                          *)
LEMMA NewestDescends ==
    ASSUME NEW set, Listable(set),
           NEW i \in 1..Cardinality(set), NEW j \in 1..Cardinality(set)
    PROVE  Newest(set)[i].id > Newest(set)[j].id <=> i < j
  <1> DEFINE row == Newest(set)[i]
             other == Newest(set)[j]
  <1>1. row \in set /\ other \in set /\ Place(set, row) = i /\ Place(set, other) = j
    BY NewestLists
  <1> HIDE DEF row, other
  <1>2. row.id > other.id => i < j
    BY <1>1, PlacesFollowIds
  <1>3. other.id > row.id => j < i
    BY <1>1, PlacesFollowIds
  <1>4. row.id = other.id => i = j
    BY <1>1 DEF Listable
  <1>5. Cardinality(set) \in Nat
    BY NewestLists
  <1> QED BY <1>1, <1>2, <1>3, <1>4, <1>5 DEF row, other, Listable

(* What is below the k-th row is listed from its successor on.             *)
LEMMA NewestGoesOn ==
    ASSUME NEW set, Listable(set), NEW k \in 1..Cardinality(set),
           NEW rest, rest = {row \in set : row.id < Newest(set)[k].id}
    PROVE  /\ Listable(rest) /\ Cardinality(rest) = Cardinality(set) - k
           /\ \A j \in 1..Cardinality(rest) : Newest(rest)[j] = Newest(set)[k + j]
  <1> DEFINE n == Cardinality(set)
             head == Newest(set)[k]
  <1>1. Listable(rest) /\ IsFiniteSet(rest) /\ IsFiniteSet(set)
    BY PartsAreListable DEF Listable
  <1>2. head \in set /\ Place(set, head) = k /\ n \in Nat
    BY NewestLists
  <1> HIDE DEF head
  <1>3. ASSUME NEW part \in SUBSET rest
        PROVE  Cardinality(UpTo(set, head) \cup part) = k + Cardinality(part)
    <2>1. IsFiniteSet(part) /\ IsFiniteSet(UpTo(set, head))
      BY <1>1, FS_Subset DEF UpTo
    <2>2. UpTo(set, head) \cap part = {}
      BY <1>2 DEF UpTo, head, Listable
    <2>3. Cardinality(UpTo(set, head)) = k
      BY <1>2 DEF Place, UpTo
    <2>4. Cardinality(part) \in Nat
      BY <2>1, FS_CardinalityType
    <2>5. Cardinality(UpTo(set, head) \cup part) =
             Cardinality(UpTo(set, head)) + Cardinality(part)
                - Cardinality(UpTo(set, head) \cap part)
      BY <2>1, FS_Union
    <2>6. Cardinality(UpTo(set, head) \cap part) = 0
      BY <2>2, FS_EmptySet
    <2> QED BY <2>3, <2>4, <2>5, <2>6
  <1>4. UpTo(set, head) \cup rest = set
    BY <1>2 DEF UpTo, head, Listable
  <1>5. Cardinality(rest) = n - k
    <2>1. n = k + Cardinality(rest)
      BY <1>3, <1>4
    <2> QED BY <1>1, <2>1, FS_CardinalityType
  <1>6. ASSUME NEW j \in 1..Cardinality(rest)
        PROVE  Newest(rest)[j] = Newest(set)[k + j]
    <2> DEFINE row == Newest(rest)[j]
    <2>1. row \in rest /\ Place(rest, row) = j
      BY <1>1, NewestLists
    <2> HIDE DEF row
    <2>2. UpTo(set, row) = UpTo(set, head) \cup UpTo(rest, row)
      BY <1>2, <2>1 DEF UpTo, head, Listable
    <2>3. Place(set, row) = k + j
      BY <1>3, <2>1, <2>2, UpTo(rest, row) \subseteq rest DEF Place, UpTo
    <2> QED BY <2>1, <2>3, NewestLists DEF row
  <1> QED BY <1>1, <1>5, <1>6
-----------------------------------------------------------------------------
(* The invariant of the transactions.                                      *)

Busy(p) == pc[p] # "idle"

\* All the rows that have drawn an id and were not rolled back.
Drawn == rows \cup UNION Range(written)

TableTypes ==
    /\ rows \subseteq Rows /\ nextId \in [Tables -> Nat \ {0}]
    /\ wallets \in [Users -> [BOOLEAN -> Int]] /\ balance \in [Procs -> [Users -> Int]]
    /\ pc \in [Procs -> {"idle", "locked", "recorded", "bet", "won", "paid"}]
    /\ round \in [Procs -> [user : Users \cup {NoUser}, isReal : BOOLEAN]]
    /\ written \in [Procs -> SUBSET Rows]
    /\ \A row \in Drawn : row.id < nextId[row.table]

RowsAreFinite == IsFiniteSet(rows) /\ \A p \in Procs : IsFiniteSet(written[p])

(* A transaction writes into the wallets that its round has locked.        *)
RoundsOwnTheirRows ==
    \A p \in Procs :
        /\ Busy(p) => round[p].user \in Users
        /\ \A row \in written[p] : /\ Busy(p)
                                   /\ row.user \in Wallets(round[p])
                                   /\ row.isReal = round[p].isReal

WalletsAreExclusive ==
    \A p, q \in Procs :
        p # q /\ Busy(p) /\ Busy(q) => Wallets(round[p]) \cap Wallets(round[q]) = {}

IdsAreUnique ==
    \A row, other \in Drawn : row.table = other.table /\ row.id = other.id => row = other

(* What a player has not seen yet is newer than what there is to see.      *)
UnseenIsNewer ==
    \A p \in Procs : \A new \in written[p], old \in rows :
        new.table = old.table /\ new.user = old.user => new.id > old.id

TableInv ==
    /\ TableTypes /\ RowsAreFinite /\ RoundsOwnTheirRows
    /\ WalletsAreExclusive /\ IdsAreUnique /\ UnseenIsNewer

(* Entries add up to a balance: each takes on from the one before.         *)
AddUpTo(entries, cents) ==
    /\ entries = {} => cents = 0
    /\ \A e \in entries :
          /\ (\A o \in entries : o.id <= e.id) => e.after = cents
          /\ (\A o \in entries : o.id >= e.id) => e.after = e.amount
          /\ \A o \in entries :
                o.id < e.id /\ (\A x \in entries : ~(o.id < x.id /\ x.id < e.id))
                    => e.after = e.amount + o.after

BooksAddUp ==
    \A u \in Users, isReal \in BOOLEAN : AddUpTo(Ledger(rows, u, isReal), wallets[u][isReal])

\* So do they for a transaction that holds a wallet, with its own entries.
RoundsAddUp ==
    \A p \in Procs : Busy(p) =>
        \A u \in Wallets(round[p]) :
            AddUpTo(Ledger(rows \cup written[p], u, round[p].isReal), balance[p][u])
-----------------------------------------------------------------------------
(* The tables keep to it.                                                  *)

\* What the transactions have written, one by one.
LEMMA MembersOfRange ==
    ASSUME NEW S, NEW w \in [Procs -> S]
    PROVE  \A x : x \in UNION Range(w) <=> \E p \in Procs : x \in w[p]
  BY DEF Range

\* A row that has drawn an id is committed, or some transaction's.
LEMMA DrawnRows ==
    /\ written \in [Procs -> SUBSET Rows] =>
         \A x : x \in Drawn <=> x \in rows \/ \E p \in Procs : x \in written[p]
    /\ written' \in [Procs -> SUBSET Rows] =>
         \A x : x \in Drawn' <=> x \in rows' \/ \E p \in Procs : x \in written'[p]
  <1>1. ASSUME written \in [Procs -> SUBSET Rows]
        PROVE  \A x : x \in UNION Range(written) <=> \E p \in Procs : x \in written[p]
    BY <1>1, MembersOfRange
  <1>2. ASSUME written' \in [Procs -> SUBSET Rows]
        PROVE  \A x : x \in UNION Range(written') <=> \E p \in Procs : x \in written'[p]
    BY <1>2, MembersOfRange
  <1> QED BY <1>1, <1>2, Zenon DEF Drawn

(* The wallets of a player's round are players'.                           *)
LEMMA WalletsAreUsers ==
    ASSUME NEW rd, rd.user \in Users
    PROVE  /\ rd.user \in Wallets(rd) /\ Wallets(rd) \subseteq Users
           /\ Payee(rd) # NoUser => Payee(rd) \in Wallets(rd)
  BY ReferrersAreOthers, ReaderPlays DEF Wallets, Payee

\* At first there are no rows and no rounds.
LEMMA InitTables == Init => TableInv
  <1> SUFFICES ASSUME Init PROVE TableInv
    OBVIOUS
  <1> USE DEF Init
  <1>1. written \in [Procs -> SUBSET Rows] /\ \A p \in Procs : written[p] = {}
    OBVIOUS
  <1>2. Drawn = {}
    BY <1>1, MembersOfRange DEF Drawn
  <1>3. TableTypes
    BY <1>1, <1>2 DEF TableTypes, NoRound, NoneLocked, Tables
  <1>4. RowsAreFinite
    BY <1>1, FS_EmptySet DEF RowsAreFinite
  <1> QED BY <1>1, <1>2, <1>3, <1>4 DEF TableInv, RoundsOwnTheirRows,
        WalletsAreExclusive, IdsAreUnique, UnseenIsNewer, Busy

(* What every INSERT of a round does.                                      *)
Writes(p, to, row) ==
    /\ Busy(p) /\ to \in {"recorded", "bet", "won", "paid"}
    /\ row \in Rows /\ row.id = nextId[row.table]
    /\ row.user \in Wallets(round[p]) /\ row.isReal = round[p].isReal
    /\ pc' = [pc EXCEPT ![p] = to]
    /\ written' = [written EXCEPT ![p] = @ \cup {row}]
    /\ nextId' = [nextId EXCEPT ![row.table] = @ + 1]
    /\ UNCHANGED <<rows, wallets, round, readVars>>

\* A ledger entry carries the balance that it leaves.
Enters(p, row) ==
    /\ row.table = "transactions" /\ row.after = balance[p][row.user] + row.amount
    /\ balance' = [balance EXCEPT ![p] = [@ EXCEPT ![row.user] = row.after]]

\* The INSERT INTO spins writes into the player's own wallet's rows.
LEMMA RecordWrites ==
    ASSUME TableInv, NEW p \in Procs, Record(p)
    PROVE  \E row : Writes(p, "recorded", row) /\ row.table = "spins" /\ UNCHANGED balance
  <1> DEFINE row == Row("spins", round[p].user, round[p].isReal, "round", 0, 0)
  <1>1. /\ Busy(p) /\ pc' = [pc EXCEPT ![p] = "recorded"]
        /\ written' = [written EXCEPT ![p] = @ \cup {row}]
        /\ nextId' = [nextId EXCEPT ![row.table] = @ + 1]
        /\ UNCHANGED <<rows, wallets, round, readVars, balance>>
    BY DEF Record, Insert, Busy
  <1>2. round[p].user \in Users /\ round[p].isReal \in BOOLEAN
    BY <1>1 DEF TableInv, TableTypes, RoundsOwnTheirRows
  <1>3. nextId["spins"] \in Nat \ {0}
    BY DEF TableInv, TableTypes, Tables
  <1>4. /\ row \in Rows /\ row.id = nextId[row.table] /\ row.table = "spins"
        /\ row.user = round[p].user /\ row.isReal = round[p].isReal
    BY <1>2, <1>3 DEF Row, Rows, Tables, Kinds
  <1>5. round[p].user \in Wallets(round[p])
    BY <1>2, WalletsAreUsers
  <1> HIDE DEF row
  <1>6. Writes(p, "recorded", row)
    BY <1>1, <1>4, <1>5 DEF Writes
  <1> QED BY <1>1, <1>4, <1>6

\* wallet.Move writes an entry of a wallet that the round has locked.
LEMMA MoveWrites ==
    ASSUME TableInv, NEW p \in Procs, NEW from, "idle" \notin from,
           NEW to \in {"bet", "won", "paid"}, NEW u \in Wallets(round[p]),
           NEW kind \in Kinds, NEW amount \in -1..2,
           Move(p, from, to, u, kind, amount)
    PROVE  \E row : Writes(p, to, row) /\ Enters(p, row)
  <1> DEFINE row == Row("transactions", u, round[p].isReal, kind, amount, Moved(p, u, amount))
  <1>1. /\ Busy(p) /\ pc' = [pc EXCEPT ![p] = to]
        /\ written' = [written EXCEPT ![p] = @ \cup {row}]
        /\ nextId' = [nextId EXCEPT ![row.table] = @ + 1]
        /\ UNCHANGED <<rows, wallets, round, readVars>>
        /\ balance' = [balance EXCEPT ![p][u] = @ + amount]
    BY DEF Move, Insert, Busy
  <1>2. round[p].user \in Users /\ round[p].isReal \in BOOLEAN
    BY <1>1 DEF TableInv, TableTypes, RoundsOwnTheirRows
  <1>3. nextId["transactions"] \in Nat \ {0}
    BY DEF TableInv, TableTypes, Tables
  <1>4. u \in Users /\ Moved(p, u, amount) \in Int
    <2>1. u \in Users
      BY <1>2, WalletsAreUsers
    <2> QED BY <2>1 DEF TableInv, TableTypes, Moved
  <1>5. /\ row \in Rows /\ row.id = nextId[row.table] /\ row.table = "transactions"
        /\ row.user = u /\ row.isReal = round[p].isReal
        /\ row.amount = amount /\ row.after = Moved(p, u, amount)
    BY <1>2, <1>3, <1>4 DEF Row, Rows, Tables, Kinds
  <1> HIDE DEF row
  <1>6. Writes(p, to, row)
    BY <1>1, <1>5 DEF Writes
  <1>7. balance' = [balance EXCEPT ![p] = [@ EXCEPT ![row.user] = row.after]]
    BY <1>1, <1>5 DEF Moved
  <1>8. Enters(p, row)
    BY <1>5, <1>7 DEF Enters, Moved
  <1> QED BY <1>6, <1>8

\* The bet, the win and the commission are such moves.
LEMMA MovesWrite ==
    ASSUME TableInv, NEW p \in Procs, Bet(p) \/ Win(p) \/ Commission(p)
    PROVE  \E to, row : Writes(p, to, row) /\ Enters(p, row)
  <1>1. Busy(p)
    BY DEF Bet, Win, Commission, Move, Insert, Busy
  <1>2. round[p].user \in Users
    BY <1>1 DEF TableInv, RoundsOwnTheirRows
  <1>3. /\ round[p].user \in Wallets(round[p])
        /\ Payee(round[p]) # NoUser => Payee(round[p]) \in Wallets(round[p])
    BY <1>2, WalletsAreUsers
  <1>4. {"bet", "win", "referral"} \subseteq Kinds /\ {-1, 1, 2} \subseteq -1..2
    BY DEF Kinds
  <1>5. CASE Bet(p)
    <2>1. \E row : Writes(p, "bet", row) /\ Enters(p, row)
      BY <1>3, <1>4, <1>5, MoveWrites DEF Bet
    <2> QED BY <2>1
  <1>6. CASE Win(p)
    <2>1. \E row : Writes(p, "won", row) /\ Enters(p, row)
      BY <1>3, <1>4, <1>6, MoveWrites DEF Win
    <2> QED BY <2>1
  <1>7. CASE Commission(p)
    <2>1. \E row : Writes(p, "paid", row) /\ Enters(p, row)
      BY <1>3, <1>4, <1>7, MoveWrites DEF Commission
    <2> QED BY <2>1
  <1> QED BY <1>5, <1>6, <1>7

\* A new row has the newest id, and its wallet is locked.
LEMMA InsertKeepsTables ==
    ASSUME TableInv, NEW p \in Procs, NEW to, NEW row, Writes(p, to, row),
           UNCHANGED balance \/ Enters(p, row)
    PROVE  TableInv'
  <1> USE DEF TableInv, Writes
  <1>0. balance' \in [Procs -> [Users -> Int]]
    <2>1. CASE UNCHANGED balance
      BY <2>1 DEF TableTypes
    <2>2. CASE Enters(p, row)
      <3>1. row.user \in Users /\ row.after \in Int /\ balance[p] \in [Users -> Int]
        BY DEF Rows, TableTypes
      <3> QED BY <2>2, <3>1 DEF Enters, TableTypes
    <2> QED BY <2>1, <2>2
  <1>1. /\ written \in [Procs -> SUBSET Rows] /\ written' \in [Procs -> SUBSET Rows]
        /\ \A q \in Procs : written'[q] = IF q = p THEN written[p] \cup {row} ELSE written[q]
    BY DEF TableTypes
  <1>2. \A x : x \in Drawn' <=> x \in Drawn \/ x = row
    BY <1>1, DrawnRows
  <1>3. row.table \in Tables /\ nextId[row.table] \in Nat \ {0}
    BY DEF TableTypes, Rows
  <1>4. \A x \in Drawn : x \in Rows /\ x.table \in Tables /\ x.id \in Nat /\ x.id < nextId[x.table]
    <2>1. Drawn \subseteq Rows
      BY <1>1, DrawnRows DEF TableTypes
    <2>2. \A x \in Rows : x.table \in Tables /\ x.id \in Nat
      BY DEF Rows
    <2> QED BY <2>1, <2>2 DEF TableTypes
  <1>5. \A t \in Tables : /\ nextId[t] \in Nat \ {0} /\ nextId'[t] \in Nat \ {0}
                          /\ nextId'[t] = IF t = row.table THEN nextId[t] + 1 ELSE nextId[t]
    BY DEF TableTypes
  <1>6. TableTypes'
    <2>1. nextId' \in [Tables -> Nat \ {0}]
      BY <1>3 DEF TableTypes
    <2>2. \A x \in Drawn' : x.id < nextId'[x.table]
      BY <1>2, <1>3, <1>4, <1>5
    <2>3. pc' \in [Procs -> {"idle", "locked", "recorded", "bet", "won", "paid"}]
      BY DEF TableTypes
    <2> QED BY <1>0, <1>1, <2>1, <2>2, <2>3 DEF TableTypes
  <1>7. RowsAreFinite'
    BY <1>1, FS_AddElement DEF RowsAreFinite
  <1>8. \A q \in Procs : (Busy(q))' <=> Busy(q)
    BY DEF Busy, TableTypes
  <1>9. RoundsOwnTheirRows' /\ WalletsAreExclusive'
    BY <1>1, <1>8 DEF RoundsOwnTheirRows, WalletsAreExclusive
  <1>10. IdsAreUnique'
    BY <1>2, <1>3, <1>4 DEF IdsAreUnique
  <1>11. UnseenIsNewer'
    <2>1. \A old \in rows : old.table = row.table => row.id > old.id
      BY <1>3, <1>4 DEF Drawn
    <2> QED BY <1>1, <2>1 DEF UnseenIsNewer
  <1> QED BY <1>6, <1>7, <1>9, <1>10, <1>11

\* A round begins when its wallets are free.
LEMMA BeginKeepsTables ==
    ASSUME TableInv, NEW p \in Procs, NEW u \in Users, NEW isReal \in BOOLEAN,
           Begin(p, [user |-> u, isReal |-> isReal])
    PROVE  TableInv'
  <1> DEFINE rd == [user |-> u, isReal |-> isReal]
  <1> USE DEF TableInv
  <1>1. rd \in [user : Users \cup {NoUser}, isReal : BOOLEAN] /\ rd.user \in Users
    OBVIOUS
  <1>2. /\ ~Busy(p) /\ Free(rd)
        /\ pc' = [pc EXCEPT ![p] = "locked"] /\ round' = [round EXCEPT ![p] = rd]
        /\ UNCHANGED <<rows, wallets, nextId, written>>
    BY DEF Begin, Busy
  <1>3. balance' \in [Procs -> [Users -> Int]]
    <2>1. [v \in Users |-> IF v \in Wallets(rd) THEN wallets[v][rd.isReal] ELSE 0]
             \in [Users -> Int]
      BY DEF TableTypes
    <2> QED BY <2>1 DEF Begin, TableTypes
  <1> HIDE DEF rd
  <1>4. TableTypes'
    BY <1>1, <1>2, <1>3 DEF TableTypes, Drawn
  <1>5. \A q \in Procs : /\ (Busy(q))' <=> Busy(q) \/ q = p
                         /\ round'[q] = IF q = p THEN rd ELSE round[q]
    BY <1>2 DEF Busy, TableTypes
  <1>6. RoundsOwnTheirRows'
    BY <1>1, <1>2, <1>5 DEF RoundsOwnTheirRows
  <1>7. WalletsAreExclusive'
    <2>1. \A q \in Procs : Busy(q) => Wallets(round[q]) \cap Wallets(rd) = {}
      BY <1>2 DEF Free, Busy
    <2> QED BY <1>2, <1>5, <2>1 DEF WalletsAreExclusive
  <1> QED BY <1>2, <1>4, <1>6, <1>7
        DEF RowsAreFinite, IdsAreUnique, UnseenIsNewer, Drawn

(* A round ends: its rows become visible, or they are gone.                *)
LEMMA EndKeepsTables ==
    ASSUME TableInv, NEW p \in Procs, Busy(p), End(p),
           rows' \in {rows, rows \cup written[p]},
           wallets' \in [Users -> [BOOLEAN -> Int]]
    PROVE  TableInv'
  <1> USE DEF TableInv
  <1>1. /\ written \in [Procs -> SUBSET Rows] /\ written' \in [Procs -> SUBSET Rows]
        /\ \A q \in Procs : written'[q] = IF q = p THEN {} ELSE written[q]
    BY DEF TableTypes, End
  <1>2. Drawn' \subseteq Drawn /\ nextId' = nextId
    <2>1. \A x : x \in Drawn' => x \in Drawn
      BY <1>1, DrawnRows
    <2> QED BY <2>1 DEF End
  <1>3. TableTypes'
    <2>1. rows' \subseteq Rows
      BY <1>1 DEF TableTypes
    <2>2. NoRound \in [user : Users \cup {NoUser}, isReal : BOOLEAN]
          /\ NoneLocked \in [Users -> Int]
      BY DEF NoRound, NoneLocked
    <2> QED BY <1>1, <1>2, <2>1, <2>2 DEF TableTypes, End
  <1>4. RowsAreFinite'
    <2>1. IsFiniteSet(rows \cup written[p]) /\ IsFiniteSet(rows)
      BY FS_Union DEF RowsAreFinite
    <2> QED BY <1>1, <2>1, FS_EmptySet DEF RowsAreFinite
  <1>5. \A q \in Procs : /\ (Busy(q))' <=> Busy(q) /\ q # p
                         /\ q # p => round'[q] = round[q]
    BY DEF Busy, TableTypes, End
  <1>6. RoundsOwnTheirRows' /\ WalletsAreExclusive'
    BY <1>1, <1>5 DEF RoundsOwnTheirRows, WalletsAreExclusive
  <1>7. IdsAreUnique'
    BY <1>2 DEF IdsAreUnique
  <1>8. UnseenIsNewer'
    <2> SUFFICES ASSUME NEW q \in Procs, NEW new \in written'[q], NEW old \in rows',
                        new.table = old.table, new.user = old.user
                 PROVE  new.id > old.id
      BY DEF UnseenIsNewer
    <2>1. q # p /\ new \in written[q] /\ Busy(q)
      BY <1>1 DEF RoundsOwnTheirRows
    <2>2. CASE old \in rows
      BY <2>1, <2>2 DEF UnseenIsNewer
    <2>3. CASE old \in written[p]
      <3>1. old.user \in Wallets(round[p]) /\ new.user \in Wallets(round[q])
        BY <2>1, <2>3 DEF RoundsOwnTheirRows
      <3> QED BY <2>1, <3>1 DEF WalletsAreExclusive
    <2> QED BY <2>2, <2>3
  <1> QED BY <1>3, <1>4, <1>6, <1>7, <1>8

\* TableInv is inductive.
LEMMA NextKeepsTables == TableInv /\ [Next]_vars => TableInv'
  <1> SUFFICES ASSUME TableInv, [Next]_vars PROVE TableInv'
    OBVIOUS
  <1>1. ASSUME NEW p \in Procs, NEW u \in Users, NEW isReal \in BOOLEAN,
               Begin(p, [user |-> u, isReal |-> isReal])
        PROVE  TableInv'
    BY <1>1, BeginKeepsTables
  <1>2. ASSUME NEW p \in Procs, Record(p)
        PROVE  TableInv'
    BY <1>2, RecordWrites, InsertKeepsTables
  <1>3. ASSUME NEW p \in Procs, Bet(p) \/ Win(p) \/ Commission(p)
        PROVE  TableInv'
    BY <1>3, MovesWrite, InsertKeepsTables
  <1>4. ASSUME NEW p \in Procs, Commit(p)
        PROVE  TableInv'
    <2>1. Busy(p) /\ End(p) /\ rows' = rows \cup written[p]
      BY <1>4 DEF Commit, Busy
    <2>2. wallets' \in [Users -> [BOOLEAN -> Int]]
      BY <1>4 DEF Commit, TableInv, TableTypes
    <2> QED BY <2>1, <2>2, EndKeepsTables
  <1>5. ASSUME NEW p \in Procs, Rollback(p)
        PROVE  TableInv'
    <2>1. Busy(p) /\ End(p) /\ rows' = rows /\ wallets' = wallets
      BY <1>5 DEF Rollback, Busy
    <2> QED BY <2>1, EndKeepsTables DEF TableInv, TableTypes
  <1>6. ASSUME UNCHANGED tableVars
        PROVE  TableInv'
    BY <1>6 DEF tableVars, TableInv, TableTypes, Drawn, RowsAreFinite,
          RoundsOwnTheirRows, WalletsAreExclusive, IdsAreUnique, UnseenIsNewer, Busy
  <1> QED BY <1>1, <1>2, <1>3, <1>4, <1>5, <1>6 DEF Next, ReadPage, vars

(* A row that becomes visible is newer than all that the player could have *)
(* seen before it: the wallet is locked from before the row drew its id    *)
(* until it commits (internal/game/spin.go, internal/wallet).              *)
THEOREM RowsAppearInOrder == Spec => CommitsInOrder
  <1>1. TableInv /\ [Next]_vars =>
          [\A new \in rows' \ rows, old \in rows :
              new.table = old.table /\ new.user = old.user => new.id > old.id]_rows
    <2> SUFFICES ASSUME TableInv, [Next]_vars, rows' # rows
                 PROVE  \A new \in rows' \ rows, old \in rows :
                           new.table = old.table /\ new.user = old.user => new.id > old.id
      OBVIOUS
    <2>1. \A p \in Procs : Bet(p) \/ Win(p) \/ Commission(p) => rows' = rows
      BY MovesWrite DEF Writes
    <2>2. PICK p \in Procs : Commit(p)
      BY <2>1 DEF Next, vars, tableVars, Begin, Record, Insert, Rollback, ReadPage
    <2>3. rows' = rows \cup written[p]
      BY <2>2 DEF Commit
    <2> QED BY <2>3 DEF TableInv, UnseenIsNewer
  <1> QED BY <1>1, InitTables, NextKeepsTables, PTL DEF Spec, CommitsInOrder
-----------------------------------------------------------------------------
(* The books keep adding up.                                               *)

AccountsInv == BooksAddUp /\ RoundsAddUp

\* A newer entry that takes on from the balance leaves it at its own.
LEMMA EntryTakesOn ==
    ASSUME NEW entries, NEW cents, AddUpTo(entries, cents), NEW e,
           \A o \in entries : o.id < e.id /\ o.id \in Int,
           e.id \in Int, e.amount \in Int, cents \in Int, e.after = cents + e.amount
    PROVE  AddUpTo(entries \cup {e}, e.after)
  <1> DEFINE more == entries \cup {e}
  <1>1. \A o \in more : o.id \in Int /\ o.id <= e.id
    OBVIOUS
  <1>2. ASSUME NEW f \in more, \A o \in more : o.id <= f.id
        PROVE  f.after = e.after
    <2>1. f \notin entries
      BY <1>2
    <2> QED BY <2>1
  <1>3. ASSUME NEW f \in more, \A o \in more : o.id >= f.id
        PROVE  f.after = f.amount
    <2>1. CASE f \in entries
      BY <1>3, <2>1 DEF AddUpTo
    <2>2. CASE f = e
      <3>1. entries = {}
        BY <1>3, <2>2
      <3>2. cents = 0
        BY <3>1 DEF AddUpTo
      <3> QED BY <2>2, <3>2
    <2> QED BY <2>1, <2>2
  <1>4. ASSUME NEW f \in more, NEW o \in more, o.id < f.id,
               \A x \in more : ~(o.id < x.id /\ x.id < f.id)
        PROVE  f.after = f.amount + o.after
    <2>1. o \in entries
      BY <1>1, <1>4
    <2>2. CASE f \in entries
      BY <1>4, <2>1, <2>2 DEF AddUpTo
    <2>3. CASE f = e
      <3>1. \A x \in entries : x.id <= o.id
        BY <1>4, <2>1, <2>3
      <3>2. o.after = cents
        BY <2>1, <3>1 DEF AddUpTo
      <3> QED BY <2>3, <3>2
    <2> QED BY <2>2, <2>3
  <1> QED BY <1>2, <1>3, <1>4 DEF AddUpTo

\* An entry keeps its own transaction's ledger, and touches no other.
LEMMA InsertAddsUp ==
    ASSUME TableInv, AccountsInv, NEW p \in Procs, NEW to, NEW row, Writes(p, to, row),
           (row.table = "spins" /\ UNCHANGED balance) \/ Enters(p, row)
    PROVE  AccountsInv'
  <1> USE DEF Writes
  <1>1. BooksAddUp'
    BY DEF AccountsInv, BooksAddUp
  <1>2. \A q \in Procs :
          /\ written'[q] = IF q = p THEN written[p] \cup {row} ELSE written[q]
          /\ (Busy(q))' <=> Busy(q)
          /\ q # p => balance'[q] = balance[q]
    BY DEF TableInv, TableTypes, Busy, Enters
  <1>3. ASSUME NEW u \in Wallets(round[p])
        PROVE  AddUpTo(Ledger(rows \cup written'[p], u, round[p].isReal), balance'[p][u])
    <2> DEFINE entries == Ledger(rows \cup written[p], u, round[p].isReal)
               cents == balance[p][u]
    <2>1. AddUpTo(entries, cents)
      BY DEF AccountsInv, RoundsAddUp
    <2>2. round[p].user \in Users
      BY DEF TableInv, RoundsOwnTheirRows
    <2>3. u \in Users /\ row.user \in Users /\ balance[p] \in [Users -> Int]
      BY <2>2, WalletsAreUsers DEF TableInv, TableTypes
    <2>4. CASE Enters(p, row) /\ row.user = u
      <3>1. Ledger(rows \cup written'[p], u, round[p].isReal) = entries \cup {row}
        BY <1>2, <2>4 DEF Ledger, Enters
      <3>2. \A o \in entries : o.id < row.id /\ o.id \in Int
        <4>1. entries \subseteq Drawn /\ entries \subseteq Rows
          BY DrawnRows DEF Ledger, TableInv, TableTypes
        <4>2. \A o \in entries : o.table = "transactions"
          BY DEF Ledger
        <4>3. \A o \in entries : o.id \in Int /\ o.id < nextId[o.table]
          <5>1. \A o \in Rows : o.id \in Int
            BY DEF Rows
          <5>2. \A o \in Drawn : o.id < nextId[o.table]
            BY DEF TableInv, TableTypes
          <5> HIDE DEF entries
          <5> QED BY <4>1, <5>1, <5>2
        <4>4. row.id = nextId["transactions"]
          BY <2>4 DEF Enters
        <4> QED BY <4>2, <4>3, <4>4
      <3>3. row.id \in Int /\ row.amount \in Int /\ row.after = cents + row.amount
        BY <2>4 DEF Rows, Enters
      <3>4. balance'[p][u] = row.after
        BY <2>3, <2>4 DEF Enters, TableInv, TableTypes
      <3> HIDE DEF entries, cents
      <3>5. cents \in Int
        BY <2>3 DEF cents
      <3> QED BY <2>1, <3>1, <3>2, <3>3, <3>4, <3>5, EntryTakesOn
    <2>5. CASE row.table = "spins" \/ row.user # u
      <3>1. Ledger(rows \cup written'[p], u, round[p].isReal) = entries
        BY <1>2, <2>5 DEF Ledger
      <3>2. balance'[p][u] = cents
        BY <2>3, <2>5 DEF Enters, TableInv, TableTypes
      <3> QED BY <2>1, <3>1, <3>2
    <2> QED BY <2>4, <2>5
  <1>4. RoundsAddUp'
    <2> SUFFICES ASSUME NEW q \in Procs, Busy(q), NEW u \in Wallets(round[q])
                 PROVE  AddUpTo(Ledger(rows \cup written'[q], u, round[q].isReal), balance'[q][u])
      BY <1>2 DEF RoundsAddUp
    <2>1. CASE q = p
      BY <1>3, <2>1
    <2>2. CASE q # p
      BY <1>2, <2>2 DEF AccountsInv, RoundsAddUp
    <2> QED BY <2>1, <2>2
  <1> QED BY <1>1, <1>4 DEF AccountsInv

\* The balances that Lock returns are those that the books add up to.
LEMMA BeginAddsUp ==
    ASSUME TableInv, AccountsInv, NEW p \in Procs, NEW u \in Users, NEW isReal \in BOOLEAN,
           Begin(p, [user |-> u, isReal |-> isReal])
    PROVE  AccountsInv'
  <1> DEFINE rd == [user |-> u, isReal |-> isReal]
  <1>1. rd.user \in Users /\ rd.isReal \in BOOLEAN
    OBVIOUS
  <1>2. /\ ~Busy(p) /\ pc' = [pc EXCEPT ![p] = "locked"] /\ round' = [round EXCEPT ![p] = rd]
        /\ balance' = [balance EXCEPT ![p] =
              [v \in Users |-> IF v \in Wallets(rd) THEN wallets[v][rd.isReal] ELSE 0]]
        /\ UNCHANGED <<rows, wallets, written>>
    BY DEF Begin, Busy
  <1> HIDE DEF rd
  <1>3. \A q \in Procs : /\ (Busy(q))' <=> Busy(q) \/ q = p
                         /\ round'[q] = IF q = p THEN rd ELSE round[q]
                         /\ q # p => balance'[q] = balance[q]
    BY <1>2 DEF Busy, TableInv, TableTypes
  <1>4. ASSUME NEW v \in Wallets(rd)
        PROVE  AddUpTo(Ledger(rows \cup written[p], v, rd.isReal), balance'[p][v])
    <2>1. written[p] = {}
      BY <1>2 DEF TableInv, RoundsOwnTheirRows
    <2>2. v \in Users
      BY <1>1, WalletsAreUsers
    <2>3. balance'[p][v] = wallets[v][rd.isReal]
      BY <1>2, <2>2 DEF TableInv, TableTypes
    <2> QED BY <1>1, <2>1, <2>2, <2>3 DEF AccountsInv, BooksAddUp
  <1>5. RoundsAddUp'
    <2> SUFFICES ASSUME NEW q \in Procs, Busy(q) \/ q = p, NEW v \in Wallets(round'[q])
                 PROVE  AddUpTo(Ledger(rows \cup written[q], v, round'[q].isReal), balance'[q][v])
      BY <1>2, <1>3 DEF RoundsAddUp
    <2>1. CASE q = p
      BY <1>3, <1>4, <2>1
    <2>2. CASE q # p
      BY <1>3, <2>2 DEF AccountsInv, RoundsAddUp
    <2> QED BY <2>1, <2>2
  <1>6. BooksAddUp'
    BY <1>2 DEF AccountsInv, BooksAddUp
  <1> QED BY <1>5, <1>6 DEF AccountsInv

\* What a transaction's entries add up to becomes the books.
LEMMA CommitAddsUp ==
    ASSUME TableInv, AccountsInv, NEW p \in Procs, Commit(p)
    PROVE  AccountsInv'
  <1> DEFINE rd == round[p]
  <1>1. /\ Busy(p) /\ End(p) /\ rows' = rows \cup written[p]
        /\ wallets' = [u \in Users |-> IF u \in Wallets(rd)
                THEN [wallets[u] EXCEPT ![rd.isReal] = balance[p][u]] ELSE wallets[u]]
    BY DEF Commit, Busy
  <1>2. rd.user \in Users /\ rd.isReal \in BOOLEAN
    BY <1>1 DEF TableInv, TableTypes, RoundsOwnTheirRows
  <1>3. \A row \in written[p] : row.user \in Wallets(rd) /\ row.isReal = rd.isReal
    BY DEF TableInv, RoundsOwnTheirRows
  <1>4. \A q \in Procs : /\ (Busy(q))' <=> Busy(q) /\ q # p
                         /\ q # p => /\ round'[q] = round[q] /\ balance'[q] = balance[q]
                                     /\ written'[q] = written[q]
    BY <1>1 DEF Busy, TableInv, TableTypes, End
  <1>5. BooksAddUp'
    <2> SUFFICES ASSUME NEW u \in Users, NEW isReal \in BOOLEAN
                 PROVE  AddUpTo(Ledger(rows', u, isReal), wallets'[u][isReal])
      BY DEF BooksAddUp
    <2>1. CASE u \in Wallets(rd) /\ isReal = rd.isReal
      <3>1. wallets'[u][isReal] = balance[p][u]
        BY <1>1, <2>1 DEF TableInv, TableTypes
      <3> QED BY <1>1, <2>1, <3>1 DEF AccountsInv, RoundsAddUp
    <2>2. CASE ~(u \in Wallets(rd) /\ isReal = rd.isReal)
      <3>1. wallets'[u][isReal] = wallets[u][isReal]
        BY <1>1, <1>2, <2>2 DEF TableInv, TableTypes
      <3>2. Ledger(rows', u, isReal) = Ledger(rows, u, isReal)
        BY <1>1, <1>3, <2>2 DEF Ledger
      <3> QED BY <3>1, <3>2 DEF AccountsInv, BooksAddUp
    <2> QED BY <2>1, <2>2
  <1>6. RoundsAddUp'
    <2> SUFFICES ASSUME NEW q \in Procs, q # p, Busy(q), NEW u \in Wallets(round[q])
                 PROVE  AddUpTo(Ledger(rows' \cup written[q], u, round[q].isReal), balance[q][u])
      BY <1>4 DEF RoundsAddUp
    <2>1. u \notin Wallets(rd)
      BY <1>1 DEF TableInv, WalletsAreExclusive
    <2>2. Ledger(rows' \cup written[q], u, round[q].isReal)
             = Ledger(rows \cup written[q], u, round[q].isReal)
      BY <1>1, <1>3, <2>1 DEF Ledger
    <2> QED BY <2>2 DEF AccountsInv, RoundsAddUp
  <1> QED BY <1>5, <1>6 DEF AccountsInv

\* Empty books add up to nothing.
LEMMA InitAddsUp == Init => AccountsInv
  BY DEF Init, AccountsInv, BooksAddUp, RoundsAddUp, Busy, AddUpTo, Ledger

\* AccountsInv is inductive relative to TableInv.
LEMMA NextAddsUp == TableInv /\ AccountsInv /\ [Next]_vars => AccountsInv'
  <1> SUFFICES ASSUME TableInv, AccountsInv, [Next]_vars PROVE AccountsInv'
    OBVIOUS
  <1>1. ASSUME NEW p \in Procs, NEW u \in Users, NEW isReal \in BOOLEAN,
               Begin(p, [user |-> u, isReal |-> isReal])
        PROVE  AccountsInv'
    BY <1>1, BeginAddsUp
  <1>2. ASSUME NEW p \in Procs, Record(p)
        PROVE  AccountsInv'
    BY <1>2, RecordWrites, InsertAddsUp
  <1>3. ASSUME NEW p \in Procs, Bet(p) \/ Win(p) \/ Commission(p)
        PROVE  AccountsInv'
    BY <1>3, MovesWrite, InsertAddsUp
  <1>4. ASSUME NEW p \in Procs, Commit(p)
        PROVE  AccountsInv'
    BY <1>4, CommitAddsUp
  <1>5. ASSUME NEW p \in Procs, Rollback(p)
        PROVE  AccountsInv'
    <2>1. /\ UNCHANGED <<rows, wallets>>
          /\ \A q \in Procs : /\ (Busy(q))' <=> Busy(q) /\ q # p
                              /\ q # p => /\ round'[q] = round[q] /\ balance'[q] = balance[q]
                                          /\ written'[q] = written[q]
      BY <1>5 DEF Rollback, End, Busy, TableInv, TableTypes
    <2> QED BY <2>1 DEF AccountsInv, BooksAddUp, RoundsAddUp
  <1>6. ASSUME UNCHANGED tableVars
        PROVE  AccountsInv'
    BY <1>6 DEF tableVars, AccountsInv, BooksAddUp, RoundsAddUp, Busy
  <1> QED BY <1>1, <1>2, <1>3, <1>4, <1>5, <1>6 DEF Next, ReadPage, vars

\* What the tables hold of one kind can be listed.
LEMMA RowsAreListable ==
    ASSUME TableInv, NEW part \in SUBSET rows, NEW t, \A row \in part : row.table = t
    PROVE  Listable(part)
  <1>1. IsFiniteSet(part)
    BY FS_Subset DEF TableInv, RowsAreFinite
  <1>2. part \subseteq Rows /\ part \subseteq Drawn
    BY DEF TableInv, TableTypes, Drawn
  <1>3. \A row \in Rows : row.id \in Nat
    BY DEF Rows
  <1> QED BY <1>1, <1>2, <1>3 DEF Listable, TableInv, IdsAreUnique

\* Entries that add up do so in the order in which they are listed.
LEMMA AccountsExplainStatements == TableInv /\ AccountsInv => StatementAddsUp
  <1> SUFFICES ASSUME TableInv, AccountsInv, NEW u \in Users, NEW isReal \in BOOLEAN
               PROVE  LET entries  == Newest(Ledger(rows, u, isReal))
                          After(i) == IF i > Len(entries) THEN 0 ELSE entries[i].after
                      IN /\ wallets[u][isReal] = After(1)
                         /\ \A i \in DOMAIN entries :
                               entries[i].after = entries[i].amount + After(i + 1)
    BY DEF StatementAddsUp
  <1> DEFINE set == Ledger(rows, u, isReal)
             n == Cardinality(set)
             entries == Newest(set)
             cents == wallets[u][isReal]
  <1>1. Listable(set) /\ set \subseteq Rows
    <2>1. set \subseteq rows /\ \A row \in set : row.table = "transactions"
      BY DEF Ledger
    <2> QED BY <2>1, RowsAreListable DEF TableInv, TableTypes
  <1>2. AddUpTo(set, cents)
    BY DEF AccountsInv, BooksAddUp
  <1> HIDE DEF set, cents
  <1>3. /\ entries \in Seq(set) /\ Len(entries) = n /\ n \in Nat /\ DOMAIN entries = 1..n
        /\ \A i \in 1..n : entries[i] \in set
        /\ \A row \in set : \E i \in 1..n : entries[i] = row
    BY <1>1, NewestLists
  <1>4. \A i, j \in 1..n : entries[i].id > entries[j].id <=> i < j
    BY <1>1, NewestDescends
  <1>5. \A row \in set : row.id \in Int /\ row.amount \in Int /\ row.after \in Int
    BY <1>1 DEF Rows
  <1> HIDE DEF entries, n
  <1>6. CASE n = 0
    <2>1. set = {}
      BY <1>1, <1>6, FS_EmptySet DEF Listable, n
    <2> QED BY <1>2, <1>3, <1>6, <2>1 DEF AddUpTo, entries, set, cents
  <1>7. CASE n > 0
    <2>1. entries[1].after = cents
      <3>1. \A o \in set : o.id <= entries[1].id
        <4> SUFFICES ASSUME NEW i \in 1..n PROVE entries[i].id <= entries[1].id
          BY <1>3
        <4>1. ~(entries[i].id > entries[1].id)
          BY <1>3, <1>4, <1>7
        <4> QED BY <1>3, <1>5, <1>7, <4>1
      <3> QED BY <1>2, <1>3, <1>7, <3>1 DEF AddUpTo
    <2>2. ASSUME NEW i \in 1..n, i = n
          PROVE  entries[i].after = entries[i].amount
      <3>1. \A o \in set : o.id >= entries[i].id
        <4> SUFFICES ASSUME NEW j \in 1..n PROVE entries[j].id >= entries[i].id
          BY <1>3
        <4>1. ~(entries[i].id > entries[j].id)
          BY <1>3, <1>4, <2>2
        <4> QED BY <1>3, <1>5, <4>1
      <3> QED BY <1>2, <1>3, <3>1 DEF AddUpTo
    <2>3. ASSUME NEW i \in 1..n, i # n
          PROVE  entries[i].after = entries[i].amount + entries[i + 1].after
      <3>1. i + 1 \in 1..n
        BY <1>3, <2>3
      <3>2. entries[i + 1].id < entries[i].id
        BY <1>3, <1>4, <1>5, <3>1
      <3>3. \A x \in set : ~(entries[i + 1].id < x.id /\ x.id < entries[i].id)
        <4> SUFFICES ASSUME NEW j \in 1..n,
                            entries[i + 1].id < entries[j].id, entries[j].id < entries[i].id
                     PROVE  FALSE
          BY <1>3
        <4>1. j < i + 1 /\ i < j
          BY <1>3, <1>4, <1>5, <3>1
        <4> QED BY <1>3, <4>1
      <3> QED BY <1>2, <1>3, <3>1, <3>2, <3>3 DEF AddUpTo
    <2>4. wallets[u][isReal] = IF 1 > Len(entries) THEN 0 ELSE entries[1].after
      BY <1>3, <1>7, <2>1 DEF cents
    <2>5. ASSUME NEW i \in DOMAIN entries
          PROVE  entries[i].after = entries[i].amount +
                    (IF i + 1 > Len(entries) THEN 0 ELSE entries[i + 1].after)
      BY <1>3, <1>5, <2>2, <2>3
    <2> QED BY <2>4, <2>5 DEF entries, set
  <1> QED BY <1>3, <1>6, <1>7
-----------------------------------------------------------------------------
(* The reader.                                                             *)

(* What it has read is the head of what there was at its first page, and   *)
(* the cursor is the id of its last row; whatever has come since is newer. *)
ReadInv ==
    /\ query \in Queries /\ reading \in {"idle", "reading", "done"}
    /\ since \subseteq Matching(query)
    /\ \A new \in Matching(query) \ since, old \in since : new.id > old.id
    /\ pages \in Seq(Rows) /\ Len(pages) <= Cardinality(since)
    /\ \A i \in 1..Len(pages) : pages[i] = Newest(since)[i]
    /\ reading = "idle" => cursor = 0 /\ pages = <<>>
    /\ reading = "reading" => Len(pages) > 0 /\ cursor = Newest(since)[Len(pages)].id
    /\ reading = "done" => cursor = 0 /\ Len(pages) = Cardinality(since)

\* What a query may return can be listed.
LEMMA MatchingIsListable ==
    ASSUME TableInv, NEW q
    PROVE  Listable(Matching(q)) /\ Matching(q) \subseteq Rows
  <1>1. Matching(q) \subseteq rows /\ \A row \in Matching(q) : row.table = q.table
    BY DEF Matching
  <1> QED BY <1>1, RowsAreListable DEF TableInv, TableTypes

\* A page has room for a row, whatever the limit asked for.
LEMMA LimitIsPositive ==
    ASSUME NEW q \in Queries
    PROVE  Limit(q) \in Nat \ {0}
  <1>1. q.table \in Tables /\ q.limit \in Nat
    BY LimitsAreSane DEF Queries, Tables
  <1>2. MaxLimit[q.table] \in Nat /\ DefLimit[q.table] \in 1..MaxLimit[q.table]
    BY <1>1, LimitsAreSane
  <1> QED BY <1>1, <1>2 DEF Limit, clampLimit

\* The smaller of two numbers.
LEMMA MinOfTwo ==
    ASSUME NEW a \in Int, NEW b \in Int
    PROVE  Min({a, b}) \in {a, b} /\ Min({a, b}) <= a /\ Min({a, b}) <= b
  <1>1. \E x \in {a, b} : \A y \in {a, b} : x <= y
    OBVIOUS
  <1> QED BY <1>1 DEF Min

\* Nothing is read at first.
LEMMA InitReads == Init => ReadInv
  <1> SUFFICES ASSUME Init PROVE ReadInv
    OBVIOUS
  <1>1. Len(pages) = 0 /\ pages \in Seq(Rows) /\ Cardinality(since) = 0
    BY FS_EmptySet DEF Init
  <1> QED BY <1>1 DEF Init, ReadInv, Matching

(* Rows that appear do not disturb the reader.                             *)
LEMMA TablesKeepReads ==
    ASSUME TableInv, ReadInv, UNCHANGED readVars,
           UNCHANGED rows \/ \E p \in Procs : rows' = rows \cup written[p]
    PROVE  ReadInv'
  <1>1. since \subseteq Matching(query)'
    BY DEF ReadInv, Matching, readVars
  <1>2. \A new \in Matching(query)' \ since, old \in since : new.id > old.id
    <2> SUFFICES ASSUME NEW new \in Matching(query)' \ since, NEW old \in since
                 PROVE  new.id > old.id
      OBVIOUS
    <2>1. old \in rows /\ old.table = query.table /\ old.user = Reader
      BY DEF ReadInv, Matching
    <2>2. CASE new \in rows
      BY <2>2 DEF ReadInv, Matching, readVars
    <2>3. CASE new \notin rows
      <3>1. new.table = query.table /\ new.user = Reader /\ new \in rows'
        BY DEF Matching, readVars
      <3>2. \E p \in Procs : new \in written[p]
        BY <2>3, <3>1
      <3> QED BY <2>1, <3>1, <3>2 DEF TableInv, UnseenIsNewer
    <2> QED BY <2>2, <2>3
  <1> QED BY <1>1, <1>2 DEF ReadInv, readVars

(* What is left to read goes on where the pages so far end.                *)
LEMMA WhatIsLeft ==
    ASSUME TableInv, ReadInv, reading # "done", NEW set,
           set = IF reading = "idle" THEN Matching(query) ELSE since,
           NEW rest, rest = {row \in Matching(query) : Below(cursor, row)}
    PROVE  /\ Listable(set) /\ Listable(rest) /\ set \subseteq Matching(query)
           /\ Len(pages) \in 0..Cardinality(set)
           /\ Cardinality(rest) = Cardinality(set) - Len(pages)
           /\ \A i \in 1..Len(pages) : pages[i] = Newest(set)[i]
           /\ \A j \in 1..Cardinality(rest) : Newest(rest)[j] = Newest(set)[Len(pages) + j]
  <1>1. Listable(Matching(query)) /\ Matching(query) \subseteq Rows
    BY MatchingIsListable
  <1>2. Listable(set) /\ set \subseteq Matching(query)
    BY <1>1, PartsAreListable DEF ReadInv
  <1>3. Cardinality(set) \in Nat /\ Len(pages) \in Nat
    BY <1>2, FS_CardinalityType, LenProperties DEF Listable, ReadInv
  <1>4. CASE reading = "idle"
    <2>1. Len(pages) = 0
      BY <1>4 DEF ReadInv
    <2>2. rest = set
      BY <1>4 DEF ReadInv, Below
    <2>3. \A j \in 1..Cardinality(set) : Newest(set)[j] = Newest(set)[Len(pages) + j]
      <3>1. \A j \in 1..Cardinality(set) : Len(pages) + j = j
        BY <1>3, <2>1
      <3> QED BY <3>1
    <2>4. Cardinality(set) = Cardinality(set) - Len(pages) /\ Len(pages) \in 0..Cardinality(set)
      BY <1>3, <2>1
    <2>5. \A i \in 1..Len(pages) : pages[i] = Newest(set)[i]
      BY <2>1
    <2> QED BY <1>2, <2>2, <2>3, <2>4, <2>5, Zenon
  <1>5. CASE reading = "reading"
    <2> DEFINE k == Len(pages)
    <2>1. /\ set = since /\ k \in 1..Cardinality(set) /\ cursor = Newest(set)[k].id
          /\ \A i \in 1..k : pages[i] = Newest(set)[i]
      BY <1>3, <1>5 DEF ReadInv
    <2>2. Newest(set)[k] \in set
      BY <1>2, <2>1, NewestLists
    <2>3. cursor \in Nat \ {0} /\ \A row \in Matching(query) : row.id \in Nat
      BY <1>1, <1>2, <2>1, <2>2 DEF Rows
    <2>4. \A new \in Matching(query) \ set : ~(new.id < cursor)
      BY <2>1, <2>2, <2>3 DEF ReadInv
    <2>5. rest = {row \in set : row.id < Newest(set)[k].id}
      BY <1>2, <2>1, <2>3, <2>4 DEF Below
    <2> HIDE DEF k
    <2>6. /\ Listable(rest) /\ Cardinality(rest) = Cardinality(set) - k
          /\ \A j \in 1..Cardinality(rest) : Newest(rest)[j] = Newest(set)[k + j]
      BY <1>2, <2>1, <2>5, NewestGoesOn
    <2> QED BY <1>2, <1>3, <2>1, <2>6 DEF k
  <1> QED BY <1>4, <1>5 DEF ReadInv

\* A page takes on where the one before it ended.
LEMMA PageKeepsReads ==
    ASSUME TableInv, ReadInv, ReadPage
    PROVE  ReadInv'
  <1> DEFINE set   == IF reading = "idle" THEN Matching(query) ELSE since
             rest  == {row \in Matching(query) : Below(cursor, row)}
             n     == Cardinality(set)
             a     == Len(pages)
             m     == Cardinality(rest)
             limit == Limit(query)
             k     == Min({m, limit})
             items == Items(query, cursor)
             last  == NextCursor(items, limit)
  <1>1. /\ reading # "done" /\ since' = set /\ pages' = pages \o items /\ cursor' = last
        /\ reading' = (IF last = 0 THEN "done" ELSE "reading")
        /\ UNCHANGED <<query, rows>>
    BY DEF ReadPage, tableVars
  <1>2. /\ Listable(set) /\ Listable(rest) /\ set \subseteq Matching(query)
        /\ a \in 0..n /\ m = n - a
        /\ \A i \in 1..a : pages[i] = Newest(set)[i]
        /\ \A j \in 1..m : Newest(rest)[j] = Newest(set)[a + j]
    <2>1. set = IF reading = "idle" THEN Matching(query) ELSE since
      OBVIOUS
    <2>2. rest = {row \in Matching(query) : Below(cursor, row)}
      OBVIOUS
    <2> HIDE DEF set, rest
    <2> QED BY <1>1, <2>1, <2>2, WhatIsLeft
  <1>3. /\ Newest(rest) \in Seq(rest) /\ Len(Newest(rest)) = m /\ m \in Nat /\ n \in Nat
        /\ \A j \in 1..m : Newest(rest)[j] \in rest
    BY <1>2, NewestLists
  <1>4. limit \in Nat \ {0}
    BY LimitIsPositive DEF ReadInv
  <1>5. k \in {m, limit} /\ k <= m /\ k <= limit /\ k \in Nat
    <2> HIDE DEF m, limit
    <2>1. m \in Nat /\ limit \in Nat
      BY <1>3, <1>4
    <2>2. k \in {m, limit} /\ k <= m /\ k <= limit
      BY <2>1, MinOfTwo
    <2> QED BY <2>1, <2>2
  <1>6. rest \subseteq Rows /\ \A row \in rest : row.id \in Nat \ {0}
    BY MatchingIsListable DEF Rows
  <1>7. items = SubSeq(Newest(rest), 1, k)
    BY <1>3 DEF Items
  <1> HIDE DEF set, rest, n, m, limit, k, items
  <1>8. /\ items \in Seq(Rows) /\ Len(items) = k
        /\ \A j \in 1..k : items[j] = Newest(set)[a + j] /\ items[j].id \in Nat \ {0}
    <2>1. \A j \in 1..k : Newest(rest)[j] \in rest /\ Newest(rest)[j] \in Rows
      BY <1>3, <1>5, <1>6
    <2>2. /\ items \in Seq(Rows) /\ Len(items) = IF 1 <= k THEN k - 1 + 1 ELSE 0
          /\ \A j \in 1..(k - 1 + 1) : items[j] = Newest(rest)[1 + j - 1]
      BY <1>5, <1>7, <2>1, SubSeqProperties
    <2>3. \A j \in 1..k : items[j] = Newest(rest)[j]
      BY <1>5, <2>2
    <2> QED BY <1>2, <1>3, <1>5, <1>6, <2>1, <2>2, <2>3
  <1>9. pages \in Seq(Rows) /\ a \in Nat
    BY LenProperties DEF ReadInv
  <1>10. /\ pages' \in Seq(Rows) /\ Len(pages') = a + k
         /\ \A i \in 1..(a + k) : pages'[i] = Newest(set)[i]
    <2>1. /\ pages' \in Seq(Rows) /\ Len(pages') = a + k
          /\ \A i \in 1..(a + k) : pages'[i] = IF i <= a THEN pages[i] ELSE items[i - a]
      <3>1. /\ pages \o items \in Seq(Rows)
            /\ Len(pages \o items) = Len(pages) + Len(items)
            /\ \A i \in 1..(Len(pages) + Len(items)) : (pages \o items)[i] =
                  IF i <= Len(pages) THEN pages[i] ELSE items[i - Len(pages)]
        BY <1>8, <1>9, ConcatProperties
      <3> QED BY <1>1, <1>8, <3>1
    <2>2. ASSUME NEW i \in 1..(a + k)
          PROVE  pages'[i] = Newest(set)[i]
      <3>1. CASE i <= a
        BY <1>2, <1>9, <2>1, <3>1
      <3>2. CASE i > a
        <4>1. i - a \in 1..k /\ a + (i - a) = i /\ ~(i <= a)
          BY <1>5, <1>9, <3>2
        <4> QED BY <1>8, <2>1, <4>1
      <3> QED BY <1>9, <3>1, <3>2
    <2> QED BY <2>1, <2>2
  <1>11. last = IF k = limit THEN Newest(set)[a + k].id ELSE 0
    <2>1. items # <<>> <=> k # 0
      BY <1>5, <1>8, EmptySeq
    <2>2. k = limit => Last(items).id = Newest(set)[a + k].id
      BY <1>4, <1>5, <1>8 DEF Last
    <2> QED BY <1>4, <1>8, <2>1, <2>2 DEF NextCursor
  <1>12. k = limit => Newest(set)[a + k].id # 0
    BY <1>4, <1>5, <1>8
  <1> HIDE DEF last
  <1>13. a + k <= n /\ (k # limit => a + k = n)
    BY <1>2, <1>3, <1>4, <1>5, <1>9
  <1>14. \A new \in Matching(query) \ set, old \in set : new.id > old.id
    BY DEF set, ReadInv
  <1>15. Matching(query)' = Matching(query)
    BY <1>1 DEF Matching
  <1>16. /\ reading' \in {"idle", "reading", "done"} /\ reading' # "idle"
         /\ reading' = "reading" => a + k > 0 /\ cursor' = Newest(set)[a + k].id
         /\ reading' = "done" => cursor' = 0 /\ a + k = n
    BY <1>1, <1>4, <1>5, <1>9, <1>11, <1>12, <1>13
  <1> QED BY <1>1, <1>2, <1>10, <1>13, <1>14, <1>15, <1>16 DEF ReadInv, n

\* ReadInv is inductive relative to TableInv.
LEMMA NextKeepsReads == TableInv /\ ReadInv /\ [Next]_vars => ReadInv'
  <1> SUFFICES ASSUME TableInv, ReadInv, [Next]_vars PROVE ReadInv'
    OBVIOUS
  <1>1. CASE ReadPage
    BY <1>1, PageKeepsReads
  <1>2. ASSUME NEW p \in Procs, Commit(p)
        PROVE  ReadInv'
    BY <1>2, TablesKeepReads DEF Commit, End
  <1>3. CASE UNCHANGED <<rows, readVars>>
    BY <1>3, TablesKeepReads
  <1>4. \A p \in Procs : Bet(p) \/ Win(p) \/ Commission(p) => UNCHANGED <<rows, readVars>>
    BY MovesWrite DEF Writes
  <1> QED BY <1>1, <1>2, <1>3, <1>4 DEF Next, vars, tableVars, readVars,
        Begin, Record, Insert, Rollback, End

-----------------------------------------------------------------------------
(* The theorems.                                                           *)

Inv == TableInv /\ AccountsInv /\ ReadInv

\* The invariants hold together.
LEMMA InvHolds == Spec => []Inv
  <1>1. Init => Inv
    BY InitTables, InitAddsUp, InitReads DEF Inv
  <1>2. Inv /\ [Next]_vars => Inv'
    BY NextKeepsTables, NextAddsUp, NextKeepsReads DEF Inv
  <1> QED BY <1>1, <1>2, PTL DEF Spec

(* The rows, balances, ids, pages and cursors stay of their types; no id   *)
(* is ahead of its sequence, and no cursor beyond the ids there are.       *)
THEOREM TypeCorrect == Spec => []TypeOK
  <1>1. Inv => TypeOK
    <2> SUFFICES ASSUME Inv PROVE TypeOK
      OBVIOUS
    <2>1. /\ since \subseteq rows /\ \A row \in since : row.table = query.table
          /\ rows \subseteq Rows /\ rows \subseteq Drawn /\ query.table \in Tables
      BY DEF Inv, ReadInv, Matching, TableInv, TableTypes, Drawn, Queries, Tables
    <2>2. Listable(since)
      BY <2>1, RowsAreListable DEF Inv
    <2>3. \A row \in since : row.id \in Nat /\ row.id < nextId[query.table]
      BY <2>1 DEF Inv, TableInv, TableTypes, Rows
    <2>4. nextId[query.table] \in Nat \ {0}
      BY <2>1 DEF Inv, TableInv, TableTypes
    <2>5. cursor \in 0..(nextId[query.table] - 1)
      <3>1. CASE cursor = 0
        BY <2>4, <3>1
      <3>2. CASE reading = "reading"
        <4>1. Len(pages) \in 1..Cardinality(since) /\ cursor = Newest(since)[Len(pages)].id
          BY <2>2, <3>2, NewestLists, LenProperties DEF Inv, ReadInv
        <4>2. Newest(since)[Len(pages)] \in since
          BY <2>2, <4>1, NewestLists
        <4> QED BY <2>3, <2>4, <4>1, <4>2
      <3> QED BY <3>1, <3>2 DEF Inv, ReadInv
    <2>6. since \subseteq Rows /\ pages \in Seq(Rows) /\ query \in Queries
          /\ reading \in {"idle", "reading", "done"}
      BY <2>1 DEF Inv, ReadInv
    <2> QED BY <2>5, <2>6 DEF Inv, TypeOK, TableInv, TableTypes, Drawn
  <1> QED BY <1>1, InvHolds, PTL

(* The ledger of a player adds up, entry by entry, to the wallet, whatever *)
(* commits beside and rolls back: UPDATE ... RETURNING under the wallet    *)
(* lock gives each entry the balance that the one before it left           *)
(* (internal/wallet Move).                                                 *)
THEOREM StatementsAddUp == Spec => []StatementAddsUp
  <1>1. Inv => StatementAddsUp
    BY AccountsExplainStatements DEF Inv
  <1> QED BY <1>1, InvHolds, PTL

(* The pages of GET /v1/game/spins and GET /v1/history give exactly what   *)
(* there was at the first of them, newest first, whatever the limit.       *)
THEOREM PagesStayFaithful == Spec => []PagesAreFaithful
  <1>1. Inv => PagesAreFaithful
    <2> SUFFICES ASSUME Inv PROVE PagesAreFaithful
      OBVIOUS
    <2> DEFINE all == Newest(since)
               k   == Len(pages)
    <2>1. Listable(since)
      <3>1. since \subseteq rows /\ \A row \in since : row.table = query.table
        BY DEF Inv, ReadInv, Matching
      <3> QED BY <3>1, RowsAreListable DEF Inv
    <2>2. since \subseteq Rows
      BY DEF Inv, ReadInv, Matching, TableInv, TableTypes
    <2>3. all \in Seq(since) /\ Len(all) = Cardinality(since) /\ Cardinality(since) \in Nat
      BY <2>1, NewestLists
    <2>4. pages \in Seq(Rows) /\ k \in Nat /\ k <= Len(all)
      BY <2>3, LenProperties DEF Inv, ReadInv
    <2>5. all \in Seq(Rows)
      BY <2>2, <2>3, SeqMonotonic
    <2>6. \A i \in 1..k : pages[i] = all[i]
      BY DEF Inv, ReadInv
    <2> HIDE DEF all
    <2>7. SubSeq(all, 1, k) = pages
      <3>1. \A i \in 1..k : all[i] \in Rows
        BY <2>4, <2>5, ElementOfSeq
      <3>2. /\ SubSeq(all, 1, k) \in Seq(Rows)
            /\ Len(SubSeq(all, 1, k)) = IF 1 <= k THEN k - 1 + 1 ELSE 0
            /\ \A i \in 1..(k - 1 + 1) : SubSeq(all, 1, k)[i] = all[1 + i - 1]
        BY <2>4, <3>1, SubSeqProperties
      <3>3. \A i \in 1..k : SubSeq(all, 1, k)[i] = pages[i]
        BY <2>4, <2>6, <3>2
      <3>4. Len(SubSeq(all, 1, k)) = Len(pages)
        BY <2>4, <3>2
      <3> HIDE DEF k
      <3> QED BY <2>4, <3>2, <3>3, <3>4, SeqEqual DEF k
    <2>8. SubSeq(pages, 1, k) = pages
      BY <2>4, SubSeqFull
    <2>9. reading = "done" => Len(pages) = Cardinality(since)
      BY DEF Inv, ReadInv
    <2> QED BY <2>4, <2>7, <2>8, <2>9 DEF PagesAreFaithful, IsPrefix, all
  <1> QED BY <1>1, InvHolds, PTL
=============================================================================
