--------------------------- MODULE MoneyTxProofs ----------------------------
(***************************************************************************)
(* First, what the statements of internal/wallet, and the sequences of     *)
(* them that one transaction issues, do to the books: the ledger of every  *)
(* wallet keeps adding up to its cents, no CHECK that was tested fires,    *)
(* only the wallets a transaction names change, real money is conserved,   *)
(* every spin has its rows, and the integrity checks find nothing to       *)
(* complain of.                                                            *)
(* Then IInv, an inductive invariant of MoneyTx: a step of one transaction *)
(* keeps what the others established, because it only writes what it has   *)
(* locked (FrameKeeps), and the commit of a transaction is the atomic step *)
(* of Bank its own part of IInv allows.                                    *)
(***************************************************************************)
EXTENDS MoneyTx, Integrity, FiniteSetTheorems, SequenceTheorems, TLAPS

-----------------------------------------------------------------------------
(***************************************************************************)
(* What a total is, by induction over its domain. Induction over data is   *)
(* used in the form of a minimal counterexample (MinimalSet), which needs  *)
(* no theorem with an operator for a parameter.                            *)
(***************************************************************************)

(* A collection of subsets of a finite set has a minimal member.           *)
LEMMA MinimalSet ==
    ASSUME NEW S, IsFiniteSet(S), NEW Bad \in SUBSET SUBSET S, Bad # {}
    PROVE  \E T \in Bad : \A x \in T : T \ {x} \notin Bad
  <1> DEFINE less == StrictSubsetOrdering(S)
  <1>1. Bad \subseteq FiniteSubsetsOf(S)
    BY FS_FiniteSubsetsOfFinite
  <1>2. IsWellFoundedOn(less, FiniteSubsetsOf(S))
    BY FS_StrictSubsetOrderingWellFounded
  <1>3. PICK T \in Bad : \A U \in Bad : <<U, T>> \notin less
    <2> HIDE DEF less
    <2> QED BY <1>1, <1>2, WFMin
  <1>4. \A x \in T : <<T \ {x}, T>> \in less
    BY DEF StrictSubsetOrdering
  <1> QED BY <1>3, <1>4
-----------------------------------------------------------------------------
(* The fold behind Total is a function on the subsets of its domain.       *)

Pick(s) == CHOOSE x \in s : TRUE

IsSum(sum, f, D) ==
    sum = [s \in SUBSET D |-> IF s = {} THEN 0 ELSE f[Pick(s)] + sum[s \ {Pick(s)}]]

(* Total is a fold that takes the elements as CHOOSE gives them.           *)
LEMMA TotalIsSum ==
    ASSUME NEW f
    PROVE  Total(f) = (CHOOSE sum : IsSum(sum, f, DOMAIN f))[DOMAIN f]
  BY Zenon DEF Total, FoldFunction, FoldFunctionOnSet, MapThenFoldSet, IsSum, Pick

(* Induction over the numbers, for a set of them.                          *)
LEMMA NatSetInduction ==
    ASSUME NEW Good, 0 \in Good, \A n \in Nat : n \in Good => n + 1 \in Good
    PROVE  \A n \in Nat : n \in Good
  <1> DEFINE less == OpToRel(<, Nat)
             Bad == Nat \ Good
  <1>1. SUFFICES ASSUME Bad # {} PROVE FALSE
    OBVIOUS
  <1>2. \A m, n \in Nat : m < n => <<m, n>> \in less
    BY DEF OpToRel
  <1>3. PICK n \in Bad : \A m \in Bad : <<m, n>> \notin less
    <2>1. IsWellFoundedOn(less, Nat) /\ Bad \subseteq Nat
      BY NatLessThanWellFounded, Zenon
    <2> HIDE DEF less, Bad
    <2> QED BY <1>1, <2>1, WFMin, Zenon
  <1>4. n \in Nat \ {0} /\ n - 1 \in Nat /\ n - 1 < n /\ (n - 1) + 1 = n
    OBVIOUS
  <1>5. n - 1 \in Good
    BY <1>2, <1>3, <1>4
  <1> QED BY <1>3, <1>4, <1>5

\* CHOOSE chooses.
LEMMA PickIsIn ==
    ASSUME NEW s, s # {}
    PROVE  Pick(s) \in s
  BY DEF Pick

(* Such a fold exists over every finite set: it is built up by the size of *)
(* the subsets.                                                            *)
LEMMA SumExists ==
    ASSUME NEW D, IsFiniteSet(D), NEW f
    PROVE  \E sum : IsSum(sum, f, D)
  <1> DEFINE Upto(n) == {s \in SUBSET D : Cardinality(s) <= n}
             Part(sum, n) == sum = [s \in Upto(n) |->
                 IF s = {} THEN 0 ELSE f[Pick(s)] + sum[s \ {Pick(s)}]]
             Good == {n \in Nat : \E sum : Part(sum, n)}
  <1>1. \A s \in SUBSET D : IsFiniteSet(s) /\ Cardinality(s) \in Nat
    BY FS_Subset, FS_CardinalityType
  <1>2. 0 \in Good
    <2>1. Upto(0) = {{}}
      BY <1>1, FS_EmptySet
    <2>2. Part([s \in Upto(0) |-> 0], 0)
      BY <2>1
    <2> QED BY <2>2
  <1>3. ASSUME NEW n \in Nat, n \in Good
        PROVE  n + 1 \in Good
    <2>1. PICK sum : Part(sum, n)
      BY <1>3
    <2> DEFINE more == [s \in Upto(n + 1) |->
                 IF s = {} THEN 0 ELSE f[Pick(s)] + sum[s \ {Pick(s)}]]
    <2>2. ASSUME NEW s \in Upto(n + 1), s # {}
          PROVE  s \ {Pick(s)} \in Upto(n) /\ s \ {Pick(s)} \in Upto(n + 1)
      BY <2>2, <1>1, PickIsIn, FS_RemoveElement
    <2>3. ASSUME NEW s \in Upto(n)
          PROVE  s \in Upto(n + 1) /\ more[s] = sum[s]
      <3>1. s \in Upto(n + 1)
        BY <1>1
      <3>2. sum[s] = IF s = {} THEN 0 ELSE f[Pick(s)] + sum[s \ {Pick(s)}]
        BY <2>1
      <3> QED BY <3>1, <3>2
    <2>4. Part(more, n + 1)
      BY <2>2, <2>3
    <2> QED BY <2>4, n + 1 \in Nat
  <1> HIDE DEF Good
  <1>4. Cardinality(D) \in Good
    BY <1>1, <1>2, <1>3, NatSetInduction
  <1>5. Upto(Cardinality(D)) = SUBSET D
    BY <1>1, FS_Subset
  <1> QED BY <1>4, <1>5 DEF Good, IsSum

\* The equation of the fold, one application at a time.
LEMMA SumUnfolds ==
    ASSUME NEW D, NEW f, NEW sum, IsSum(sum, f, D)
    PROVE  /\ sum[{}] = 0
           /\ \A s \in SUBSET D :
                 s # {} => Pick(s) \in s /\ sum[s] = f[Pick(s)] + sum[s \ {Pick(s)}]
  BY PickIsIn DEF IsSum

(* Folds of functions that agree, agree.                                   *)
LEMMA SumsAgree ==
    ASSUME NEW D, IsFiniteSet(D), NEW E \in SUBSET D, NEW f, NEW g,
           \A x \in E : f[x] = g[x],
           NEW sum, IsSum(sum, f, D), NEW other, IsSum(other, g, E)
    PROVE  \A s \in SUBSET E : sum[s] = other[s]
  <1> DEFINE Bad == {s \in SUBSET E : sum[s] # other[s]}
  <1>1. SUFFICES ASSUME Bad # {} PROVE FALSE
    OBVIOUS
  <1>2. IsFiniteSet(E)
    BY FS_Subset
  <1>3. PICK s \in Bad : \A x \in s : s \ {x} \notin Bad
    BY <1>1, <1>2, MinimalSet
  <1>4. s # {}
    BY SumUnfolds
  <1>5. /\ Pick(s) \in s
        /\ sum[s] = f[Pick(s)] + sum[s \ {Pick(s)}]
        /\ other[s] = g[Pick(s)] + other[s \ {Pick(s)}]
    BY <1>4, SumUnfolds
  <1> QED BY <1>3, <1>5

\* A fold of integers is one.
LEMMA SumIsInt ==
    ASSUME NEW D, IsFiniteSet(D), NEW f, \A x \in D : f[x] \in Int,
           NEW sum, IsSum(sum, f, D)
    PROVE  \A s \in SUBSET D : sum[s] \in Int
  <1> DEFINE Bad == {s \in SUBSET D : sum[s] \notin Int}
  <1>1. SUFFICES ASSUME Bad # {} PROVE FALSE
    OBVIOUS
  <1>2. PICK s \in Bad : \A x \in s : s \ {x} \notin Bad
    BY <1>1, MinimalSet
  <1>3. s # {}
    <2>1. sum[{}] = 0
      BY SumUnfolds
    <2> QED BY <2>1
  <1>4. Pick(s) \in s /\ sum[s] = f[Pick(s)] + sum[s \ {Pick(s)}]
    BY <1>3, SumUnfolds
  <1> QED BY <1>2, <1>4

(* Any element may be taken first, not only the one CHOOSE gives.          *)
LEMMA SumTakesAny ==
    ASSUME NEW D, IsFiniteSet(D), NEW f, \A x \in D : f[x] \in Int,
           NEW sum, IsSum(sum, f, D)
    PROVE  \A s \in SUBSET D : \A x \in s : sum[s] = f[x] + sum[s \ {x}]
  <1> DEFINE Bad == {s \in SUBSET D : \E x \in s : sum[s] # f[x] + sum[s \ {x}]}
  <1>1. SUFFICES ASSUME Bad # {} PROVE FALSE
    OBVIOUS
  <1>2. PICK s \in Bad : \A x \in s : s \ {x} \notin Bad
    BY <1>1, MinimalSet
  <1>3. PICK x \in s : sum[s] # f[x] + sum[s \ {x}]
    OBVIOUS
  <1> DEFINE y == Pick(s)
             rest == s \ {x, y}
  <1>4. y \in s /\ sum[s] = f[y] + sum[s \ {y}]
    BY SumUnfolds
  <1>5. x # y
    BY <1>3, <1>4
  <1>6. /\ sum[s \ {y}] = f[x] + sum[rest]
        /\ sum[s \ {x}] = f[y] + sum[rest]
    <2>1. s \ {y} \in SUBSET D /\ x \in s \ {y} /\ (s \ {y}) \ {x} = rest
      BY <1>5
    <2>2. s \ {x} \in SUBSET D /\ y \in s \ {x} /\ (s \ {x}) \ {y} = rest
      BY <1>4, <1>5
    <2> QED BY <1>2, <1>4, <2>1, <2>2
  <1>7. f[x] \in Int /\ f[y] \in Int /\ sum[rest] \in Int
    BY <1>4, SumIsInt
  <1> QED BY <1>3, <1>4, <1>6, <1>7

\* Total is such a fold.
LEMMA TotalIsItsSum ==
    ASSUME NEW D, IsFiniteSet(D), NEW f \in [D -> Int]
    PROVE  \E sum : IsSum(sum, f, D) /\ Total(f) = sum[D]
  <1>1. \E sum : IsSum(sum, f, D)
    BY SumExists
  <1>2. Total(f) = (CHOOSE sum : IsSum(sum, f, D))[D]
    BY TotalIsSum, Zenon
  <1> QED BY <1>1, <1>2, Zenon

-----------------------------------------------------------------------------
(* What the other proofs cite.                                             *)

\* The total of nothing.
LEMMA TotalOfNothing ==
    ASSUME NEW f \in [{} -> Int]
    PROVE  Total(f) = 0
  BY TotalIsItsSum, FS_EmptySet, SumUnfolds

\* A total of integers is one.
LEMMA TotalInInt ==
    ASSUME NEW D, IsFiniteSet(D), NEW f \in [D -> Int]
    PROVE  Total(f) \in Int
  BY TotalIsItsSum, SumIsInt

(* A total is any one value and the total of the others.                   *)
LEMMA TotalSplits ==
    ASSUME NEW D, IsFiniteSet(D), NEW f \in [D -> Int], NEW x \in D
    PROVE  Total(f) = f[x] + Total([y \in D \ {x} |-> f[y]])
  <1> DEFINE E == D \ {x}
             g == [y \in E |-> f[y]]
  <1>1. PICK sum : IsSum(sum, f, D) /\ Total(f) = sum[D]
    BY TotalIsItsSum
  <1>2. IsFiniteSet(E) /\ E \in SUBSET D /\ g \in [E -> Int]
    BY FS_RemoveElement
  <1> HIDE DEF g, E
  <1>3. PICK other : IsSum(other, g, E) /\ Total(g) = other[E]
    BY <1>2, TotalIsItsSum
  <1>4. sum[E] = other[E]
    BY <1>1, <1>2, <1>3, SumsAgree DEF g
  <1>5. sum[D] = f[x] + sum[E]
    BY <1>1, SumTakesAny DEF E
  <1> QED BY <1>1, <1>3, <1>4, <1>5 DEF g, E

(* When one value changes, the total changes by as much.                   *)
LEMMA TotalChangesBy ==
    ASSUME NEW D, IsFiniteSet(D), NEW f \in [D -> Int], NEW g \in [D -> Int],
           NEW x \in D, \A y \in D \ {x} : f[y] = g[y]
    PROVE  Total(g) = Total(f) + g[x] - f[x]
  <1> DEFINE E == D \ {x}
             h == [y \in E |-> f[y]]
  <1>1. h = [y \in E |-> g[y]]
    OBVIOUS
  <1>2. IsFiniteSet(E) /\ h \in [E -> Int]
    BY FS_RemoveElement
  <1>3. Total(h) \in Int
    BY <1>2, TotalInInt
  <1>4. Total(f) = f[x] + Total(h) /\ Total(g) = g[x] + Total(h)
    BY <1>1, TotalSplits
  <1> QED BY <1>3, <1>4

(* A value is added to a total.                                            *)
LEMMA TotalGrowsBy ==
    ASSUME NEW D, IsFiniteSet(D), NEW f \in [D -> Int],
           NEW x, x \notin D, NEW g \in [D \cup {x} -> Int],
           \A y \in D : f[y] = g[y]
    PROVE  Total(g) = Total(f) + g[x]
  <1> DEFINE E == D \cup {x}
  <1>1. IsFiniteSet(E) /\ x \in E /\ E \ {x} = D
    BY FS_AddElement
  <1>2. [y \in E \ {x} |-> g[y]] = f
    BY <1>1
  <1>3. Total(g) = g[x] + Total(f)
    BY <1>1, <1>2, TotalSplits
  <1> QED BY <1>1, <1>3, TotalInInt

-----------------------------------------------------------------------------
(***************************************************************************)
(* The statements of internal/wallet, and what they keep of the books.     *)
(***************************************************************************)

(* MaxMultiplierBP is the greatest multiplier of the wheel.                *)
LEMMA MaxMultIsMax == MaxMultBP \in Mults /\ \A m \in Mults : m <= MaxMultBP
  BY WheelIsSane DEF MaxMultBP

(* A payout is a number of cents, never negative.                          *)
LEMMA PayoutInNat ==
    ASSUME NEW stake \in Nat, NEW m \in Nat
    PROVE  Payout(stake, m) \in Nat
  BY DEF Payout

(* What MaxExposure asks the bankroll to cover is at least what any sector *)
(* of the wheel pays: truncation cannot turn the comparison around.        *)
LEMMA ExposureCoversPayout ==
    ASSUME NEW stake \in Nat, NEW m \in Mults
    PROVE  /\ MaxExposure(stake) \in Nat
           /\ Payout(stake, m) <= MaxExposure(stake)
  <1>1. m \in Nat /\ MaxMultBP \in Nat /\ m <= MaxMultBP
    BY MaxMultIsMax, WheelIsSane
  <1>2. stake * m <= stake * MaxMultBP
    BY <1>1
  <1>3. stake * m \in Nat /\ stake * MaxMultBP \in Nat
    BY <1>1
  <1>4. QED
    BY <1>2, <1>3 DEF Payout, MaxExposure

(* Nobody earns a commission on his own spin, nor anybody on a demo spin.  *)
LEMMA PayeeIsAnotherUser ==
    ASSUME NEW u \in Users, NEW isReal \in BOOLEAN
    PROVE  /\ Payee(u, isReal) \in Users \cup {NoUser}
           /\ Payee(u, isReal) # u
           /\ ~isReal => Payee(u, isReal) = NoUser
  BY UsersAreIds, ReferrersAreSane DEF Payee

(* Rake and commission, each truncated, come out of the stake together.    *)
LEMMA SplitFitsTheStake ==
    ASSUME NEW stake \in Nat, NEW u \in Users, NEW isReal \in BOOLEAN
    PROVE  /\ Rake(stake) \in Nat
           /\ Commission(u, isReal, stake) \in Nat
           /\ Rake(stake) + Commission(u, isReal, stake) <= stake
  <1> DEFINE r == stake * RakeBP
             c == stake * ReferralBP
  <1>1. r \in Nat /\ c \in Nat
    BY SplitFitsTheEdge
  <1>2. r + c <= stake * 10000
    <2>1. r + c = stake * (RakeBP + ReferralBP)
      BY SplitFitsTheEdge
    <2>2. RakeBP + ReferralBP \in Nat /\ RakeBP + ReferralBP <= 10000
      BY SplitFitsTheEdge
    <2>3. stake * (RakeBP + ReferralBP) <= stake * 10000
      BY <2>2
    <2>4. QED
      BY <2>1, <2>3
  <1> HIDE DEF r, c
  <1>3. r \div 10000 + c \div 10000 <= stake
    BY <1>1, <1>2
  <1>4. Rake(stake) = r \div 10000
    BY DEF Rake, r
  <1>5. Commission(u, isReal, stake) \in {0, c \div 10000}
    BY DEF Commission, c
  <1>6. QED
    BY <1>1, <1>3, <1>4, <1>5

(* A spin whose exposure the bankroll covered leaves the bankroll at zero  *)
(* or more, whatever the wheel turns up.                                   *)
LEMMA AdmittedSpinSettles ==
    ASSUME NEW s \in SpinRows, NEW bankroll \in Nat,
           bankroll >= MaxExposure(s.stake)
    PROVE  /\ HouseDelta(s) \in Int
           /\ bankroll + HouseDelta(s) >= 0
  <1>1. s.stake \in Nat /\ s.user \in Users /\ s.isReal \in BOOLEAN /\ s.mult \in Mults
    BY StakesArePositive DEF SpinRows
  <1>2. Payout(s.stake, s.mult) \in Nat
    BY <1>1, PayoutInNat, WheelIsSane
  <1>3. Payout(s.stake, s.mult) <= MaxExposure(s.stake) /\ MaxExposure(s.stake) \in Nat
    BY <1>1, ExposureCoversPayout
  <1>4. /\ Rake(s.stake) \in Nat
        /\ Commission(s.user, s.isReal, s.stake) \in Nat
        /\ Rake(s.stake) + Commission(s.user, s.isReal, s.stake) <= s.stake
    BY <1>1, SplitFitsTheStake
  <1>5. QED
    BY <1>1, <1>2, <1>3, <1>4 DEF HouseDelta
-----------------------------------------------------------------------------
(* One more row adds its delta to the sum of its own user and pot, and to  *)
(* no other sum.                                                           *)
LEMMA AppendAddsUp ==
    ASSUME NEW rows \in Seq(Rows), NEW row \in Rows, NEW cents \in Int,
           AddsUpTo(rows, cents), row.after = cents + row.amount
    PROVE  AddsUpTo(Append(rows, row), row.after)
  <1> DEFINE more == Append(rows, row)
  <1>1. /\ Len(rows) \in Nat /\ Len(more) = Len(rows) + 1
        /\ more[Len(rows) + 1] = row
        /\ \A i \in 1..Len(rows) : more[i] = rows[i]
    OBVIOUS
  <1> HIDE DEF more
  <1>2. AddsUpTo(more, row.after)
    BY <1>1 DEF AddsUpTo
  <1>3. QED
    BY <1>2 DEF more

(* What one UPDATE wallets with its ledger row does to sound books: they   *)
(* stay sound, and only the wallet named changes.                          *)
MoveDone(b, c, u, isReal, delta) ==
    /\ Sound(c)
    /\ c.house = b.house
    /\ c.wallets = [b.wallets EXCEPT ![u] = Adjusted(b.wallets[u], isReal, delta)]

(* Move keeps the books sound: the row it appends is the difference it     *)
(* makes to the balance.                                                   *)
LEMMA MoveIsSound ==
    ASSUME NEW b, Sound(b), NEW u \in Users, NEW isReal \in BOOLEAN,
           NEW kind \in Kinds, NEW delta \in Int, NEW ref \in RowRefs,
           MoveFits(b, u, isReal, delta)
    PROVE  MoveDone(b, Move(b, u, isReal, kind, delta, ref), u, isReal, delta)
  <1> DEFINE c == Move(b, u, isReal, kind, delta, ref)
             w == Adjusted(b.wallets[u], isReal, delta)
             row == Row(kind, delta, Spendable(w, isReal), ref)
             key == <<u, isReal>>
  <1>1. /\ b.wallets \in [Users -> [real : Nat, demo : Nat, held : Nat]]
        /\ b.ledger \in [Users \X BOOLEAN -> Seq(Rows)]
        /\ b.house \in [bankroll : Nat, rake : Nat]
    BY DEF Sound, Books
  <1>2. /\ w \in [real : Nat, demo : Nat, held : Nat]
        /\ Spendable(w, isReal) = Spendable(b.wallets[u], isReal) + delta
        /\ Spendable(w, isReal) \in Nat
        /\ Spendable(w, ~isReal) = Spendable(b.wallets[u], ~isReal)
        /\ w.held = b.wallets[u].held
    BY <1>1 DEF Adjusted, Spendable, MoveFits
  <1>3. row \in Rows /\ row.after = Spendable(b.wallets[u], isReal) + row.amount
        /\ row.after = Spendable(w, isReal)
    BY <1>2 DEF Row, Rows
  <1>4. /\ c.wallets = [b.wallets EXCEPT ![u] = w]
        /\ c.ledger = [b.ledger EXCEPT ![key] = Append(@, row)]
        /\ c.house = b.house
    BY DEF Move
  <1>5. c = [wallets |-> c.wallets, ledger |-> c.ledger, house |-> c.house]
    BY DEF Move
  <1> HIDE DEF c, w, row
  <1>6. c \in Books
    <2>1. key \in Users \X BOOLEAN
      OBVIOUS
    <2>2. c.wallets \in [Users -> [real : Nat, demo : Nat, held : Nat]]
      BY <1>1, <1>2, <1>4
    <2>3. c.ledger \in [Users \X BOOLEAN -> Seq(Rows)]
      BY <1>1, <1>3, <1>4, <2>1
    <2>4. QED
      BY <1>1, <1>4, <1>5, <2>2, <2>3 DEF Books
  <1>7. ASSUME NEW v \in Users, NEW r \in BOOLEAN
        PROVE  AddsUpTo(c.ledger[<<v, r>>], Spendable(c.wallets[v], r))
    <2>1. AddsUpTo(b.ledger[<<v, r>>], Spendable(b.wallets[v], r))
      BY DEF Sound
    <2>2. CASE <<v, r>> = key
      <3>1. c.ledger[<<v, r>>] = Append(b.ledger[key], row)
        BY <1>1, <1>4, <2>2
      <3>2. Spendable(c.wallets[v], r) = row.after
        BY <1>1, <1>3, <1>4, <2>2
      <3>3. b.ledger[key] \in Seq(Rows) /\ Spendable(b.wallets[u], isReal) \in Int
        BY <1>1 DEF Spendable
      <3>4. AddsUpTo(Append(b.ledger[key], row), row.after)
        BY <1>3, <2>1, <2>2, <3>3, AppendAddsUp
      <3>5. QED
        BY <3>1, <3>2, <3>4
    <2>3. CASE <<v, r>> # key
      <3>1. c.ledger[<<v, r>>] = b.ledger[<<v, r>>]
        BY <1>1, <1>4, <2>3
      <3>2. Spendable(c.wallets[v], r) = Spendable(b.wallets[v], r)
        <4>1. CASE v = u
          BY <1>1, <1>2, <1>4, <2>3, <4>1
        <4>2. CASE v # u
          BY <1>1, <1>4, <4>2
        <4>3. QED
          BY <4>1, <4>2
      <3>3. QED
        BY <2>1, <3>1, <3>2
    <2>4. QED
      BY <2>2, <2>3
  <1>8. Sound(c)
    BY <1>6, <1>7 DEF Sound
  <1>9. QED
    BY <1>4, <1>8 DEF c, w, MoveDone

(* The same of a real-money movement, for the leaves that know no isReal.  *)
LEMMA RealMoveIsSound ==
    ASSUME NEW b, Sound(b), NEW u \in Users,
           NEW kind \in Kinds, NEW delta \in Int, NEW ref \in RowRefs,
           MoveFits(b, u, TRUE, delta)
    PROVE  MoveDone(b, Move(b, u, TRUE, kind, delta, ref), u, TRUE, delta)
  BY MoveIsSound, Zenon

(* MoveHouse changes the house and leaves every wallet as it is.           *)
LEMMA HouseMoveIsSound ==
    ASSUME NEW b, Sound(b), NEW d \in Int, NEW r \in Int,
           b.house.bankroll + d >= 0, b.house.rake + r >= 0
    PROVE  LET c == MoveHouse(b, d, r)
           IN /\ Sound(c) /\ c.wallets = b.wallets /\ c.ledger = b.ledger
              /\ c.house.bankroll = b.house.bankroll + d
              /\ c.house.rake = b.house.rake + r
  <1> DEFINE c == MoveHouse(b, d, r)
  <1>1. b = [wallets |-> b.wallets, ledger |-> b.ledger, house |-> b.house]
        /\ b.house \in [bankroll : Nat, rake : Nat]
    BY DEF Sound, Books
  <1>2. /\ c.wallets = b.wallets /\ c.ledger = b.ledger
        /\ c.house = [bankroll |-> b.house.bankroll + d, rake |-> b.house.rake + r]
        /\ c = [wallets |-> c.wallets, ledger |-> c.ledger, house |-> c.house]
    BY <1>1 DEF MoveHouse
  <1> HIDE DEF c
  <1>3. Sound(c)
    BY <1>1, <1>2 DEF Sound, Books
  <1>4. QED
    BY <1>2, <1>3 DEF c

(* A change of held_cents leaves what can be spent, and all other users.   *)
LEMMA HeldMoveIsSound ==
    ASSUME NEW b, Sound(b), NEW u \in Users, NEW d \in Int,
           b.wallets[u].held + d >= 0
    PROVE  LET c == MoveHeld(b, u, d)
           IN /\ Sound(c)
              /\ c.house = b.house
              /\ \A v \in Users \ {u} : c.wallets[v] = b.wallets[v]
              /\ \A r \in BOOLEAN :
                    Spendable(c.wallets[u], r) = Spendable(b.wallets[u], r)
              /\ c.wallets[u].held = b.wallets[u].held + d
  <1> DEFINE old == b.wallets[u]
             w == [old EXCEPT !.held = old.held + d]
             c == [wallets |-> [b.wallets EXCEPT ![u] = w],
                   ledger |-> b.ledger, house |-> b.house]
  <1>1. /\ b.wallets \in [Users -> [real : Nat, demo : Nat, held : Nat]]
        /\ b.ledger \in [Users \X BOOLEAN -> Seq(Rows)]
        /\ b.house \in [bankroll : Nat, rake : Nat]
    BY DEF Sound, Books
  <1>2. old \in [real : Nat, demo : Nat, held : Nat] /\ old.held + d >= 0
    BY <1>1
  <1> HIDE DEF old
  <1>3. /\ w \in [real : Nat, demo : Nat, held : Nat]
        /\ w.real = old.real /\ w.demo = old.demo /\ w.held = old.held + d
    BY <1>2
  <1> HIDE DEF w
  <1>4. c \in Books
    BY <1>1, <1>3 DEF Books
  <1>5. \A v \in Users, r \in BOOLEAN :
           Spendable(c.wallets[v], r) = Spendable(b.wallets[v], r)
    BY <1>1, <1>3 DEF Spendable, old
  <1>6. c.ledger = b.ledger /\ c.house = b.house
    OBVIOUS
  <1>7. /\ \A v \in Users \ {u} : c.wallets[v] = b.wallets[v]
        /\ c.wallets[u].held = b.wallets[u].held + d
    BY <1>1, <1>3 DEF old
  <1>8. MoveHeld(b, u, d) = c
    BY DEF MoveHeld, w, old
  <1> HIDE DEF c
  <1>9. Sound(c)
    BY <1>4, <1>5, <1>6 DEF Sound
  <1>10. QED
    BY <1>5, <1>6, <1>7, <1>8, <1>9
-----------------------------------------------------------------------------
(* What the transactions do to sound books. *)

(* What a transaction on one wallet does: the books stay sound, the house  *)
(* and the other wallets are left alone, and held_cents moves by d.        *)
Touches(b, c, u, d) ==
    /\ Sound(c)
    /\ c.house = b.house
    /\ \A v \in Users \ {u} : c.wallets[v] = b.wallets[v]
    /\ c.wallets[u].held = b.wallets[u].held + d

(* A movement with its ledger row leaves held_cents alone.                 *)
LEMMA MoveTouches ==
    ASSUME NEW b, Sound(b), NEW c, NEW u \in Users, NEW isReal \in BOOLEAN,
           NEW delta \in Int, MoveDone(b, c, u, isReal, delta)
    PROVE  Touches(b, c, u, 0)
  <1>1. b.wallets \in [Users -> [real : Nat, demo : Nat, held : Nat]]
    BY DEF Sound, Books
  <1>2. Adjusted(b.wallets[u], isReal, delta).held = b.wallets[u].held
    BY <1>1 DEF Adjusted
  <1>3. b.wallets[u].held \in Nat
    BY <1>1
  <1>4. QED
    BY <1>1, <1>2, <1>3 DEF MoveDone, Touches

(* The statements of a spin, one at a time.  The bet takes the stake.      *)
LEMMA BetIsMove ==
    ASSUME NEW b, Sound(b), NEW s \in SpinRows, SpinFits(b, s)
    PROVE  MoveDone(b, BetPlaced(b, s), s.user, s.isReal, -s.stake)
  <1>1. /\ s.user \in Users /\ s.isReal \in BOOLEAN
        /\ s.stake \in Nat /\ SpinId(s) \in RowRefs
    BY StakesArePositive DEF SpinRows, SpinId, RowRefs
  <1>2. MoveFits(b, s.user, s.isReal, -s.stake)
    BY DEF SpinFits
  <1>3. "bet" \in Kinds /\ -s.stake \in Int
    BY <1>1 DEF Kinds
  <1>4. QED
    BY <1>1, <1>2, <1>3, MoveIsSound DEF BetPlaced

\* A balance that moves by nothing stays.
LEMMA NothingMoved ==
    ASSUME NEW b, Sound(b), NEW u \in Users, NEW isReal \in BOOLEAN
    PROVE  MoveDone(b, b, u, isReal, 0)
  <1>1. b.wallets \in [Users -> [real : Nat, demo : Nat, held : Nat]]
    BY DEF Sound, Books
  <1>2. Adjusted(b.wallets[u], isReal, 0) = b.wallets[u]
    BY <1>1 DEF Adjusted
  <1>3. QED
    BY <1>1, <1>2 DEF MoveDone

(* The win adds the payout, in the realm of the bet; a spin that pays      *)
(* nothing writes nothing.                                                 *)
LEMMA WinIsMove ==
    ASSUME NEW b, Sound(b), NEW s \in SpinRows
    PROVE  MoveDone(b, WinPaid(b, s), s.user, s.isReal, Payout(s.stake, s.mult))
  <1> DEFINE payout == Payout(s.stake, s.mult)
             c == WinPaid(b, s)
  <1>1. /\ s.user \in Users /\ s.isReal \in BOOLEAN /\ s.mult \in Mults
        /\ s.stake \in Nat /\ SpinId(s) \in RowRefs
    BY StakesArePositive DEF SpinRows, SpinId, RowRefs
  <1>2. payout \in Nat
    BY <1>1, PayoutInNat, WheelIsSane
  <1>3. CASE payout = 0
    <2>1. c = b
      BY <1>3 DEF WinPaid
    <2> HIDE DEF c, payout
    <2>2. MoveDone(b, b, s.user, s.isReal, 0)
      BY <1>1, NothingMoved
    <2>3. QED
      BY <1>3, <2>1, <2>2, Zenon DEF c, payout
  <1>4. CASE payout > 0
    <2>1. c = Move(b, s.user, s.isReal, "win", payout, SpinId(s))
      BY <1>4 DEF WinPaid
    <2>2. b.wallets \in [Users -> [real : Nat, demo : Nat, held : Nat]]
      BY DEF Sound, Books
    <2>3. MoveFits(b, s.user, s.isReal, payout) /\ "win" \in Kinds /\ payout \in Int
      BY <1>1, <1>2, <2>2 DEF MoveFits, Spendable, Kinds
    <2>4. QED
      BY <1>1, <2>1, <2>3, MoveIsSound
  <1>5. QED
    BY <1>2, <1>3, <1>4

(* The house takes the stake of a real spin and pays for the rest.         *)
LEMMA HouseIsMove ==
    ASSUME NEW b, Sound(b), NEW s \in SpinRows,
           s.isReal => b.house.bankroll + HouseDelta(s) >= 0
    PROVE  LET c == HouseSettled(b, s)
           IN /\ Sound(c) /\ c.wallets = b.wallets /\ c.ledger = b.ledger
              /\ ~s.isReal => c.house = b.house
              /\ s.isReal => /\ c.house.bankroll = b.house.bankroll + HouseDelta(s)
                             /\ c.house.rake = b.house.rake + Rake(s.stake)
  <1>1. /\ s.user \in Users /\ s.isReal \in BOOLEAN /\ s.mult \in Mults /\ s.stake \in Nat
    BY StakesArePositive DEF SpinRows
  <1>2. /\ Payout(s.stake, s.mult) \in Nat /\ Rake(s.stake) \in Nat
        /\ Commission(s.user, s.isReal, s.stake) \in Nat
    BY <1>1, PayoutInNat, SplitFitsTheStake, WheelIsSane
  <1>3. HouseDelta(s) \in Int
    BY <1>1, <1>2 DEF HouseDelta
  <1>4. b.house.rake + Rake(s.stake) >= 0
    BY <1>2 DEF Sound, Books
  <1>5. CASE s.isReal
    <2>1. HouseSettled(b, s) = MoveHouse(b, HouseDelta(s), Rake(s.stake))
      BY <1>5 DEF HouseSettled
    <2>2. QED
      BY <1>2, <1>3, <1>4, <1>5, <2>1, HouseMoveIsSound
  <1>6. CASE ~s.isReal
    BY <1>6 DEF HouseSettled
  <1>7. QED
    BY <1>5, <1>6

(* The commission goes to the referrer, in real cents.                     *)
LEMMA CommissionIsMove ==
    ASSUME NEW b, Sound(b), NEW s \in SpinRows
    PROVE  LET commission == Commission(s.user, s.isReal, s.stake)
               payee == Payee(s.user, s.isReal)
           IN /\ commission \in Nat
              /\ commission = 0 => CommissionPaid(b, s) = b
              /\ commission > 0 =>
                    /\ s.isReal /\ payee \in Users
                    /\ CommissionPaid(b, s) =
                          Move(b, payee, TRUE, "referral", commission, SpinId(s))
                    /\ MoveDone(b, CommissionPaid(b, s), payee, TRUE, commission)
  <1> DEFINE commission == Commission(s.user, s.isReal, s.stake)
             payee == Payee(s.user, s.isReal)
  <1>1. /\ s.user \in Users /\ s.isReal \in BOOLEAN /\ s.stake \in Nat
        /\ SpinId(s) \in RowRefs
    BY StakesArePositive DEF SpinRows, SpinId, RowRefs
  <1>2. commission \in Nat
    BY <1>1, SplitFitsTheStake
  <1>3. ASSUME commission > 0
        PROVE  /\ s.isReal /\ payee \in Users
               /\ CommissionPaid(b, s) =
                     Move(b, payee, TRUE, "referral", commission, SpinId(s))
    <2>1. payee \in Users /\ s.isReal
      BY <1>1, <1>3, PayeeIsAnotherUser DEF Commission
    <2>2. QED
      BY <1>3, <2>1 DEF CommissionPaid
  <1>4. ASSUME commission > 0
        PROVE  MoveDone(b, CommissionPaid(b, s), payee, TRUE, commission)
    <2>1. b.wallets \in [Users -> [real : Nat, demo : Nat, held : Nat]]
      BY DEF Sound, Books
    <2>2. MoveFits(b, payee, TRUE, commission) /\ "referral" \in Kinds /\ commission \in Int
      BY <1>2, <1>3, <1>4, <2>1 DEF MoveFits, Spendable, Kinds
    <2>3. MoveDone(b, Move(b, payee, TRUE, "referral", commission, SpinId(s)),
                   payee, TRUE, commission)
      BY <1>1, <1>3, <1>4, <2>2, RealMoveIsSound, Zenon
    <2>4. QED
      BY <1>3, <1>4, <2>3
  <1>5. commission = 0 => CommissionPaid(b, s) = b
    BY DEF CommissionPaid
  <1>6. QED
    BY <1>2, <1>3, <1>4, <1>5

(* A whole spin, bet, win, house and commission, keeps the books sound and *)
(* touches the player, his referrer and, for real money, the house.        *)
LEMMA SpinIsSound ==
    ASSUME NEW b, Sound(b), NEW s \in SpinRows, SpinFits(b, s)
    PROVE  LET c == SpinPosted(b, s)
           IN /\ Sound(c)
              /\ \A v \in Users \ {s.user, Payee(s.user, s.isReal)} :
                    c.wallets[v] = b.wallets[v]
              /\ \A v \in Users : c.wallets[v].held = b.wallets[v].held
              /\ ~s.isReal => c.house = b.house
  <1> DEFINE b1 == BetPlaced(b, s)
             b2 == WinPaid(b1, s)
             b3 == HouseSettled(b2, s)
             b4 == CommissionPaid(b3, s)
             commission == Commission(s.user, s.isReal, s.stake)
             payee == Payee(s.user, s.isReal)
  <1>1. s.user \in Users /\ s.isReal \in BOOLEAN /\ s.mult \in Mults /\ s.stake \in Nat
    BY StakesArePositive DEF SpinRows
  <1>2. Payout(s.stake, s.mult) \in Int
    <2>1. s.mult \in Nat
      BY <1>1, WheelIsSane
    <2>2. Payout(s.stake, s.mult) \in Nat
      BY <1>1, <2>1, PayoutInNat
    <2>3. QED
      BY <2>2
  <1>3. SpinPosted(b, s) = b4
    BY DEF SpinPosted
  <1>4. MoveDone(b, b1, s.user, s.isReal, -s.stake)
    BY BetIsMove
  <1> HIDE DEF b1
  <1>5. Sound(b1)
    BY <1>4 DEF MoveDone
  <1>6. MoveDone(b1, b2, s.user, s.isReal, Payout(s.stake, s.mult))
    BY <1>5, WinIsMove
  <1> HIDE DEF b2
  <1>7. Sound(b2) /\ b2.house = b.house
    BY <1>4, <1>6 DEF MoveDone
  <1>8. /\ Sound(b3) /\ b3.wallets = b2.wallets
        /\ ~s.isReal => b3.house = b.house
    BY <1>7, HouseIsMove DEF SpinFits
  <1> HIDE DEF b3
  <1>9. /\ commission \in Nat
        /\ commission = 0 => b4 = b3
        /\ commission > 0 =>
              s.isReal /\ payee \in Users /\ MoveDone(b3, b4, payee, TRUE, commission)
    BY <1>8, CommissionIsMove
  <1> HIDE DEF b4, commission
  <1>10. /\ Touches(b, b1, s.user, 0) /\ Touches(b1, b2, s.user, 0)
         /\ commission > 0 => Touches(b3, b4, payee, 0)
    <2>1. Touches(b, b1, s.user, 0)
      BY <1>1, <1>4, MoveTouches
    <2>2. Touches(b1, b2, s.user, 0)
      BY <1>1, <1>2, <1>5, <1>6, MoveTouches
    <2>3. ASSUME commission > 0 PROVE Touches(b3, b4, payee, 0)
      <3> HIDE DEF payee
      <3>1. payee \in Users /\ MoveDone(b3, b4, payee, TRUE, commission)
        BY <1>9, <2>3, Zenon
      <3>2. commission \in Int /\ TRUE \in BOOLEAN /\ Sound(b3)
        BY <1>8, <1>9
      <3>3. QED
        BY <3>1, <3>2, MoveTouches, Zenon
    <2>4. QED
      BY <2>1, <2>2, <2>3
  <1> HIDE DEF payee
  <1>11. /\ \A v \in Users \ {s.user} : b3.wallets[v] = b.wallets[v]
         /\ \A v \in Users : b3.wallets[v].held = b.wallets[v].held
    <2>1. \A v \in Users : b.wallets[v].held \in Nat
      BY DEF Sound, Books
    <2>2. QED
      BY <1>1, <1>8, <1>10, <2>1 DEF Touches
  <1>12. /\ \A v \in Users \ {s.user, payee} : b4.wallets[v] = b.wallets[v]
         /\ \A v \in Users : b4.wallets[v].held = b.wallets[v].held
    <2>1. \A v \in Users : b3.wallets[v].held \in Nat
      BY <1>8 DEF Sound, Books
    <2>2. QED
      BY <1>8, <1>9, <1>10, <1>11, <2>1 DEF Touches
  <1>13. Sound(b4) /\ (~s.isReal => b4.house = b.house)
    BY <1>8, <1>9, <1>10 DEF Touches
  <1>14. QED
    BY <1>3, <1>12, <1>13 DEF payee

(* A top-up writes the difference to the target, or nothing.               *)
LEMMA TopUpIsSound ==
    ASSUME NEW b, Sound(b), NEW u \in Users, NEW target \in Nat
    PROVE  Touches(b, ToppedUp(b, u, target), u, 0)
  <1> DEFINE delta == target - b.wallets[u].demo
  <1>1. b.wallets \in [Users -> [real : Nat, demo : Nat, held : Nat]]
    BY DEF Sound, Books
  <1>2. delta \in Int /\ b.wallets[u].demo \in Nat /\ b.wallets[u].held \in Nat
    BY <1>1
  <1>3. CASE delta > 0
    <2>1. MoveFits(b, u, FALSE, delta) /\ "demo_grant" \in Kinds /\ NoRef \in RowRefs
      BY <1>2, <1>3 DEF MoveFits, Spendable, Kinds, RowRefs
    <2>2. ToppedUp(b, u, target) = Move(b, u, FALSE, "demo_grant", delta, NoRef)
      BY <1>3 DEF ToppedUp
    <2>3. FALSE \in BOOLEAN
      OBVIOUS
    <2> HIDE DEF delta
    <2>4. MoveDone(b, Move(b, u, FALSE, "demo_grant", delta, NoRef), u, FALSE, delta)
      BY <1>2, <2>1, <2>3, MoveIsSound, ZenonT(30)
    <2>5. Touches(b, Move(b, u, FALSE, "demo_grant", delta, NoRef), u, 0)
      BY <1>2, <2>3, <2>4, MoveTouches, ZenonT(30)
    <2>6. QED
      BY <2>2, <2>5, Zenon
  <1>4. CASE ~(delta > 0)
    <2>1. ToppedUp(b, u, target) = b
      BY <1>4 DEF ToppedUp
    <2>2. Touches(b, b, u, 0)
      BY <1>2 DEF Touches
    <2>3. QED
      BY <2>1, <2>2, Zenon
  <1>5. QED
    BY <1>3, <1>4

(* Hold takes the amount out of cash and into held_cents.                  *)
LEMMA HoldIsSound ==
    ASSUME NEW b, Sound(b), NEW u \in Users, NEW amount \in Nat, NEW ref \in RowRefs,
           MoveFits(b, u, TRUE, -amount)
    PROVE  Touches(b, Hold(b, u, amount, ref), u, amount)
  <1> DEFINE c == Move(b, u, TRUE, "withdraw", -amount, ref)
  <1>1. "withdraw" \in Kinds /\ -amount \in Int /\ TRUE \in BOOLEAN
    BY DEF Kinds
  <1>2. MoveDone(b, c, u, TRUE, -amount)
    BY <1>1, RealMoveIsSound, Zenon
  <1>3. Touches(b, c, u, 0)
    BY <1>1, <1>2, MoveTouches, Zenon
  <1>4. b.wallets[u].held \in Nat
    BY DEF Sound, Books
  <1>5. Hold(b, u, amount, ref) = MoveHeld(c, u, amount)
    BY DEF Hold
  <1> HIDE DEF c
  <1>6. Sound(c) /\ c.wallets[u].held = b.wallets[u].held
    BY <1>3, <1>4 DEF Touches
  <1>7. Touches(c, MoveHeld(c, u, amount), u, amount)
    BY <1>4, <1>6, HeldMoveIsSound DEF Touches
  <1>8. QED
    BY <1>3, <1>5, <1>6, <1>7 DEF Touches

(* ReleaseHold drops a hold that is there; the money has left.             *)
LEMMA ReleaseIsSound ==
    ASSUME NEW b, Sound(b), NEW u \in Users, NEW amount \in Nat,
           b.wallets[u].held >= amount
    PROVE  Touches(b, ReleaseHold(b, u, amount), u, -amount)
  <1>1. b.wallets[u].held \in Nat
    BY DEF Sound, Books
  <1>2. -amount \in Int /\ b.wallets[u].held + (-amount) >= 0
    BY <1>1
  <1>3. QED
    BY <1>2, HeldMoveIsSound DEF Touches, ReleaseHold

(* ReverseHold drops the hold and gives the amount back.                   *)
LEMMA ReverseIsSound ==
    ASSUME NEW b, Sound(b), NEW u \in Users, NEW amount \in Nat, NEW ref \in RowRefs,
           b.wallets[u].held >= amount
    PROVE  Touches(b, ReverseHold(b, u, amount, ref), u, -amount)
  <1> DEFINE c == ReleaseHold(b, u, amount)
             d == Move(c, u, TRUE, "withdraw_reversed", amount, ref)
  <1>1. Touches(b, c, u, -amount)
    BY ReleaseIsSound
  <1>2. ReverseHold(b, u, amount, ref) = d
    BY DEF ReverseHold
  <1> HIDE DEF c
  <1>3. Sound(c) /\ c.wallets \in [Users -> [real : Nat, demo : Nat, held : Nat]]
    BY <1>1 DEF Touches, Sound, Books
  <1>4. /\ "withdraw_reversed" \in Kinds /\ amount \in Int /\ TRUE \in BOOLEAN
        /\ MoveFits(c, u, TRUE, amount)
    BY <1>3 DEF Kinds, MoveFits, Spendable
  <1>5. MoveDone(c, d, u, TRUE, amount)
    BY <1>3, <1>4, RealMoveIsSound, Zenon
  <1>6. Touches(c, d, u, 0)
    BY <1>3, <1>4, <1>5, MoveTouches, Zenon
  <1>7. c.wallets[u].held \in Nat
    BY <1>3
  <1> HIDE DEF d
  <1>8. QED
    BY <1>1, <1>2, <1>6, <1>7 DEF Touches

(* The opening books are sound: every balance has the one row it came from. *)
LEMMA OpenedIsSound ==
    ASSUME NEW real \in [Users -> Nat], NEW demo \in [Users -> Nat], NEW bankroll \in Nat
    PROVE  Sound(Opened(real, demo, bankroll))
  <1> DEFINE b == Opened(real, demo, bankroll)
             cents(k) == IF k[2] THEN real[k[1]] ELSE demo[k[1]]
             kind(k) == IF k[2] THEN "deposit" ELSE "demo_grant"
             rows(k) == IF cents(k) > 0 THEN <<Row(kind(k), cents(k), cents(k), NoRef)>>
                                        ELSE <<>>
  <1>1. ASSUME NEW k \in Users \X BOOLEAN
        PROVE  rows(k) \in Seq(Rows) /\ AddsUpTo(rows(k), cents(k))
    <2>1. cents(k) \in Nat /\ kind(k) \in Kinds
      BY DEF Kinds
    <2> HIDE DEF cents, kind
    <2> DEFINE row == Row(kind(k), cents(k), cents(k), NoRef)
    <2>2. row \in Rows /\ row.amount = cents(k) /\ row.after = cents(k)
      BY <2>1 DEF Row, Rows, RowRefs
    <2> HIDE DEF row
    <2>3. CASE cents(k) > 0
      <3>1. rows(k) = <<row>> /\ <<row>> \in Seq(Rows)
        BY <2>2, <2>3 DEF row
      <3>2. AddsUpTo(<<row>>, cents(k))
        BY <2>1, <2>2 DEF AddsUpTo
      <3>3. QED
        BY <3>1, <3>2, Zenon
    <2>4. CASE cents(k) = 0
      <3>1. rows(k) = <<>> /\ <<>> \in Seq(Rows)
        BY <2>4
      <3>2. AddsUpTo(<<>>, cents(k))
        BY <2>4 DEF AddsUpTo
      <3>3. QED
        BY <3>1, <3>2, Zenon
    <2>5. QED
      BY <2>1, <2>3, <2>4
  <1>2. /\ b.wallets = [u \in Users |-> [real |-> real[u], demo |-> demo[u], held |-> 0]]
        /\ b.ledger = [k \in Users \X BOOLEAN |-> rows(k)]
        /\ b.house = [bankroll |-> bankroll, rake |-> 0]
        /\ b = [wallets |-> b.wallets, ledger |-> b.ledger, house |-> b.house]
    BY DEF Opened
  <1> HIDE DEF b, rows
  <1>3. b \in Books
    BY <1>1, <1>2 DEF Books
  <1>4. ASSUME NEW u \in Users, NEW isReal \in BOOLEAN
        PROVE  AddsUpTo(b.ledger[<<u, isReal>>], Spendable(b.wallets[u], isReal))
    <2>1. b.ledger[<<u, isReal>>] = rows(<<u, isReal>>)
      BY <1>2
    <2>2. Spendable(b.wallets[u], isReal) = cents(<<u, isReal>>)
      BY <1>2 DEF Spendable
    <2>3. QED
      BY <1>1, <2>1, <2>2
  <1>5. QED
    BY <1>3, <1>4 DEF Sound, b

-----------------------------------------------------------------------------
(***************************************************************************)
(* Real money: what a transaction does to the wealth of the house and the  *)
(* players together.                                                       *)
(***************************************************************************)

(* Where one wallet changes, wealth changes by what it and the house do.   *)
LEMMA WealthChangesBy ==
    ASSUME NEW b, Sound(b), NEW c, Sound(c), NEW u \in Users,
           \A v \in Users \ {u} : c.wallets[v] = b.wallets[v]
    PROVE  /\ Wealth(b) \in Int
           /\ Wealth(c) = Wealth(b)
                 + (c.wallets[u].real + c.wallets[u].held)
                 - (b.wallets[u].real + b.wallets[u].held)
                 + (c.house.bankroll + c.house.rake)
                 - (b.house.bankroll + b.house.rake)
  <1> DEFINE f == [v \in Users |-> b.wallets[v].real + b.wallets[v].held]
             g == [v \in Users |-> c.wallets[v].real + c.wallets[v].held]
  <1>1. /\ b.wallets \in [Users -> [real : Nat, demo : Nat, held : Nat]]
        /\ c.wallets \in [Users -> [real : Nat, demo : Nat, held : Nat]]
        /\ b.house \in [bankroll : Nat, rake : Nat] /\ c.house \in [bankroll : Nat, rake : Nat]
    BY DEF Sound, Books
  <1>2. f \in [Users -> Int] /\ g \in [Users -> Int]
    BY <1>1
  <1>3. \A v \in Users \ {u} : f[v] = g[v]
    OBVIOUS
  <1>4. /\ f[u] = b.wallets[u].real + b.wallets[u].held
        /\ g[u] = c.wallets[u].real + c.wallets[u].held
    OBVIOUS
  <1>5. /\ Wealth(b) = Total(f) + b.house.bankroll + b.house.rake
        /\ Wealth(c) = Total(g) + c.house.bankroll + c.house.rake
    BY DEF Wealth
  <1> HIDE DEF f, g
  <1>6. Total(f) \in Int /\ Total(g) = Total(f) + g[u] - f[u]
    <2>1. IsFiniteSet(Users)
      BY UsersAreIds
    <2>2. Total(f) \in Int
      BY <1>2, <2>1, TotalInInt, Zenon
    <2>3. Total(g) = Total(f) + g[u] - f[u]
      BY <1>2, <1>3, <2>1, TotalChangesBy, Zenon
    <2> QED BY <2>2, <2>3
  <1>7. f[u] \in Int /\ g[u] \in Int
    BY <1>2
  <1> QED BY <1>1, <1>4, <1>5, <1>6, <1>7

(* A movement in real cents adds its delta to what is owned, one in demo   *)
(* cents nothing.                                                          *)
LEMMA MoveAddsWealth ==
    ASSUME NEW b, Sound(b), NEW c, NEW u \in Users, NEW isReal \in BOOLEAN,
           NEW delta \in Int, MoveDone(b, c, u, isReal, delta)
    PROVE  Wealth(c) = Wealth(b) + (IF isReal THEN delta ELSE 0)
  <1>1. b.wallets \in [Users -> [real : Nat, demo : Nat, held : Nat]]
        /\ b.house \in [bankroll : Nat, rake : Nat]
    BY DEF Sound, Books
  <1>2. /\ Sound(c) /\ c.house = b.house
        /\ c.wallets[u] = Adjusted(b.wallets[u], isReal, delta)
        /\ \A v \in Users \ {u} : c.wallets[v] = b.wallets[v]
    BY <1>1 DEF MoveDone
  <1>3. /\ c.wallets[u].held = b.wallets[u].held
        /\ c.wallets[u].real = b.wallets[u].real + IF isReal THEN delta ELSE 0
    BY <1>1, <1>2 DEF Adjusted
  <1>4. /\ Wealth(b) \in Int
        /\ Wealth(c) = Wealth(b)
                 + (c.wallets[u].real + c.wallets[u].held)
                 - (b.wallets[u].real + b.wallets[u].held)
                 + (c.house.bankroll + c.house.rake)
                 - (b.house.bankroll + b.house.rake)
    BY <1>2, WealthChangesBy
  <1>5. b.wallets[u].real \in Nat /\ b.wallets[u].held \in Nat
    BY <1>1
  <1> QED BY <1>1, <1>2, <1>3, <1>4, <1>5

\* Wealth is a number of cents.
LEMMA WealthInInt ==
    ASSUME NEW b, Sound(b)
    PROVE  Wealth(b) \in Int
  <1> DEFINE f == [v \in Users |-> b.wallets[v].real + b.wallets[v].held]
  <1>1. f \in [Users -> Int] /\ b.house \in [bankroll : Nat, rake : Nat]
    BY DEF Sound, Books
  <1>2. Wealth(b) = Total(f) + b.house.bankroll + b.house.rake
    BY DEF Wealth
  <1> HIDE DEF f
  <1>3. IsFiniteSet(Users)
    BY UsersAreIds
  <1>4. Total(f) \in Int
    BY <1>1, <1>3, TotalInInt, Zenon
  <1> QED BY <1>1, <1>2, <1>4

(* What the house takes is part of what is owned.                          *)
LEMMA HouseAddsWealth ==
    ASSUME NEW b, Sound(b), NEW c, Sound(c), c.wallets = b.wallets
    PROVE  Wealth(c) = Wealth(b) + (c.house.bankroll + c.house.rake)
                                 - (b.house.bankroll + b.house.rake)
  <1> DEFINE f == [v \in Users |-> b.wallets[v].real + b.wallets[v].held]
  <1>1. f \in [Users -> Int]
    BY DEF Sound, Books
  <1>2. /\ Wealth(b) = Total(f) + b.house.bankroll + b.house.rake
        /\ Wealth(c) = Total(f) + c.house.bankroll + c.house.rake
    BY DEF Wealth
  <1> HIDE DEF f
  <1>3. IsFiniteSet(Users)
    BY UsersAreIds
  <1>4. Total(f) \in Int
    BY <1>1, <1>3, TotalInInt, Zenon
  <1>5. b.house \in [bankroll : Nat, rake : Nat] /\ c.house \in [bankroll : Nat, rake : Nat]
    BY DEF Sound, Books
  <1> QED BY <1>2, <1>4, <1>5

(* A spin, of either realm, hands the stake round and keeps none of it:    *)
(* player, referrer, bankroll and rake own together what they did before.  *)
LEMMA SpinKeepsWealth ==
    ASSUME NEW b, Sound(b), NEW s \in SpinRows, SpinFits(b, s)
    PROVE  Wealth(SpinPosted(b, s)) = Wealth(b)
  <1> DEFINE payout == Payout(s.stake, s.mult)
             commission == Commission(s.user, s.isReal, s.stake)
             payee == Payee(s.user, s.isReal)
             b1 == BetPlaced(b, s)
             b2 == WinPaid(b1, s)
             b3 == HouseSettled(b2, s)
             b4 == CommissionPaid(b3, s)
  <1>1. s.user \in Users /\ s.isReal \in BOOLEAN /\ s.mult \in Mults /\ s.stake \in Nat
    BY StakesArePositive DEF SpinRows
  <1>2. payout \in Nat
    <2>1. s.mult \in Nat
      BY <1>1, WheelIsSane
    <2> QED BY <1>1, <2>1, PayoutInNat
  <1>3. SpinPosted(b, s) = b4
    BY DEF SpinPosted
  <1>4. HouseDelta(s) = s.stake - payout - Rake(s.stake) - commission
        /\ Rake(s.stake) \in Nat
    BY <1>1, SplitFitsTheStake DEF HouseDelta
  <1> HIDE DEF payout
  <1>5. MoveDone(b, b1, s.user, s.isReal, -s.stake)
    BY BetIsMove
  <1> HIDE DEF b1
  <1>6. Sound(b1)
    BY <1>5 DEF MoveDone
  <1>7. MoveDone(b1, b2, s.user, s.isReal, payout)
    BY <1>6, WinIsMove DEF payout
  <1> HIDE DEF b2
  <1>8. Sound(b2) /\ b2.house = b.house
    BY <1>5, <1>7 DEF MoveDone
  <1>9. /\ Sound(b3) /\ b3.wallets = b2.wallets
        /\ ~s.isReal => b3.house = b2.house
        /\ s.isReal => /\ b3.house.bankroll = b2.house.bankroll + HouseDelta(s)
                       /\ b3.house.rake = b2.house.rake + Rake(s.stake)
    BY <1>8, HouseIsMove DEF SpinFits
  <1> HIDE DEF b3
  <1>10. /\ commission \in Nat
         /\ commission = 0 => b4 = b3
         /\ commission > 0 => s.isReal
    BY <1>9, CommissionIsMove
  <1>11. commission > 0 => payee \in Users /\ MoveDone(b3, b4, payee, TRUE, commission)
    BY <1>9, CommissionIsMove
  <1> HIDE DEF b4, commission, payee
  <1>12. Wealth(b1) = Wealth(b) + (IF s.isReal THEN -s.stake ELSE 0)
    <2>1. -s.stake \in Int
      BY <1>1
    <2> QED BY <1>1, <1>5, <2>1, MoveAddsWealth
  <1>13. Wealth(b2) = Wealth(b1) + (IF s.isReal THEN payout ELSE 0)
    <2>1. payout \in Int
      BY <1>2
    <2> QED BY <1>1, <1>6, <1>7, <2>1, MoveAddsWealth
  <1>14. Wealth(b3) = Wealth(b2)
             + (IF s.isReal THEN s.stake - payout - commission ELSE 0)
    <2>1. Wealth(b3) = Wealth(b2) + (b3.house.bankroll + b3.house.rake)
                                 - (b2.house.bankroll + b2.house.rake)
      BY <1>8, <1>9, HouseAddsWealth
    <2>2. b2.house \in [bankroll : Nat, rake : Nat] /\ Wealth(b2) \in Int
      BY <1>8, WealthInInt DEF Sound, Books
    <2> QED BY <1>1, <1>2, <1>4, <1>9, <1>10, <2>1, <2>2
  <1>15. Wealth(b4) = Wealth(b3) + commission
    <2>1. CASE commission = 0
      BY <1>9, <1>10, <2>1, WealthInInt
    <2>2. CASE commission > 0
      <3>1. payee \in Users /\ MoveDone(b3, b4, payee, TRUE, commission)
        BY <1>11, <2>2, Zenon
      <3>2. commission \in Int /\ TRUE \in BOOLEAN /\ Sound(b3)
        BY <1>9, <1>10
      <3>3. Wealth(b4) = Wealth(b3) + (IF TRUE THEN commission ELSE 0)
        BY <3>1, <3>2, MoveAddsWealth, Zenon
      <3> QED BY <3>3
    <2> QED BY <1>10, <2>1, <2>2
  <1>16. Wealth(b) \in Int /\ Wealth(b1) \in Int /\ Wealth(b2) \in Int
    BY <1>6, <1>8, WealthInInt
  <1> QED BY <1>1, <1>2, <1>3, <1>10, <1>12, <1>13, <1>14, <1>15, <1>16

\* A change of held_cents alone.
LEMMA HeldAddsWealth ==
    ASSUME NEW b, Sound(b), NEW u \in Users, NEW d \in Int, b.wallets[u].held + d >= 0
    PROVE  /\ Sound(MoveHeld(b, u, d))
           /\ Wealth(MoveHeld(b, u, d)) = Wealth(b) + d
  <1> DEFINE c == MoveHeld(b, u, d)
  <1>1. /\ Sound(c) /\ c.house = b.house
        /\ \A v \in Users \ {u} : c.wallets[v] = b.wallets[v]
        /\ Spendable(c.wallets[u], TRUE) = Spendable(b.wallets[u], TRUE)
        /\ c.wallets[u].held = b.wallets[u].held + d
    BY HeldMoveIsSound
  <1> HIDE DEF c
  <1>2. c.wallets[u].real = b.wallets[u].real
    BY <1>1 DEF Spendable
  <1>3. /\ Wealth(b) \in Int
        /\ Wealth(c) = Wealth(b)
                 + (c.wallets[u].real + c.wallets[u].held)
                 - (b.wallets[u].real + b.wallets[u].held)
                 + (c.house.bankroll + c.house.rake)
                 - (b.house.bankroll + b.house.rake)
    BY <1>1, WealthChangesBy
  <1>4. /\ b.wallets[u].real \in Nat /\ b.wallets[u].held \in Nat
        /\ b.house \in [bankroll : Nat, rake : Nat]
    BY DEF Sound, Books
  <1>5. Wealth(c) = Wealth(b) + d
    BY <1>1, <1>2, <1>3, <1>4
  <1> QED BY <1>1, <1>5 DEF c

\* A movement of real cents, in a form without a condition.
LEMMA RealMoveAddsWealth ==
    ASSUME NEW b, Sound(b), NEW u \in Users, NEW kind \in Kinds, NEW delta \in Int,
           NEW ref \in RowRefs, MoveFits(b, u, TRUE, delta)
    PROVE  /\ MoveDone(b, Move(b, u, TRUE, kind, delta, ref), u, TRUE, delta)
           /\ Wealth(Move(b, u, TRUE, kind, delta, ref)) = Wealth(b) + delta
  <1> DEFINE c == Move(b, u, TRUE, kind, delta, ref)
  <1>1. MoveDone(b, c, u, TRUE, delta)
    BY RealMoveIsSound, Zenon
  <1> HIDE DEF c
  <1>2. Wealth(c) = Wealth(b) + (IF TRUE THEN delta ELSE 0)
    <2>1. TRUE \in BOOLEAN
      OBVIOUS
    <2> QED BY <1>1, <2>1, MoveAddsWealth, Zenon
  <1>3. Wealth(c) = Wealth(b) + delta
    BY <1>2
  <1> QED BY <1>1, <1>3, Zenon DEF c

(* Hold moves real cents of the player out of his cash, not away from him. *)
LEMMA HoldKeepsWealth ==
    ASSUME NEW b, Sound(b), NEW u \in Users, NEW amount \in Nat, NEW ref \in RowRefs,
           MoveFits(b, u, TRUE, -amount)
    PROVE  Wealth(Hold(b, u, amount, ref)) = Wealth(b)
  <1> DEFINE c == Move(b, u, TRUE, "withdraw", -amount, ref)
  <1>1. "withdraw" \in Kinds /\ -amount \in Int
    BY DEF Kinds
  <1>2. MoveDone(b, c, u, TRUE, -amount) /\ Wealth(c) = Wealth(b) + (-amount)
    BY <1>1, RealMoveAddsWealth, Zenon
  <1>3. Hold(b, u, amount, ref) = MoveHeld(c, u, amount)
    BY DEF Hold
  <1> HIDE DEF c
  <1>4. Touches(b, c, u, 0)
    <2>1. TRUE \in BOOLEAN
      OBVIOUS
    <2> QED BY <1>1, <1>2, <2>1, MoveTouches, Zenon
  <1>5. Sound(c) /\ c.wallets[u].held \in Nat
    BY <1>4 DEF Touches, Sound, Books
  <1>6. Wealth(MoveHeld(c, u, amount)) = Wealth(c) + amount
    BY <1>5, HeldAddsWealth
  <1>7. Wealth(b) \in Int
    BY WealthInInt
  <1> QED BY <1>2, <1>3, <1>6, <1>7

(* ReleaseHold lets the amount go.                                         *)
LEMMA ReleasePaysOut ==
    ASSUME NEW b, Sound(b), NEW u \in Users, NEW amount \in Nat,
           b.wallets[u].held >= amount
    PROVE  /\ Sound(ReleaseHold(b, u, amount))
           /\ Wealth(ReleaseHold(b, u, amount)) = Wealth(b) - amount
  <1>1. b.wallets[u].held \in Nat
    BY DEF Sound, Books
  <1>2. -amount \in Int /\ b.wallets[u].held + (-amount) >= 0 /\ Wealth(b) \in Int
    BY <1>1, WealthInInt
  <1>3. /\ Sound(ReleaseHold(b, u, amount))
        /\ Wealth(ReleaseHold(b, u, amount)) = Wealth(b) + (-amount)
    BY <1>2, HeldAddsWealth DEF ReleaseHold
  <1> QED BY <1>2, <1>3

(* ReverseHold gives it back.                                              *)
LEMMA ReverseKeepsWealth ==
    ASSUME NEW b, Sound(b), NEW u \in Users, NEW amount \in Nat, NEW ref \in RowRefs,
           b.wallets[u].held >= amount
    PROVE  Wealth(ReverseHold(b, u, amount, ref)) = Wealth(b)
  <1> DEFINE c == ReleaseHold(b, u, amount)
  <1>1. Sound(c) /\ Wealth(c) = Wealth(b) - amount
    BY ReleasePaysOut
  <1>2. ReverseHold(b, u, amount, ref) =
           Move(c, u, TRUE, "withdraw_reversed", amount, ref)
    BY DEF ReverseHold
  <1> HIDE DEF c
  <1>3. "withdraw_reversed" \in Kinds /\ amount \in Int /\ MoveFits(c, u, TRUE, amount)
    BY <1>1 DEF Sound, Books, Kinds, MoveFits, Spendable
  <1>4. Wealth(Move(c, u, TRUE, "withdraw_reversed", amount, ref)) = Wealth(c) + amount
    BY <1>1, <1>3, RealMoveAddsWealth, Zenon
  <1>5. Wealth(ReverseHold(b, u, amount, ref)) = Wealth(c) + amount
    BY <1>2, <1>4, Zenon
  <1>6. Wealth(b) \in Int
    BY WealthInInt
  <1> QED BY <1>1, <1>5, <1>6

(* Demo cents are nobody's wealth.                                         *)
LEMMA TopUpKeepsWealth ==
    ASSUME NEW b, Sound(b), NEW u \in Users, NEW target \in Nat
    PROVE  Wealth(ToppedUp(b, u, target)) = Wealth(b)
  <1> DEFINE c == ToppedUp(b, u, target)
  <1>1. Touches(b, c, u, 0)
    BY TopUpIsSound
  <1>2. b.wallets \in [Users -> [real : Nat, demo : Nat, held : Nat]]
        /\ b.house \in [bankroll : Nat, rake : Nat]
    BY DEF Sound, Books
  <1>3. c.wallets[u].real = b.wallets[u].real
    BY <1>2 DEF ToppedUp, Move, Adjusted
  <1> HIDE DEF c
  <1>4. /\ Sound(c) /\ c.house = b.house /\ c.wallets[u].held = b.wallets[u].held
        /\ \A v \in Users \ {u} : c.wallets[v] = b.wallets[v]
    BY <1>1, <1>2 DEF Touches
  <1>5. /\ Wealth(b) \in Int
        /\ Wealth(c) = Wealth(b)
                 + (c.wallets[u].real + c.wallets[u].held)
                 - (b.wallets[u].real + b.wallets[u].held)
                 + (c.house.bankroll + c.house.rake)
                 - (b.house.bankroll + b.house.rake)
    BY <1>4, WealthChangesBy
  <1>6. b.wallets[u].real \in Nat /\ b.wallets[u].held \in Nat
    BY <1>2
  <1>7. Wealth(c) = Wealth(b)
    BY <1>2, <1>3, <1>4, <1>5, <1>6
  <1> QED BY <1>7 DEF c

(* The opening books hold what the opening balances say.                   *)
LEMMA OpeningWealth ==
    ASSUME NEW real \in [Users -> Nat], NEW demo \in [Users -> Nat], NEW bankroll \in Nat
    PROVE  Wealth(Opened(real, demo, bankroll)) = Total(real) + bankroll
  <1> DEFINE b == Opened(real, demo, bankroll)
  <1>1. \A v \in Users : b.wallets[v].real = real[v] /\ b.wallets[v].held = 0
    BY DEF Opened
  <1>2. b.house.bankroll = bankroll /\ b.house.rake = 0
    BY DEF Opened
  <1>3. real \in [Users -> Int]
    OBVIOUS
  <1> HIDE DEF b
  <1>4. [v \in Users |-> b.wallets[v].real + b.wallets[v].held] = real
    BY <1>1
  <1>5. Wealth(b) = Total(real) + b.house.bankroll + b.house.rake
    BY <1>4 DEF Wealth
  <1>6. Total(real) \in Int
    BY <1>3, UsersAreIds, TotalInInt, Zenon
  <1> QED BY <1>2, <1>5, <1>6 DEF b
-----------------------------------------------------------------------------
(* What the transactions of Bank rely on, and keep.                        *)
InOrder ==
    /\ BankTypeOK
    /\ Sound(books)
    /\ RefPlayedOnce
    /\ HeldMatches

(* A spin that Bank admits meets none of the CHECKs.                       *)
LEMMA AdmittedByBank ==
    ASSUME InOrder, NEW r \in Requests, NEW m \in Mults, Spin(r, m)
    PROVE  /\ SpinRow(r, m) \in SpinRows
           /\ SpinFits(books, SpinRow(r, m))
  <1> DEFINE s == SpinRow(r, m)
  <1>1. r.user \in Users /\ r.isReal \in BOOLEAN /\ r.ref \in Refs /\ r.amount \in Nat
    BY RequestsAreTyped
  <1>2. /\ r.amount \in MinStake..MaxStake
        /\ Spendable(books.wallets[r.user], r.isReal) >= r.amount
        /\ r.isReal => books.house.bankroll >= MaxExposure(r.amount)
    BY DEF Spin
  <1>3. /\ s \in SpinRows /\ s.user = r.user /\ s.isReal = r.isReal
        /\ s.stake = r.amount
    BY <1>1, <1>2 DEF SpinRow, SpinRows
  <1> HIDE DEF s
  <1>4. /\ books.house.bankroll \in Nat /\ books.house.rake \in Nat
        /\ Spendable(books.wallets[r.user], r.isReal) \in Nat
    BY <1>1 DEF InOrder, Sound, Books, Spendable
  <1>5. MoveFits(books, s.user, s.isReal, -s.stake)
    BY <1>1, <1>2, <1>3, <1>4 DEF MoveFits
  <1>6. Rake(s.stake) \in Nat
    BY <1>1, <1>3, SplitFitsTheStake
  <1>7. ASSUME s.isReal
        PROVE  books.house.bankroll + HouseDelta(s) >= 0
    BY <1>2, <1>3, <1>4, <1>7, AdmittedSpinSettles
  <1> QED BY <1>3, <1>4, <1>5, <1>6, <1>7 DEF SpinFits, s

(* The table of withdrawals is finite, and a key of it is used once.       *)
WithdrawalsKeyed ==
    /\ IsFiniteSet(withdrawals)
    /\ \A v, w \in withdrawals : v.user = w.user /\ v.ref = w.ref => v = w

\* What was paid out is a number of cents.
LEMMA PaidOutInInt ==
    ASSUME BankTypeOK, WithdrawalsKeyed
    PROVE  /\ IsFiniteSet(PaidWithdrawals)
           /\ [w \in PaidWithdrawals |-> w.amount] \in [PaidWithdrawals -> Int]
           /\ PaidOut \in Int
  <1>1. PaidWithdrawals \subseteq withdrawals
    BY DEF PaidWithdrawals
  <1>2. IsFiniteSet(PaidWithdrawals)
    BY <1>1, FS_Subset DEF WithdrawalsKeyed
  <1>3. [w \in PaidWithdrawals |-> w.amount] \in [PaidWithdrawals -> Int]
    BY <1>1 DEF BankTypeOK, WithdrawalRows
  <1>4. PaidOut \in Int
    BY <1>2, <1>3, TotalInInt, Zenon DEF PaidOut
  <1> QED BY <1>2, <1>3, <1>4

(* Money is conserved by every transaction: a payout leaves the books for  *)
(* the withdrawal that records it.                                         *)
LEMMA BankConserves ==
    ASSUME InOrder, WithdrawalsKeyed, RealMoneyConserved, [BankNext]_bankVars
    PROVE  WithdrawalsKeyed' /\ RealMoneyConserved'
  <1>1. /\ Sound(books) /\ BankTypeOK /\ withdrawals \subseteq WithdrawalRows
        /\ HeldMatches
    BY DEF InOrder, BankTypeOK
  <1>2. ASSUME NEW r \in Requests, RequestWithdrawal(r)
        PROVE  WithdrawalsKeyed' /\ RealMoneyConserved'
    <2>1. r.user \in Users /\ r.amount \in Nat /\ r.ref \in Refs
      BY RequestsAreTyped
    <2>2. <<r.user, r.ref>> \in RowRefs
      BY <2>1 DEF RowRefs
    <2>3. /\ ~Requested(r.user, r.ref) /\ MoveFits(books, r.user, TRUE, -r.amount)
          /\ withdrawals' = withdrawals \cup {WithdrawalRow(r)}
          /\ books' = Hold(books, r.user, r.amount, <<r.user, r.ref>>)
      BY <1>2 DEF RequestWithdrawal
    <2>4. WithdrawalsKeyed'
      <3>1. IsFiniteSet(withdrawals')
        BY <2>3, FS_AddElement DEF WithdrawalsKeyed
      <3>2. WithdrawalRow(r).user = r.user /\ WithdrawalRow(r).ref = r.ref
        BY DEF WithdrawalRow
      <3> QED BY <2>3, <3>1, <3>2 DEF WithdrawalsKeyed, Requested
    <2>5. PaidWithdrawals' = PaidWithdrawals
      BY <2>3 DEF PaidWithdrawals, WithdrawalRow
    <2>6. PaidOut' = PaidOut
      BY <2>5 DEF PaidOut
    <2>7. Wealth(books') = Wealth(books)
      BY <1>1, <2>1, <2>2, <2>3, HoldKeepsWealth
    <2> QED BY <2>4, <2>6, <2>7 DEF RealMoneyConserved
  <1>3. ASSUME NEW r \in Requests, NEW m \in Mults, Spin(r, m)
        PROVE  WithdrawalsKeyed' /\ RealMoneyConserved'
    <2>1. books' = SpinPosted(books, SpinRow(r, m)) /\ withdrawals' = withdrawals
      BY <1>3 DEF Spin
    <2>2. SpinRow(r, m) \in SpinRows /\ SpinFits(books, SpinRow(r, m))
      BY <1>3, AdmittedByBank
    <2>3. Wealth(books') = Wealth(books)
      BY <1>1, <2>1, <2>2, SpinKeepsWealth
    <2> QED BY <2>1, <2>3 DEF WithdrawalsKeyed, RealMoneyConserved, PaidOut, PaidWithdrawals
  <1>4. ASSUME NEW u \in Users, TopUpDemo(u) \/ CooldownElapses(u)
        PROVE  WithdrawalsKeyed' /\ RealMoneyConserved'
    <2>1. DemoTarget \in Nat
      BY OpeningIsSane
    <2>2. Wealth(books') = Wealth(books) /\ withdrawals' = withdrawals
      BY <1>1, <1>4, <2>1, TopUpKeepsWealth DEF TopUpDemo, CooldownElapses
    <2> QED BY <2>2 DEF WithdrawalsKeyed, RealMoneyConserved, PaidOut, PaidWithdrawals
  <1>5. ASSUME NEW w \in withdrawals, SettleWithdrawal(w) \/ FailWithdrawal(w)
        PROVE  WithdrawalsKeyed' /\ RealMoneyConserved'
    <2>1. PICK status \in {"paid", "failed"} :
             /\ withdrawals' = Closed(w, status)
             /\ status = "paid" => books' = ReleaseHold(books, w.user, w.amount)
             /\ status = "failed" =>
                   books' = ReverseHold(books, w.user, w.amount, <<w.user, w.ref>>)
      BY <1>5 DEF SettleWithdrawal, FailWithdrawal
    <2> DEFINE new == [w EXCEPT !.status = status]
    <2>2. /\ w \in WithdrawalRows /\ new \in WithdrawalRows
          /\ w.status \in OpenStatus /\ new.status = status
          /\ new.user = w.user /\ new.ref = w.ref /\ new.amount = w.amount
      BY <1>1, <1>5 DEF WithdrawalRows, SettleWithdrawal, FailWithdrawal
    <2>3. w.user \in Users /\ w.amount \in Nat /\ <<w.user, w.ref>> \in RowRefs
      BY <2>2 DEF WithdrawalRows, RowRefs
    <2>4. withdrawals' = (withdrawals \ {w}) \cup {new}
      BY <2>1 DEF Closed
    <2> HIDE DEF new
    <2>5. books.wallets[w.user].held >= w.amount
      BY <1>1, <2>2, <2>3 DEF HeldMatches
    <2>6. WithdrawalsKeyed'
      <3>1. IsFiniteSet(withdrawals')
        BY <2>4, FS_AddElement, FS_RemoveElement DEF WithdrawalsKeyed
      <3> QED BY <2>2, <2>4, <3>1 DEF WithdrawalsKeyed
    <2>7. Wealth(books) \in Int /\ PaidOut \in Int
      BY <1>1, WealthInInt, PaidOutInInt
    <2>8. CASE status = "paid"
      <3>1. Wealth(books') = Wealth(books) - w.amount
        BY <1>1, <2>1, <2>3, <2>5, <2>8, ReleasePaysOut
      <3>2. new \notin PaidWithdrawals
        BY <2>2, <2>8 DEF PaidWithdrawals, WithdrawalsKeyed, OpenStatus
      <3>3. PaidWithdrawals' = PaidWithdrawals \cup {new}
        BY <2>2, <2>4, <2>8 DEF PaidWithdrawals, OpenStatus
      <3>4. PaidOut' = PaidOut + w.amount
        <4> DEFINE f == [v \in PaidWithdrawals |-> v.amount]
                   g == [v \in PaidWithdrawals \cup {new} |-> v.amount]
        <4>1. IsFiniteSet(PaidWithdrawals) /\ f \in [PaidWithdrawals -> Int]
          BY <1>1, PaidOutInInt
        <4>2. /\ g \in [PaidWithdrawals \cup {new} -> Int]
              /\ \A v \in PaidWithdrawals : f[v] = g[v]
              /\ g[new] = w.amount
          BY <2>2, <2>3, <4>1
        <4>3. PaidOut = Total(f) /\ PaidOut' = Total(g)
          BY <3>3 DEF PaidOut
        <4> HIDE DEF f, g
        <4>4. Total(g) = Total(f) + g[new]
          BY <3>2, <4>1, <4>2, TotalGrowsBy, SMT
        <4> QED BY <4>2, <4>3, <4>4
      <3> QED BY <2>3, <2>6, <2>7, <3>1, <3>4 DEF RealMoneyConserved
    <2>9. CASE status = "failed"
      <3>1. Wealth(books') = Wealth(books)
        BY <1>1, <2>1, <2>3, <2>5, <2>9, ReverseKeepsWealth
      <3>2. PaidWithdrawals' = PaidWithdrawals
        BY <2>2, <2>4, <2>9 DEF PaidWithdrawals, OpenStatus
      <3> QED BY <2>6, <3>1, <3>2 DEF RealMoneyConserved, PaidOut
    <2> QED BY <2>8, <2>9
  <1>6. CASE UNCHANGED bankVars
    BY <1>6 DEF bankVars, WithdrawalsKeyed, RealMoneyConserved, PaidOut, PaidWithdrawals
  <1> QED BY <1>2, <1>3, <1>4, <1>5, <1>6 DEF BankNext

-----------------------------------------------------------------------------
(***************************************************************************)
(* The rows a transaction writes, and that it leaves every other row.      *)
(***************************************************************************)

(* The kinds of row that a spin writes.                                    *)
SpinKinds == {"bet", "win", "referral"}

\* The ledger holds the same rows of this kind for this spin.
SameRows(b, c, u, isReal, kind, id) ==
    /\ RowsOf(c, u, isReal, kind, id) = RowsOf(b, u, isReal, kind, id)
    /\ \A i \in RowsOf(b, u, isReal, kind, id) :
          c.ledger[<<u, isReal>>][i] = b.ledger[<<u, isReal>>][i]

(* A movement writes one row, of its own user, realm, kind and reference;  *)
(* every other row the ledger holds is where it was.                       *)
LEMMA MoveRecords ==
    ASSUME NEW b, Sound(b), NEW u \in Users, NEW isReal \in BOOLEAN,
           NEW kind \in Kinds, NEW delta \in Int, NEW ref \in RowRefs,
           NEW c, c = Move(b, u, isReal, kind, delta, ref)
    PROVE  /\ \A v \in Users, real \in BOOLEAN, k \in Kinds, id \in RowRefs :
                 <<v, real, k, id>> # <<u, isReal, kind, ref>> =>
                     SameRows(b, c, v, real, k, id)
           /\ RowsOf(b, u, isReal, kind, ref) = {} /\ delta # 0 =>
                 RecordedOnce(c, u, isReal, kind, ref, delta)
           /\ RowsOf(c, u, isReal, kind, ref) # {}
  <1> DEFINE key == <<u, isReal>>
             rows == b.ledger[key]
             row == Row(kind, delta, Spendable(Adjusted(b.wallets[u], isReal, delta), isReal),
                        ref)
             more == Append(rows, row)
  <1>1. /\ b.ledger \in [Users \X BOOLEAN -> Seq(Rows)]
        /\ key \in Users \X BOOLEAN
        /\ c.ledger = [b.ledger EXCEPT ![key] = more]
    BY DEF Sound, Books, Move
  <1>2. row.kind = kind /\ row.amount = delta /\ row.ref = ref
    BY DEF Row
  <1>3. rows \in Seq(Rows)
    BY <1>1
  <1> HIDE DEF row, rows
  <1>4. /\ Len(rows) \in Nat /\ Len(more) = Len(rows) + 1
        /\ more[Len(rows) + 1] = row
        /\ \A i \in 1..Len(rows) : more[i] = rows[i]
    BY <1>3
  <1> HIDE DEF more
  <1>5. c.ledger[key] = more /\ \A k \in Users \X BOOLEAN : k # key => c.ledger[k] = b.ledger[k]
    BY <1>1
  <1>6. ASSUME NEW v \in Users, NEW real \in BOOLEAN, NEW k \in Kinds, NEW id \in RowRefs,
               <<v, real, k, id>> # <<u, isReal, kind, ref>>
        PROVE  SameRows(b, c, v, real, k, id)
    <2>1. CASE <<v, real>> = key
      <3>1. b.ledger[<<v, real>>] = rows /\ c.ledger[<<v, real>>] = more
        BY <1>5, <2>1 DEF rows
      <3>2. ~(row.kind = k /\ row.ref = id)
        BY <1>2, <1>6, <2>1
      <3>3. RowsOf(c, v, real, k, id) = RowsOf(b, v, real, k, id)
        BY <1>4, <3>1, <3>2 DEF RowsOf
      <3> QED BY <1>4, <3>1, <3>3 DEF SameRows, RowsOf
    <2>2. CASE <<v, real>> # key
      <3>1. c.ledger[<<v, real>>] = b.ledger[<<v, real>>]
        BY <1>5, <2>2
      <3> QED BY <3>1 DEF SameRows, RowsOf
    <2> QED BY <2>1, <2>2
  <1>7. Len(more) \in RowsOf(c, u, isReal, kind, ref)
    BY <1>2, <1>4, <1>5 DEF RowsOf
  <1>8. ASSUME RowsOf(b, u, isReal, kind, ref) = {}, delta # 0
        PROVE  RecordedOnce(c, u, isReal, kind, ref, delta)
    <2>1. RowsOf(c, u, isReal, kind, ref) = {Len(more)}
      <3>1. ASSUME NEW i \in RowsOf(c, u, isReal, kind, ref), i # Len(more)
            PROVE  FALSE
        <4>1. i \in 1..Len(more) /\ more[i].kind = kind /\ more[i].ref = ref
          BY <1>5 DEF RowsOf
        <4>2. i \in 1..Len(rows) /\ rows[i].kind = kind /\ rows[i].ref = ref
          BY <1>4, <3>1, <4>1
        <4> QED BY <1>8, <4>2 DEF RowsOf, rows
      <3> QED BY <1>7, <3>1
    <2>2. c.ledger[<<u, isReal>>][Len(more)].amount = delta
      BY <1>2, <1>4, <1>5
    <2> QED BY <1>7, <1>8, <2>1, <2>2 DEF RecordedOnce
  <1> QED BY <1>6, <1>7, <1>8

(* The same rows record the same.                                          *)
LEMMA SameRowsRecordTheSame ==
    ASSUME NEW b, NEW c, NEW u, NEW isReal, NEW kind, NEW id,
           SameRows(b, c, u, isReal, kind, id), NEW amount,
           RecordedOnce(b, u, isReal, kind, id, amount)
    PROVE  RecordedOnce(c, u, isReal, kind, id, amount)
  BY DEF SameRows, RecordedOnce

\* No row that a spin writes has changed.
SpinRowsKept(b, c) ==
    \A u \in Users, isReal \in BOOLEAN, kind \in SpinKinds, id \in RowRefs :
        SameRows(b, c, u, isReal, kind, id)

(* Top-ups and withdrawals write no row of a spin.                         *)
LEMMA MoveKeepsSpinRows ==
    ASSUME NEW b, Sound(b), NEW u \in Users, NEW isReal \in BOOLEAN,
           NEW kind \in Kinds \ SpinKinds, NEW delta \in Int, NEW ref \in RowRefs
    PROVE  SpinRowsKept(b, Move(b, u, isReal, kind, delta, ref))
  <1> DEFINE c == Move(b, u, isReal, kind, delta, ref)
  <1>1. \A v \in Users, real \in BOOLEAN, k \in Kinds, id \in RowRefs :
           <<v, real, k, id>> # <<u, isReal, kind, ref>> => SameRows(b, c, v, real, k, id)
    BY MoveRecords
  <1> HIDE DEF c
  <1>2. SpinKinds \subseteq Kinds
    BY DEF SpinKinds, Kinds
  <1>3. SpinRowsKept(b, c)
    BY <1>1, <1>2 DEF SpinRowsKept
  <1> QED BY <1>3 DEF c

\* Of the rows of spins, only those of this kind, for this wallet and this
\* spin, have changed: there were none and now there is one of this amount.
Recorded(b, c, u, isReal, kind, id, amount) ==
    /\ \A v \in Users, real \in BOOLEAN, k \in SpinKinds, ref \in RowRefs :
          <<v, real, k, ref>> # <<u, isReal, kind, id>> => SameRows(b, c, v, real, k, ref)
    /\ RowsOf(b, u, isReal, kind, id) = {} => RecordedOnce(c, u, isReal, kind, id, amount)

\* A movement of an amount records it.
LEMMA MoveIsRecorded ==
    ASSUME NEW b, Sound(b), NEW u \in Users, NEW isReal \in BOOLEAN,
           NEW kind \in Kinds, NEW amount \in Int \ {0}, NEW ref \in RowRefs,
           NEW c, c = Move(b, u, isReal, kind, amount, ref)
    PROVE  Recorded(b, c, u, isReal, kind, ref, amount)
  <1>1. /\ \A v \in Users, real \in BOOLEAN, k \in Kinds, id \in RowRefs :
              <<v, real, k, id>> # <<u, isReal, kind, ref>> =>
                  SameRows(b, c, v, real, k, id)
        /\ RowsOf(b, u, isReal, kind, ref) = {} /\ amount # 0 =>
              RecordedOnce(c, u, isReal, kind, ref, amount)
    BY MoveRecords
  <1>2. SpinKinds \subseteq Kinds
    BY DEF SpinKinds, Kinds
  <1> QED BY <1>1, <1>2 DEF Recorded

\* There are two realms.
LEMMA TheOtherRealm ==
    ASSUME NEW isReal \in BOOLEAN
    PROVE  (~isReal) \in BOOLEAN /\ (~isReal) # isReal
  OBVIOUS

\* A ledger left alone records nothing.
LEMMA NothingIsRecorded ==
    ASSUME NEW b, NEW c, c.ledger = b.ledger, NEW u, NEW isReal, NEW kind, NEW id
    PROVE  Recorded(b, c, u, isReal, kind, id, 0)
  BY DEF Recorded, RecordedOnce, SameRows, RowsOf

\* The records of one spin: what SpinsFullyRecorded and ReferralsEarned ask.
SpinRecorded(b, s) ==
    /\ RecordedOnce(b, s.user, s.isReal, "bet", SpinId(s), -s.stake)
    /\ RecordedOnce(b, s.user, s.isReal, "win", SpinId(s), Payout(s.stake, s.mult))
    /\ \A kind \in {"bet", "win"} : RowsOf(b, s.user, ~s.isReal, kind, SpinId(s)) = {}
    /\ \A u \in Users :
          RecordedOnce(b, u, TRUE, "referral", SpinId(s),
                       IF u = Payee(s.user, s.isReal)
                       THEN Commission(s.user, s.isReal, s.stake) ELSE 0)

(* What a spin leaves in the ledger when it is the first of its key.       *)
LEMMA SpinRecords ==
    ASSUME NEW b, Sound(b), NEW s \in SpinRows, SpinFits(b, s),
           \A u \in Users, isReal \in BOOLEAN, kind \in SpinKinds :
               RowsOf(b, u, isReal, kind, SpinId(s)) = {}
    PROVE  LET c == SpinPosted(b, s)
           IN /\ \A u \in Users, isReal \in BOOLEAN, kind \in SpinKinds, id \in RowRefs :
                    id # SpinId(s) => SameRows(b, c, u, isReal, kind, id)
              /\ SpinRecorded(c, s)
  <1> DEFINE payout == Payout(s.stake, s.mult)
             commission == Commission(s.user, s.isReal, s.stake)
             payee == Payee(s.user, s.isReal)
             id == SpinId(s)
             b1 == BetPlaced(b, s)
             b2 == WinPaid(b1, s)
             b3 == HouseSettled(b2, s)
             b4 == CommissionPaid(b3, s)
  <1>1. /\ s.user \in Users /\ s.isReal \in BOOLEAN /\ s.mult \in Mults
        /\ s.stake \in Nat \ {0} /\ id \in RowRefs
    BY StakesArePositive DEF SpinRows, SpinId, RowRefs
  <1>2. payout \in Nat
    <2>1. s.mult \in Nat
      BY <1>1, WheelIsSane
    <2> QED BY <1>1, <2>1, PayoutInNat
  <1>3. SpinPosted(b, s) = b4
    BY DEF SpinPosted
  <1>4. Sound(b1) /\ Recorded(b, b1, s.user, s.isReal, "bet", id, -s.stake)
    <2>1. b1 = Move(b, s.user, s.isReal, "bet", -s.stake, id)
      BY DEF BetPlaced
    <2>2. Sound(b1)
      BY BetIsMove DEF MoveDone
    <2>3. "bet" \in Kinds /\ -s.stake \in Int \ {0}
      BY <1>1 DEF Kinds
    <2> HIDE DEF b1, id
    <2> QED BY <1>1, <2>1, <2>2, <2>3, MoveIsRecorded
  <1> HIDE DEF b1
  <1>5. Sound(b2) /\ Recorded(b1, b2, s.user, s.isReal, "win", id, payout)
    <2>1. Sound(b2)
      BY <1>4, WinIsMove DEF MoveDone
    <2>2. CASE payout = 0
      <3>1. b2 = b1
        BY <2>2 DEF WinPaid
      <3> HIDE DEF b2, payout
      <3> QED BY <2>1, <2>2, <3>1, NothingIsRecorded
    <2>3. CASE payout > 0
      <3>1. b2 = Move(b1, s.user, s.isReal, "win", payout, id)
        BY <2>3 DEF WinPaid
      <3>2. "win" \in Kinds /\ payout \in Int \ {0}
        BY <1>2, <2>3 DEF Kinds
      <3> HIDE DEF b2, payout, id
      <3> QED BY <1>1, <1>4, <2>1, <3>1, <3>2, MoveIsRecorded
    <2> QED BY <1>2, <2>2, <2>3
  <1> HIDE DEF b2
  <1>6. Sound(b3) /\ b3.ledger = b2.ledger
    <2>1. /\ MoveDone(b, b1, s.user, s.isReal, -s.stake)
          /\ MoveDone(b1, b2, s.user, s.isReal, payout)
      BY <1>4, BetIsMove, WinIsMove DEF b1, b2
    <2>2. b2.house = b.house
      BY <2>1 DEF MoveDone
    <2> QED BY <1>5, <2>2, HouseIsMove DEF SpinFits
  <1> HIDE DEF b3
  <1>7. commission \in Nat /\ Recorded(b3, b4, payee, TRUE, "referral", id, commission)
    <2>1. /\ commission \in Nat
          /\ commission = 0 => b4 = b3
          /\ commission > 0 =>
                payee \in Users /\ b4 = Move(b3, payee, TRUE, "referral", commission, id)
      BY <1>6, CommissionIsMove, Zenon
    <2>2. "referral" \in Kinds /\ TRUE \in BOOLEAN
      BY DEF Kinds
    <2> HIDE DEF b4, payee, commission, id
    <2>3. CASE commission = 0
      <3>1. b4.ledger = b3.ledger
        BY <2>1, <2>3
      <3>2. Recorded(b3, b4, payee, TRUE, "referral", id, 0)
        BY <3>1, NothingIsRecorded, Zenon
      <3> QED BY <2>1, <2>3, <3>2, Zenon
    <2>4. CASE commission > 0
      <3>1. commission \in Int \ {0}
        BY <2>1, <2>4
      <3> QED BY <1>1, <1>6, <2>1, <2>2, <2>4, <3>1, MoveIsRecorded, Zenon
    <2>5. commission = 0 \/ commission > 0
      BY <2>1
    <2> QED BY <2>1, <2>3, <2>4, <2>5, Zenon
  <1> HIDE DEF b4, payout, commission, payee, id
  <1>8. \A u \in Users, isReal \in BOOLEAN, kind \in SpinKinds, ref \in RowRefs :
           SameRows(b2, b3, u, isReal, kind, ref)
    BY <1>6 DEF SameRows, RowsOf
  <1>9. \A u \in Users, isReal \in BOOLEAN, kind \in SpinKinds, ref \in RowRefs :
           /\ <<u, isReal, kind, ref>> # <<s.user, s.isReal, "bet", id>> =>
                 SameRows(b, b1, u, isReal, kind, ref)
           /\ <<u, isReal, kind, ref>> # <<s.user, s.isReal, "win", id>> =>
                 SameRows(b1, b3, u, isReal, kind, ref)
           /\ <<u, isReal, kind, ref>> # <<payee, TRUE, "referral", id>> =>
                 SameRows(b3, b4, u, isReal, kind, ref)
    <2>1. ASSUME NEW u \in Users, NEW isReal \in BOOLEAN, NEW kind \in SpinKinds,
                 NEW ref \in RowRefs
          PROVE  /\ <<u, isReal, kind, ref>> # <<s.user, s.isReal, "bet", id>> =>
                       SameRows(b, b1, u, isReal, kind, ref)
                 /\ <<u, isReal, kind, ref>> # <<s.user, s.isReal, "win", id>> =>
                       SameRows(b1, b2, u, isReal, kind, ref)
                 /\ <<u, isReal, kind, ref>> # <<payee, TRUE, "referral", id>> =>
                       SameRows(b3, b4, u, isReal, kind, ref)
      BY <1>4, <1>5, <1>7, Zenon DEF Recorded
    <2>2. ASSUME NEW u \in Users, NEW isReal \in BOOLEAN, NEW kind \in SpinKinds,
                 NEW ref \in RowRefs, SameRows(b1, b2, u, isReal, kind, ref)
          PROVE  SameRows(b1, b3, u, isReal, kind, ref)
      BY <1>8, <2>2 DEF SameRows
    <2> QED BY <2>1, <2>2, Zenon
  <1>10. /\ "bet" \in SpinKinds /\ "win" \in SpinKinds /\ "referral" \in SpinKinds
         /\ "bet" # "win" /\ "bet" # "referral" /\ "win" # "referral"
    BY DEF SpinKinds
  <1>11. \A u \in Users, isReal \in BOOLEAN, kind \in SpinKinds :
            RowsOf(b, u, isReal, kind, id) = {}
    BY DEF id
  <1>12. \A u \in Users, isReal \in BOOLEAN, kind \in SpinKinds, ref \in RowRefs :
            ref # id => SameRows(b, b4, u, isReal, kind, ref)
    <2>1. ASSUME NEW u \in Users, NEW isReal \in BOOLEAN, NEW kind \in SpinKinds,
                 NEW ref \in RowRefs, ref # id
          PROVE  SameRows(b, b4, u, isReal, kind, ref)
      <3>1. /\ SameRows(b, b1, u, isReal, kind, ref)
            /\ SameRows(b1, b3, u, isReal, kind, ref)
            /\ SameRows(b3, b4, u, isReal, kind, ref)
        BY <1>9, <2>1
      <3> QED BY <3>1 DEF SameRows
    <2> QED BY <2>1
  <1>13. RecordedOnce(b4, s.user, s.isReal, "bet", id, -s.stake)
    <2>1. RecordedOnce(b1, s.user, s.isReal, "bet", id, -s.stake)
      BY <1>1, <1>4, <1>10, <1>11 DEF Recorded
    <2>2. /\ SameRows(b1, b3, s.user, s.isReal, "bet", id)
          /\ SameRows(b3, b4, s.user, s.isReal, "bet", id)
      BY <1>1, <1>9, <1>10
    <2> QED BY <2>1, <2>2, SameRowsRecordTheSame
  <1>14. RecordedOnce(b4, s.user, s.isReal, "win", id, payout)
    <2>1. SameRows(b, b1, s.user, s.isReal, "win", id)
      BY <1>1, <1>9, <1>10
    <2>2. RowsOf(b1, s.user, s.isReal, "win", id) = {}
      BY <1>1, <1>10, <1>11, <2>1 DEF SameRows
    <2>3. RecordedOnce(b2, s.user, s.isReal, "win", id, payout)
      BY <1>5, <2>2 DEF Recorded
    <2>4. /\ SameRows(b2, b3, s.user, s.isReal, "win", id)
          /\ SameRows(b3, b4, s.user, s.isReal, "win", id)
      BY <1>1, <1>8, <1>9, <1>10
    <2> QED BY <2>3, <2>4, SameRowsRecordTheSame
  <1>15. ASSUME NEW kind \in {"bet", "win"}
         PROVE  RowsOf(b4, s.user, ~s.isReal, kind, id) = {}
    <2>1. (~s.isReal) \in BOOLEAN /\ (~s.isReal) # s.isReal /\ kind \in SpinKinds
      BY <1>1, <1>10, TheOtherRealm, Zenon
    <2>2. /\ SameRows(b, b1, s.user, ~s.isReal, kind, id)
          /\ SameRows(b1, b3, s.user, ~s.isReal, kind, id)
          /\ SameRows(b3, b4, s.user, ~s.isReal, kind, id)
      BY <1>1, <1>9, <1>10, <2>1
    <2>3. RowsOf(b, s.user, ~s.isReal, kind, id) = {}
      BY <1>1, <1>11, <2>1
    <2> QED BY <2>2, <2>3 DEF SameRows
  <1>16. ASSUME NEW u \in Users
         PROVE  RecordedOnce(b4, u, TRUE, "referral", id,
                             IF u = payee THEN commission ELSE 0)
    <2>1. /\ SameRows(b, b1, u, TRUE, "referral", id)
          /\ SameRows(b1, b3, u, TRUE, "referral", id)
      BY <1>1, <1>9, <1>10
    <2>2. RowsOf(b, u, TRUE, "referral", id) = {}
      BY <1>10, <1>11
    <2>3. RowsOf(b3, u, TRUE, "referral", id) = {}
      BY <2>1, <2>2 DEF SameRows
    <2>4. CASE u = payee
      BY <1>7, <2>3, <2>4 DEF Recorded
    <2>5. CASE u # payee
      <3>1. SameRows(b3, b4, u, TRUE, "referral", id)
        BY <1>1, <1>9, <1>10, <2>5
      <3>2. RowsOf(b4, u, TRUE, "referral", id) = {}
        BY <2>3, <3>1 DEF SameRows
      <3> QED BY <2>5, <3>2 DEF RecordedOnce
    <2> QED BY <2>4, <2>5
  <1>17. SpinRecorded(b4, s)
    BY <1>13, <1>14, <1>15, <1>16, Zenon DEF SpinRecorded, id, payout, payee, commission
  <1> QED BY <1>3, <1>12, <1>17 DEF id
-----------------------------------------------------------------------------
(* A row of a spin is the row of a spin that was played.                   *)
RowsHaveSpins ==
    \A u \in Users, isReal \in BOOLEAN, kind \in SpinKinds, id \in RowRefs :
        RowsOf(books, u, isReal, kind, id) # {} => \E s \in spins : id = SpinId(s)

SpinsRecorded == \A s \in spins : SpinRecorded(books, s)

(* That is what SpinsFullyRecorded and ReferralsEarned say.                *)
LEMMA RecordsAreTrue ==
    ASSUME BankTypeOK, RowsHaveSpins, SpinsRecorded
    PROVE  SpinsFullyRecorded /\ ReferralsEarned
  <1>1. SpinsFullyRecorded
    BY DEF SpinsRecorded, SpinRecorded, SpinsFullyRecorded, RecordedOnce
  <1>2. ASSUME NEW u \in Users, NEW i \in 1..Len(books.ledger[<<u, TRUE>>]),
               books.ledger[<<u, TRUE>>][i].kind = "referral"
        PROVE  \E s \in spins : books.ledger[<<u, TRUE>>][i].ref = SpinId(s)
    <2> DEFINE rows == books.ledger[<<u, TRUE>>]
    <2>1. rows \in Seq(Rows)
      BY DEF BankTypeOK, Books
    <2>2. rows[i].ref \in RowRefs
      <3>1. i \in 1..Len(rows)
        BY <1>2
      <3> HIDE DEF rows
      <3>2. rows[i] \in Rows
        BY <2>1, <3>1
      <3> QED BY <3>2 DEF Rows
    <2>3. i \in RowsOf(books, u, TRUE, "referral", rows[i].ref)
      BY <1>2 DEF RowsOf
    <2>4. "referral" \in SpinKinds /\ TRUE \in BOOLEAN
      BY DEF SpinKinds
    <2>5. RowsOf(books, u, TRUE, "referral", rows[i].ref) # {}
      BY <2>3
    <2> QED BY <2>2, <2>4, <2>5, Zenon DEF RowsHaveSpins
  <1>3. ReferralsEarned
    BY <1>2 DEF ReferralsEarned, SpinsRecorded, SpinRecorded
  <1> QED BY <1>1, <1>3

(* A spin whose rows are left alone keeps its records.                     *)
LEMMA RecordsAreKept ==
    ASSUME NEW b, NEW c, NEW s \in SpinRows, SpinRecorded(b, s),
           \A u \in Users, isReal \in BOOLEAN, kind \in SpinKinds :
               SameRows(b, c, u, isReal, kind, SpinId(s))
    PROVE  SpinRecorded(c, s)
  <1>1. "bet" \in SpinKinds /\ "win" \in SpinKinds /\ "referral" \in SpinKinds
    BY DEF SpinKinds
  <1>2. s.user \in Users /\ s.isReal \in BOOLEAN
    BY DEF SpinRows
  <1> DEFINE other == ~s.isReal
             id == SpinId(s)
             commission(u) == IF u = Payee(s.user, s.isReal)
                              THEN Commission(s.user, s.isReal, s.stake) ELSE 0
  <1>3. /\ other \in BOOLEAN
        /\ \A kind \in {"bet", "win"} : RowsOf(b, s.user, other, kind, id) = {}
    BY <1>2, Zenon DEF SpinRecorded
  <1>4. \A u \in Users : RecordedOnce(b, u, TRUE, "referral", id, commission(u))
    BY Zenon DEF SpinRecorded
  <1>5. /\ RecordedOnce(b, s.user, s.isReal, "bet", id, -s.stake)
        /\ RecordedOnce(b, s.user, s.isReal, "win", id, Payout(s.stake, s.mult))
    BY Zenon DEF SpinRecorded
  <1> HIDE DEF other, id, commission
  <1>6. \A u \in Users, isReal \in BOOLEAN, kind \in SpinKinds :
           SameRows(b, c, u, isReal, kind, id)
    BY Zenon DEF id
  <1>7. /\ RecordedOnce(c, s.user, s.isReal, "bet", id, -s.stake)
        /\ RecordedOnce(c, s.user, s.isReal, "win", id, Payout(s.stake, s.mult))
    BY <1>1, <1>2, <1>5, <1>6, SameRowsRecordTheSame
  <1>8. ASSUME NEW kind \in {"bet", "win"}
        PROVE  RowsOf(c, s.user, other, kind, id) = {}
    <2>1. kind \in SpinKinds
      BY <1>1
    <2>2. SameRows(b, c, s.user, other, kind, id)
      BY <1>2, <1>3, <1>6, <2>1, Zenon
    <2> QED BY <1>3, <2>2, Zenon DEF SameRows
  <1>9. ASSUME NEW u \in Users
        PROVE  RecordedOnce(c, u, TRUE, "referral", id, commission(u))
    <2>1. SameRows(b, c, u, TRUE, "referral", id)
      BY <1>1, <1>6
    <2> QED BY <1>4, <2>1, SameRowsRecordTheSame, Zenon
  <1> QED BY <1>7, <1>8, <1>9, Zenon DEF SpinRecorded, other, id, commission

(* A transaction that writes no row of a spin keeps all the records.       *)
LEMMA QuietBooksKeepRecords ==
    ASSUME BankTypeOK, RowsHaveSpins, SpinsRecorded, spins' = spins,
           SpinRowsKept(books, books')
    PROVE  RowsHaveSpins' /\ SpinsRecorded'
  <1>1. RowsHaveSpins'
    BY DEF RowsHaveSpins, SpinRowsKept, SameRows
  <1>2. ASSUME NEW s \in spins
        PROVE  SpinRecorded(books', s)
    <2>1. s \in SpinRows /\ SpinId(s) \in RowRefs
      BY DEF BankTypeOK, SpinRows, SpinId, RowRefs
    <2>2. \A u \in Users, isReal \in BOOLEAN, kind \in SpinKinds :
             SameRows(books, books', u, isReal, kind, SpinId(s))
      BY <2>1 DEF SpinRowsKept
    <2> QED BY <2>1, <2>2, RecordsAreKept DEF SpinsRecorded
  <1> QED BY <1>1, <1>2 DEF SpinsRecorded

\* Only the ledger counts.
LEMMA SameLedgerKeepsSpinRows ==
    ASSUME NEW a, NEW b, NEW c, c.ledger = b.ledger, SpinRowsKept(a, b)
    PROVE  SpinRowsKept(a, c)
  BY DEF SpinRowsKept, SameRows, RowsOf

\* And a ledger left alone keeps its rows.
LEMMA SameLedgerSameRows ==
    ASSUME NEW b, NEW c, c.ledger = b.ledger
    PROVE  SpinRowsKept(b, c)
  BY DEF SpinRowsKept, SameRows, RowsOf

(* Every transaction keeps the records of the spins that were played, and  *)
(* a spin leaves its own.                                                  *)
LEMMA BankRecordsSpins ==
    ASSUME InOrder, RowsHaveSpins, SpinsRecorded, [BankNext]_bankVars
    PROVE  RowsHaveSpins' /\ SpinsRecorded'
  <1>1. /\ Sound(books) /\ BankTypeOK /\ withdrawals \subseteq WithdrawalRows
        /\ HeldMatches /\ spins \subseteq SpinRows
    BY DEF InOrder, BankTypeOK
  <1>2. ASSUME NEW r \in Requests, RequestWithdrawal(r)
        PROVE  RowsHaveSpins' /\ SpinsRecorded'
    <2>1. r.user \in Users /\ r.amount \in Nat /\ <<r.user, r.ref>> \in RowRefs
      BY RequestsAreTyped DEF RowRefs
    <2> DEFINE c == Move(books, r.user, TRUE, "withdraw", -r.amount, <<r.user, r.ref>>)
    <2>2. "withdraw" \in Kinds \ SpinKinds /\ -r.amount \in Int /\ TRUE \in BOOLEAN
      BY <2>1 DEF Kinds, SpinKinds
    <2>3. SpinRowsKept(books, c)
      BY <1>1, <2>1, <2>2, MoveKeepsSpinRows, Zenon
    <2>4. books' = MoveHeld(c, r.user, r.amount) /\ spins' = spins
      BY <1>2 DEF RequestWithdrawal, Hold
    <2> HIDE DEF c
    <2>5. books'.ledger = c.ledger
      BY <2>4 DEF MoveHeld
    <2>6. SpinRowsKept(books, books')
      BY <2>3, <2>5, SameLedgerKeepsSpinRows
    <2> QED BY <1>1, <2>4, <2>6, QuietBooksKeepRecords
  <1>3. ASSUME NEW r \in Requests, NEW m \in Mults, Spin(r, m)
        PROVE  RowsHaveSpins' /\ SpinsRecorded'
    <2> DEFINE s == SpinRow(r, m)
    <2>1. /\ books' = SpinPosted(books, s) /\ spins' = spins \cup {s}
          /\ ~Played(r.user, r.ref)
      BY <1>3 DEF Spin
    <2>2. s \in SpinRows /\ SpinFits(books, s)
      BY <1>3, AdmittedByBank
    <2>3. s.user = r.user /\ s.ref = r.ref
      BY DEF SpinRow
    <2> HIDE DEF s
    <2>4. SpinId(s) \in RowRefs /\ \A t \in spins : SpinId(t) # SpinId(s)
      BY <2>1, <2>2, <2>3 DEF Played, SpinId, SpinRows, RowRefs
    <2>5. \A u \in Users, isReal \in BOOLEAN, kind \in SpinKinds :
             RowsOf(books, u, isReal, kind, SpinId(s)) = {}
      BY <2>4 DEF RowsHaveSpins
    <2>6. /\ \A u \in Users, isReal \in BOOLEAN, kind \in SpinKinds, id \in RowRefs :
                id # SpinId(s) => SameRows(books, books', u, isReal, kind, id)
          /\ SpinRecorded(books', s)
      BY <1>1, <2>1, <2>2, <2>5, SpinRecords
    <2>7. RowsHaveSpins'
      <3>1. ASSUME NEW u \in Users, NEW isReal \in BOOLEAN, NEW kind \in SpinKinds,
                   NEW id \in RowRefs, RowsOf(books', u, isReal, kind, id) # {}
            PROVE  \E t \in spins' : id = SpinId(t)
        <4>1. CASE id = SpinId(s)
          BY <2>1, <4>1
        <4>2. CASE id # SpinId(s)
          <5>1. RowsOf(books, u, isReal, kind, id) # {}
            BY <2>6, <3>1, <4>2 DEF SameRows
          <5>2. \E t \in spins : id = SpinId(t)
            BY <5>1 DEF RowsHaveSpins
          <5> QED BY <2>1, <5>2
        <4> QED BY <4>1, <4>2
      <3> QED BY <3>1 DEF RowsHaveSpins
    <2>8. ASSUME NEW t \in spins
          PROVE  SpinRecorded(books', t)
      <3>1. t \in SpinRows /\ SpinId(t) \in RowRefs /\ SpinId(t) # SpinId(s)
        BY <1>1, <2>4 DEF SpinRows, SpinId, RowRefs
      <3>2. \A u \in Users, isReal \in BOOLEAN, kind \in SpinKinds :
               SameRows(books, books', u, isReal, kind, SpinId(t))
        BY <2>6, <3>1
      <3>3. SpinRecorded(books, t)
        BY DEF SpinsRecorded
      <3> QED BY <3>1, <3>2, <3>3, RecordsAreKept
    <2> QED BY <2>1, <2>6, <2>7, <2>8 DEF SpinsRecorded
  <1>4. ASSUME NEW u \in Users, TopUpDemo(u) \/ CooldownElapses(u)
        PROVE  RowsHaveSpins' /\ SpinsRecorded'
    <2> DEFINE delta == DemoTarget - books.wallets[u].demo
               c == Move(books, u, FALSE, "demo_grant", delta, NoRef)
    <2>1. (books' = books \/ books' = c) /\ spins' = spins
      BY <1>4 DEF TopUpDemo, CooldownElapses, ToppedUp
    <2>2. delta \in Int
      BY <1>1, OpeningIsSane DEF Sound, Books
    <2>3. "demo_grant" \in Kinds \ SpinKinds /\ NoRef \in RowRefs /\ FALSE \in BOOLEAN
      BY DEF Kinds, SpinKinds, RowRefs
    <2> HIDE DEF delta
    <2>4. SpinRowsKept(books, c)
      BY <1>1, <2>2, <2>3, MoveKeepsSpinRows, Zenon
    <2> HIDE DEF c
    <2>5. SpinRowsKept(books, books')
      BY <2>1, <2>4, SameLedgerSameRows
    <2> QED BY <1>1, <2>1, <2>5, QuietBooksKeepRecords
  <1>5. ASSUME NEW w \in withdrawals, SettleWithdrawal(w) \/ FailWithdrawal(w)
        PROVE  RowsHaveSpins' /\ SpinsRecorded'
    <2>1. /\ w.user \in Users /\ w.amount \in Nat /\ <<w.user, w.ref>> \in RowRefs
          /\ w.status \in OpenStatus
      BY <1>1, <1>5 DEF WithdrawalRows, RowRefs, SettleWithdrawal, FailWithdrawal
    <2> DEFINE c == ReleaseHold(books, w.user, w.amount)
               d == Move(c, w.user, TRUE, "withdraw_reversed", w.amount, <<w.user, w.ref>>)
    <2>2. (books' = c \/ books' = d) /\ spins' = spins
      BY <1>5 DEF SettleWithdrawal, FailWithdrawal, ReverseHold
    <2>3. c.ledger = books.ledger
      BY DEF ReleaseHold, MoveHeld
    <2>4. books.wallets[w.user].held >= w.amount
      BY <1>1, <2>1 DEF HeldMatches
    <2>5. Sound(c)
      BY <1>1, <2>1, <2>4, ReleasePaysOut
    <2>6. "withdraw_reversed" \in Kinds \ SpinKinds /\ w.amount \in Int /\ TRUE \in BOOLEAN
      BY <2>1 DEF Kinds, SpinKinds
    <2> HIDE DEF c
    <2>7. SpinRowsKept(c, d)
      BY <2>1, <2>5, <2>6, MoveKeepsSpinRows, Zenon
    <2> HIDE DEF d
    <2>8. SpinRowsKept(books, c) /\ SpinRowsKept(books, d)
      BY <2>3, <2>7 DEF SpinRowsKept, SameRows, RowsOf
    <2>9. SpinRowsKept(books, books')
      BY <2>2, <2>8
    <2> QED BY <1>1, <2>2, <2>9, QuietBooksKeepRecords
  <1>6. CASE UNCHANGED bankVars
    <2>1. books' = books /\ spins' = spins
      BY <1>6 DEF bankVars
    <2> QED BY <2>1 DEF RowsHaveSpins, SpinsRecorded
  <1> QED BY <1>2, <1>3, <1>4, <1>5, <1>6 DEF BankNext
-----------------------------------------------------------------------------
(* The rows that a ledger holds stay where they are.                       *)
Extends(rows, more) ==
    /\ Len(rows) <= Len(more)
    /\ \A i \in 1..Len(rows) : more[i] = rows[i]

LedgerExtended(b, c) ==
    \A k \in Users \X BOOLEAN :
        c.ledger[k] \in Seq(Rows) /\ Extends(b.ledger[k], c.ledger[k])

\* So they are its first rows.
LEMMA ExtendsIsPrefix ==
    ASSUME NEW rows \in Seq(Rows), NEW more \in Seq(Rows), Extends(rows, more)
    PROVE  Len(rows) <= Len(more) /\ SubSeq(more, 1, Len(rows)) = rows
  <1>1. SubSeq(more, 1, Len(rows)) \in Seq(Rows)
    BY DEF Extends
  <1>2. Len(SubSeq(more, 1, Len(rows))) = Len(rows)
    BY DEF Extends
  <1>3. \A i \in 1..Len(rows) : SubSeq(more, 1, Len(rows))[i] = rows[i]
    BY DEF Extends
  <1> QED BY <1>1, <1>2, <1>3, SeqEqual DEF Extends

\* A statement appends.
LEMMA MoveExtends ==
    ASSUME NEW b, NEW c, Sound(b), Sound(c), NEW u \in Users, NEW isReal \in BOOLEAN,
           NEW kind, NEW delta, NEW ref, c = Move(b, u, isReal, kind, delta, ref)
    PROVE  LedgerExtended(b, c)
  <1> DEFINE key == <<u, isReal>>
             row == Row(kind, delta, Spendable(Adjusted(b.wallets[u], isReal, delta), isReal),
                        ref)
  <1>1. /\ b.ledger \in [Users \X BOOLEAN -> Seq(Rows)]
        /\ c.ledger \in [Users \X BOOLEAN -> Seq(Rows)]
        /\ key \in Users \X BOOLEAN
        /\ c.ledger = [b.ledger EXCEPT ![key] = Append(@, row)]
    BY DEF Sound, Books, Move
  <1> HIDE DEF row
  <1>2. ASSUME NEW rows \in Seq(Rows)
        PROVE  Extends(rows, Append(rows, row))
    BY DEF Extends
  <1>3. ASSUME NEW rows \in Seq(Rows)
        PROVE  Extends(rows, rows)
    BY DEF Extends
  <1> HIDE DEF key
  <1> QED BY <1>1, <1>2, <1>3 DEF LedgerExtended

\* A statement that leaves the ledger alone.
LEMMA SameLedgerExtends ==
    ASSUME NEW b, NEW c, Sound(b), c.ledger = b.ledger
    PROVE  LedgerExtended(b, c)
  <1>1. b.ledger \in [Users \X BOOLEAN -> Seq(Rows)]
    BY DEF Sound, Books
  <1> QED BY <1>1 DEF LedgerExtended, Extends

\* One statement after another.
LEMMA ExtendsOnAndOn ==
    ASSUME NEW a, NEW b, NEW c, Sound(a), LedgerExtended(a, b), LedgerExtended(b, c)
    PROVE  LedgerExtended(a, c)
  <1> SUFFICES ASSUME NEW k \in Users \X BOOLEAN
               PROVE  c.ledger[k] \in Seq(Rows) /\ Extends(a.ledger[k], c.ledger[k])
    BY DEF LedgerExtended
  <1>1. /\ a.ledger[k] \in Seq(Rows) /\ b.ledger[k] \in Seq(Rows) /\ c.ledger[k] \in Seq(Rows)
        /\ Extends(a.ledger[k], b.ledger[k]) /\ Extends(b.ledger[k], c.ledger[k])
    BY DEF LedgerExtended, Sound, Books
  <1> QED BY <1>1 DEF Extends

(* A spin appends its rows.                                                *)
LEMMA SpinExtends ==
    ASSUME NEW b, Sound(b), NEW s \in SpinRows, SpinFits(b, s)
    PROVE  LedgerExtended(b, SpinPosted(b, s))
  <1> DEFINE b1 == BetPlaced(b, s)
             b2 == WinPaid(b1, s)
             b3 == HouseSettled(b2, s)
             b4 == CommissionPaid(b3, s)
             payout == Payout(s.stake, s.mult)
             commission == Commission(s.user, s.isReal, s.stake)
             payee == Payee(s.user, s.isReal)
  <1>1. s.user \in Users /\ s.isReal \in BOOLEAN
    BY DEF SpinRows
  <1>2. SpinPosted(b, s) = b4
    BY DEF SpinPosted
  <1>3. /\ Sound(b1) /\ b1.house = b.house
        /\ b1 = Move(b, s.user, s.isReal, "bet", -s.stake, SpinId(s))
    BY BetIsMove DEF MoveDone, BetPlaced
  <1> HIDE DEF b1
  <1>4. /\ Sound(b2) /\ b2.house = b1.house
        /\ b2 = b1 \/ b2 = Move(b1, s.user, s.isReal, "win", payout, SpinId(s))
    BY <1>3, WinIsMove DEF MoveDone, WinPaid
  <1> HIDE DEF b2, payout
  <1>5. Sound(b3) /\ b3.ledger = b2.ledger
    BY <1>3, <1>4, HouseIsMove DEF SpinFits
  <1> HIDE DEF b3
  <1>6. LedgerExtended(b, b1) /\ LedgerExtended(b1, b2) /\ LedgerExtended(b2, b3)
    BY <1>1, <1>3, <1>4, <1>5, MoveExtends, SameLedgerExtends
  <1>7. LedgerExtended(b3, b4)
    <2>1. /\ commission \in Nat
          /\ commission = 0 => b4 = b3
          /\ commission > 0 =>
                /\ payee \in Users
                /\ b4 = Move(b3, payee, TRUE, "referral", commission, SpinId(s))
                /\ MoveDone(b3, b4, payee, TRUE, commission)
      BY <1>5, CommissionIsMove, Zenon
    <2>2. TRUE \in BOOLEAN /\ (commission = 0 \/ commission > 0)
      BY <2>1
    <2> HIDE DEF commission, payee, b4
    <2>3. CASE commission = 0
      <3>1. b4.ledger = b3.ledger
        BY <2>1, <2>3
      <3> QED BY <1>5, <3>1, SameLedgerExtends
    <2>4. CASE commission > 0
      <3>1. /\ payee \in Users
            /\ b4 = Move(b3, payee, TRUE, "referral", commission, SpinId(s))
            /\ Sound(b4)
        BY <2>1, <2>4, Zenon DEF MoveDone
      <3> QED BY <1>5, <2>2, <3>1, MoveExtends, Zenon
    <2> QED BY <2>2, <2>3, <2>4
  <1> QED BY <1>2, <1>3, <1>4, <1>5, <1>6, <1>7, ExtendsOnAndOn

(* And so does every transaction.                                          *)
LEMMA BankExtends ==
    ASSUME InOrder, [BankNext]_bankVars
    PROVE  LedgerExtended(books, books')
  <1>1. /\ Sound(books) /\ BankTypeOK /\ withdrawals \subseteq WithdrawalRows
        /\ HeldMatches
    BY DEF InOrder, BankTypeOK
  <1>2. ASSUME NEW r \in Requests, RequestWithdrawal(r)
        PROVE  LedgerExtended(books, books')
    <2>1. r.user \in Users /\ r.amount \in Nat /\ <<r.user, r.ref>> \in RowRefs
      BY RequestsAreTyped DEF RowRefs
    <2> DEFINE c == Move(books, r.user, TRUE, "withdraw", -r.amount, <<r.user, r.ref>>)
    <2>2. "withdraw" \in Kinds /\ -r.amount \in Int /\ TRUE \in BOOLEAN
      BY <2>1 DEF Kinds
    <2>3. MoveFits(books, r.user, TRUE, -r.amount) /\ books' = MoveHeld(c, r.user, r.amount)
      BY <1>2 DEF RequestWithdrawal, Hold
    <2>4. Sound(c)
      BY <1>1, <2>1, <2>2, <2>3, RealMoveIsSound, Zenon DEF MoveDone
    <2>5. LedgerExtended(books, c)
      BY <1>1, <2>1, <2>2, <2>4, MoveExtends, Zenon
    <2> HIDE DEF c
    <2> QED BY <2>3, <2>5 DEF MoveHeld, LedgerExtended
  <1>3. ASSUME NEW r \in Requests, NEW m \in Mults, Spin(r, m)
        PROVE  LedgerExtended(books, books')
    <2>1. books' = SpinPosted(books, SpinRow(r, m))
      BY <1>3 DEF Spin
    <2> QED BY <1>1, <1>3, <2>1, AdmittedByBank, SpinExtends
  <1>4. ASSUME NEW u \in Users, TopUpDemo(u) \/ CooldownElapses(u)
        PROVE  LedgerExtended(books, books')
    <2> DEFINE delta == DemoTarget - books.wallets[u].demo
    <2>1. \/ books' = books
          \/ books' = Move(books, u, FALSE, "demo_grant", delta, NoRef)
      BY <1>4 DEF TopUpDemo, CooldownElapses, ToppedUp
    <2>2. Sound(books') /\ FALSE \in BOOLEAN
      BY <1>1, <1>4, TopUpIsSound, OpeningIsSane DEF TopUpDemo, CooldownElapses, Touches
    <2> HIDE DEF delta
    <2>3. CASE books' = books
      BY <1>1, <2>3, SameLedgerExtends
    <2>4. CASE books' = Move(books, u, FALSE, "demo_grant", delta, NoRef)
      BY <1>1, <2>2, <2>4, MoveExtends, Zenon
    <2> QED BY <2>1, <2>3, <2>4
  <1>5. ASSUME NEW w \in withdrawals, SettleWithdrawal(w) \/ FailWithdrawal(w)
        PROVE  LedgerExtended(books, books')
    <2>1. /\ w.user \in Users /\ w.amount \in Nat /\ <<w.user, w.ref>> \in RowRefs
          /\ w.status \in OpenStatus
      BY <1>1, <1>5 DEF WithdrawalRows, RowRefs, SettleWithdrawal, FailWithdrawal
    <2> DEFINE c == ReleaseHold(books, w.user, w.amount)
               d == Move(c, w.user, TRUE, "withdraw_reversed", w.amount, <<w.user, w.ref>>)
    <2>2. books.wallets[w.user].held >= w.amount
      BY <1>1, <2>1 DEF HeldMatches
    <2>3. Sound(c) /\ Sound(ReverseHold(books, w.user, w.amount, <<w.user, w.ref>>))
      BY <1>1, <2>1, <2>2, ReleaseIsSound, ReverseIsSound DEF Touches
    <2>4. books' = c \/ books' = d
      BY <1>5 DEF SettleWithdrawal, FailWithdrawal, ReverseHold
    <2>5. Sound(d) /\ c.ledger = books.ledger /\ TRUE \in BOOLEAN
      BY <2>3 DEF ReverseHold, ReleaseHold, MoveHeld
    <2> HIDE DEF c
    <2>6. LedgerExtended(books, c)
      BY <1>1, <2>5, SameLedgerExtends
    <2>7. LedgerExtended(c, d)
      BY <2>1, <2>3, <2>5, MoveExtends, Zenon
    <2> HIDE DEF d
    <2> QED BY <1>1, <2>4, <2>6, <2>7, ExtendsOnAndOn
  <1>6. CASE UNCHANGED bankVars
    BY <1>1, <1>6, SameLedgerExtends DEF bankVars
  <1> QED BY <1>2, <1>3, <1>4, <1>5, <1>6 DEF BankNext

-----------------------------------------------------------------------------
(***************************************************************************)
(* The checks of Integrity: what the tables have to be for all of them to  *)
(* be quiet, and that no transaction disturbs it.                          *)
(***************************************************************************)

OwnKinds == {"bet", "win", "withdraw", "withdraw_reversed"}

\* A row of this kind may be about this wallet, realm and reference: demo and
\* real money do not mix, and what a player asked for is in his own ledger.
Lawful(u, isReal, kind, ref) ==
    /\ isReal => kind # "demo_grant"
    /\ ~isReal => kind \notin {"deposit", "withdraw", "withdraw_reversed", "referral"}
    /\ kind \in OwnKinds => ref[1] = u

LawfulBooks(b) ==
    \A u \in Users, isReal \in BOOLEAN :
        LET rows == b.ledger[<<u, isReal>>]
        IN \A i \in 1..Len(rows) : Lawful(u, isReal, rows[i].kind, rows[i].ref)

\* A statement that writes a lawful row.
LEMMA MoveIsLawful ==
    ASSUME NEW b, Sound(b), LawfulBooks(b), NEW u \in Users, NEW isReal \in BOOLEAN,
           NEW kind, NEW delta, NEW ref, Lawful(u, isReal, kind, ref),
           NEW c, c.ledger = Move(b, u, isReal, kind, delta, ref).ledger
    PROVE  LawfulBooks(c)
  <1> DEFINE key == <<u, isReal>>
             row == Row(kind, delta, Spendable(Adjusted(b.wallets[u], isReal, delta), isReal),
                        ref)
  <1>1. /\ b.ledger \in [Users \X BOOLEAN -> Seq(Rows)]
        /\ key \in Users \X BOOLEAN
        /\ c.ledger = [b.ledger EXCEPT ![key] = Append(b.ledger[key], row)]
    BY DEF Sound, Books, Move
  <1>2. row.kind = kind /\ row.ref = ref
    BY DEF Row
  <1> HIDE DEF row
  <1>3. ASSUME NEW v \in Users, NEW real \in BOOLEAN,
               NEW i \in 1..Len(c.ledger[<<v, real>>])
        PROVE  Lawful(v, real, c.ledger[<<v, real>>][i].kind, c.ledger[<<v, real>>][i].ref)
    <2>1. CASE <<v, real>> = key
      <3> DEFINE rows == b.ledger[key]
      <3>1. rows \in Seq(Rows) /\ c.ledger[<<v, real>>] = Append(rows, row)
        BY <1>1, <2>1
      <3>2. \A j \in 1..Len(rows) : Lawful(u, isReal, rows[j].kind, rows[j].ref)
        BY DEF LawfulBooks
      <3> HIDE DEF rows
      <3>3. CASE i \in 1..Len(rows)
        <4>1. c.ledger[<<v, real>>][i] = rows[i]
          BY <3>1, <3>3
        <4> QED BY <2>1, <3>2, <3>3, <4>1
      <3>4. CASE i \notin 1..Len(rows)
        <4>1. c.ledger[<<v, real>>][i] = row
          BY <3>1, <3>4, <1>3
        <4> QED BY <1>2, <2>1, <4>1
      <3> QED BY <3>3, <3>4
    <2>2. CASE <<v, real>> # key
      <3>1. c.ledger[<<v, real>>] = b.ledger[<<v, real>>]
        BY <1>1, <2>2
      <3> QED BY <1>3, <3>1 DEF LawfulBooks
    <2> QED BY <2>1, <2>2
  <1> QED BY <1>3 DEF LawfulBooks

\* Only the ledger counts.
LEMMA SameLedgerIsLawful ==
    ASSUME NEW b, NEW c, c.ledger = b.ledger, LawfulBooks(b)
    PROVE  LawfulBooks(c)
  BY DEF LawfulBooks

\* What a spin of this player may write.
LEMMA SpinRowsAreLawful ==
    ASSUME NEW s \in SpinRows
    PROVE  /\ Lawful(s.user, s.isReal, "bet", SpinId(s))
           /\ Lawful(s.user, s.isReal, "win", SpinId(s))
           /\ \A u : Lawful(u, TRUE, "referral", SpinId(s))
  BY DEF Lawful, OwnKinds, SpinId

(* The rows of a spin are lawful.                                          *)
LEMMA SpinIsLawful ==
    ASSUME NEW b, Sound(b), LawfulBooks(b), NEW s \in SpinRows, SpinFits(b, s)
    PROVE  LawfulBooks(SpinPosted(b, s))
  <1> DEFINE b1 == BetPlaced(b, s)
             b2 == WinPaid(b1, s)
             b3 == HouseSettled(b2, s)
             b4 == CommissionPaid(b3, s)
             payout == Payout(s.stake, s.mult)
             commission == Commission(s.user, s.isReal, s.stake)
             payee == Payee(s.user, s.isReal)
  <1>1. s.user \in Users /\ s.isReal \in BOOLEAN
    BY DEF SpinRows
  <1>2. SpinPosted(b, s) = b4
    BY DEF SpinPosted
  <1>3. /\ Sound(b1) /\ b1.house = b.house
        /\ b1 = Move(b, s.user, s.isReal, "bet", -s.stake, SpinId(s))
    BY BetIsMove DEF MoveDone, BetPlaced
  <1> HIDE DEF b1
  <1>4. /\ Sound(b2) /\ b2.house = b1.house
        /\ b2 = b1 \/ b2 = Move(b1, s.user, s.isReal, "win", payout, SpinId(s))
    BY <1>3, WinIsMove DEF MoveDone, WinPaid
  <1> HIDE DEF b2, payout
  <1>5. Sound(b3) /\ b3.ledger = b2.ledger
    BY <1>3, <1>4, HouseIsMove DEF SpinFits
  <1> HIDE DEF b3
  <1>6. LawfulBooks(b1)
    BY <1>1, <1>3, MoveIsLawful, SpinRowsAreLawful
  <1>7. LawfulBooks(b2)
    BY <1>1, <1>3, <1>4, <1>6, MoveIsLawful, SpinRowsAreLawful
  <1>8. LawfulBooks(b3)
    BY <1>5, <1>7, SameLedgerIsLawful
  <1>9. LawfulBooks(b4)
    <2>1. /\ commission \in Nat
          /\ commission = 0 => b4 = b3
          /\ commission > 0 =>
                /\ payee \in Users
                /\ b4 = Move(b3, payee, TRUE, "referral", commission, SpinId(s))
      BY <1>5, CommissionIsMove, Zenon
    <2>2. TRUE \in BOOLEAN /\ (commission = 0 \/ commission > 0)
      BY <2>1
    <2> HIDE DEF commission, payee, b4
    <2>3. CASE commission = 0
      BY <1>8, <2>1, <2>3
    <2>4. CASE commission > 0
      <3>1. /\ payee \in Users
            /\ b4.ledger = Move(b3, payee, TRUE, "referral", commission, SpinId(s)).ledger
        BY <2>1, <2>4, Zenon
      <3>2. Lawful(payee, TRUE, "referral", SpinId(s))
        BY SpinRowsAreLawful, Zenon
      <3> QED BY <1>5, <1>8, <2>2, <3>1, <3>2, MoveIsLawful, Zenon
    <2> QED BY <2>2, <2>3, <2>4
  <1> QED BY <1>2, <1>9

(* So are those of every transaction.                                      *)
LEMMA BankIsLawful ==
    ASSUME InOrder, LawfulBooks(books), [BankNext]_bankVars
    PROVE  LawfulBooks(books')
  <1>1. /\ Sound(books) /\ BankTypeOK /\ withdrawals \subseteq WithdrawalRows
        /\ HeldMatches
    BY DEF InOrder, BankTypeOK
  <1>2. ASSUME NEW r \in Requests, RequestWithdrawal(r)
        PROVE  LawfulBooks(books')
    <2>1. r.user \in Users
      BY RequestsAreTyped
    <2> DEFINE c == Move(books, r.user, TRUE, "withdraw", -r.amount, <<r.user, r.ref>>)
    <2>2. books'.ledger = c.ledger
      BY <1>2 DEF RequestWithdrawal, Hold, MoveHeld
    <2>3. Lawful(r.user, TRUE, "withdraw", <<r.user, r.ref>>) /\ TRUE \in BOOLEAN
      BY DEF Lawful, OwnKinds
    <2> QED BY <1>1, <2>1, <2>2, <2>3, MoveIsLawful, Zenon
  <1>3. ASSUME NEW r \in Requests, NEW m \in Mults, Spin(r, m)
        PROVE  LawfulBooks(books')
    <2>1. books' = SpinPosted(books, SpinRow(r, m))
      BY <1>3 DEF Spin
    <2> QED BY <1>1, <1>3, <2>1, AdmittedByBank, SpinIsLawful
  <1>4. ASSUME NEW u \in Users, TopUpDemo(u) \/ CooldownElapses(u)
        PROVE  LawfulBooks(books')
    <2> DEFINE delta == DemoTarget - books.wallets[u].demo
    <2>1. \/ books' = books
          \/ books' = Move(books, u, FALSE, "demo_grant", delta, NoRef)
      BY <1>4 DEF TopUpDemo, CooldownElapses, ToppedUp
    <2>2. Lawful(u, FALSE, "demo_grant", NoRef) /\ FALSE \in BOOLEAN
      BY DEF Lawful, OwnKinds
    <2> HIDE DEF delta
    <2>3. CASE books' = Move(books, u, FALSE, "demo_grant", delta, NoRef)
      <3>1. books'.ledger = Move(books, u, FALSE, "demo_grant", delta, NoRef).ledger
        BY <2>3, Zenon
      <3> QED BY <1>1, <2>2, <3>1, MoveIsLawful, Zenon
    <2> QED BY <2>1, <2>3
  <1>5. ASSUME NEW w \in withdrawals, SettleWithdrawal(w) \/ FailWithdrawal(w)
        PROVE  LawfulBooks(books')
    <2>1. /\ w.user \in Users /\ w.amount \in Nat
          /\ w.status \in OpenStatus
      BY <1>1, <1>5 DEF WithdrawalRows, SettleWithdrawal, FailWithdrawal
    <2> DEFINE c == ReleaseHold(books, w.user, w.amount)
               d == Move(c, w.user, TRUE, "withdraw_reversed", w.amount, <<w.user, w.ref>>)
    <2>2. books.wallets[w.user].held >= w.amount
      BY <1>1, <2>1 DEF HeldMatches
    <2>3. Sound(c)
      BY <1>1, <2>1, <2>2, ReleaseIsSound DEF Touches
    <2>4. books' = c \/ books' = d
      BY <1>5 DEF SettleWithdrawal, FailWithdrawal, ReverseHold
    <2>5. c.ledger = books.ledger /\ TRUE \in BOOLEAN
      BY DEF ReleaseHold, MoveHeld
    <2>6. Lawful(w.user, TRUE, "withdraw_reversed", <<w.user, w.ref>>)
      BY DEF Lawful, OwnKinds
    <2> HIDE DEF c
    <2>7. LawfulBooks(c)
      BY <2>5, SameLedgerIsLawful
    <2>8. LawfulBooks(d)
      BY <2>1, <2>3, <2>5, <2>6, <2>7, MoveIsLawful, Zenon
    <2> HIDE DEF d
    <2> QED BY <2>4, <2>7, <2>8
  <1>6. CASE UNCHANGED bankVars
    BY <1>6 DEF bankVars
  <1> QED BY <1>2, <1>3, <1>4, <1>5, <1>6 DEF BankNext

\* So are the opening ones.
LEMMA OpeningIsLawful ==
    ASSUME BankInit
    PROVE  LawfulBooks(books)
  <1>1. ASSUME NEW u \in Users, NEW isReal \in BOOLEAN,
               NEW i \in 1..Len(books.ledger[<<u, isReal>>])
        PROVE  LET row == books.ledger[<<u, isReal>>][i]
               IN Lawful(u, isReal, row.kind, row.ref)
    <2> DEFINE rows == books.ledger[<<u, isReal>>]
               kind == IF isReal THEN "deposit" ELSE "demo_grant"
    <2>1. rows = <<>> \/ \E cents \in Nat : rows = <<Row(kind, cents, cents, NoRef)>>
      BY OpeningIsSane DEF BankInit, Opened
    <2> HIDE DEF rows
    <2>2. i \in 1..Len(rows)
      BY <1>1 DEF rows
    <2>3. rows[i].kind = kind
      BY <2>1, <2>2 DEF Row
    <2>4. Lawful(u, isReal, kind, rows[i].ref)
      BY DEF Lawful, OwnKinds
    <2> QED BY <2>3, <2>4 DEF rows
  <1> QED BY <1>1 DEF LawfulBooks
-----------------------------------------------------------------------------
(* The rows of withdrawals, as those of spins. *)

HoldKinds == {"withdraw", "withdraw_reversed"}

HoldId(w) == <<w.user, w.ref>>

\* No row that a withdrawal writes has changed.
HoldRowsKept(b, c) ==
    \A u \in Users, isReal \in BOOLEAN, kind \in HoldKinds, id \in RowRefs :
        SameRows(b, c, u, isReal, kind, id)

\* A withdrawal took its amount once, and gave it back once if it failed.
HoldRecorded(b, w) ==
    /\ RecordedOnce(b, w.user, TRUE, "withdraw", HoldId(w), -w.amount)
    /\ RecordedOnce(b, w.user, TRUE, "withdraw_reversed", HoldId(w),
                    IF w.status = "failed" THEN w.amount ELSE 0)

HoldsRecorded == \A w \in withdrawals : HoldRecorded(books, w)

(* A row of a withdrawal is the row of one that was requested.             *)
RowsHaveHolds ==
    \A u \in Users, isReal \in BOOLEAN, kind \in HoldKinds, id \in RowRefs :
        RowsOf(books, u, isReal, kind, id) # {} => \E w \in withdrawals : id = HoldId(w)

\* A ledger left alone keeps its rows, and a row of another kind changes none.
LEMMA SameLedgerKeepsHoldRows ==
    ASSUME NEW b, NEW c, c.ledger = b.ledger
    PROVE  HoldRowsKept(b, c)
  BY DEF HoldRowsKept, SameRows, RowsOf

LEMMA MoveKeepsHoldRows ==
    ASSUME NEW b, Sound(b), NEW u \in Users, NEW isReal \in BOOLEAN,
           NEW kind \in Kinds \ HoldKinds, NEW delta \in Int, NEW ref \in RowRefs
    PROVE  HoldRowsKept(b, Move(b, u, isReal, kind, delta, ref))
  <1> DEFINE c == Move(b, u, isReal, kind, delta, ref)
  <1>1. \A v \in Users, real \in BOOLEAN, k \in Kinds, id \in RowRefs :
           <<v, real, k, id>> # <<u, isReal, kind, ref>> => SameRows(b, c, v, real, k, id)
    BY MoveRecords
  <1> HIDE DEF c
  <1>2. HoldKinds \subseteq Kinds
    BY DEF HoldKinds, Kinds
  <1>3. HoldRowsKept(b, c)
    BY <1>1, <1>2 DEF HoldRowsKept
  <1> QED BY <1>3 DEF c

LEMMA HoldRowsKeptOnAndOn ==
    ASSUME NEW a, NEW b, NEW c, HoldRowsKept(a, b), HoldRowsKept(b, c)
    PROVE  HoldRowsKept(a, c)
  BY DEF HoldRowsKept, SameRows

(* A spin writes none of them.                                             *)
LEMMA SpinKeepsHoldRows ==
    ASSUME NEW b, Sound(b), NEW s \in SpinRows, SpinFits(b, s)
    PROVE  HoldRowsKept(b, SpinPosted(b, s))
  <1> DEFINE b1 == BetPlaced(b, s)
             b2 == WinPaid(b1, s)
             b3 == HouseSettled(b2, s)
             b4 == CommissionPaid(b3, s)
             payout == Payout(s.stake, s.mult)
             commission == Commission(s.user, s.isReal, s.stake)
             payee == Payee(s.user, s.isReal)
             id == SpinId(s)
  <1>1. /\ s.user \in Users /\ s.isReal \in BOOLEAN /\ id \in RowRefs
        /\ s.stake \in Nat /\ payout \in Int
    <2>1. s.user \in Users /\ s.isReal \in BOOLEAN /\ id \in RowRefs /\ s.stake \in Nat
      BY StakesArePositive DEF SpinRows, SpinId, RowRefs
    <2>2. s.mult \in Nat
      BY WheelIsSane DEF SpinRows
    <2>3. payout \in Nat
      BY <2>1, <2>2, PayoutInNat
    <2> QED BY <2>1, <2>3
  <1>2. SpinPosted(b, s) = b4
    BY DEF SpinPosted
  <1>3. /\ Sound(b1) /\ b1.house = b.house
        /\ b1 = Move(b, s.user, s.isReal, "bet", -s.stake, id)
    BY BetIsMove DEF MoveDone, BetPlaced
  <1> HIDE DEF b1
  <1>4. /\ Sound(b2) /\ b2.house = b1.house
        /\ b2 = b1 \/ b2 = Move(b1, s.user, s.isReal, "win", payout, id)
    BY <1>3, WinIsMove DEF MoveDone, WinPaid
  <1> HIDE DEF b2, payout, id
  <1>5. Sound(b3) /\ b3.ledger = b2.ledger
    BY <1>3, <1>4, HouseIsMove DEF SpinFits
  <1> HIDE DEF b3
  <1>6. /\ "bet" \in Kinds \ HoldKinds /\ "win" \in Kinds \ HoldKinds
        /\ "referral" \in Kinds \ HoldKinds
    BY DEF Kinds, HoldKinds
  <1>7. HoldRowsKept(b, b1)
    BY <1>1, <1>3, <1>6, MoveKeepsHoldRows
  <1>8. HoldRowsKept(b1, b2)
    BY <1>1, <1>3, <1>4, <1>6, MoveKeepsHoldRows, SameLedgerKeepsHoldRows
  <1>9. HoldRowsKept(b2, b3)
    BY <1>5, SameLedgerKeepsHoldRows
  <1>10. HoldRowsKept(b3, b4)
    <2>1. /\ commission \in Nat
          /\ commission = 0 => b4 = b3
          /\ commission > 0 =>
                /\ payee \in Users
                /\ b4 = Move(b3, payee, TRUE, "referral", commission, id)
      BY <1>5, CommissionIsMove, Zenon DEF id
    <2>2. TRUE \in BOOLEAN /\ (commission = 0 \/ commission > 0) /\ commission \in Int
      BY <2>1
    <2> HIDE DEF commission, payee, b4
    <2>3. CASE commission = 0
      <3>1. b4.ledger = b3.ledger
        BY <2>1, <2>3
      <3> QED BY <3>1, SameLedgerKeepsHoldRows
    <2>4. CASE commission > 0
      BY <1>1, <1>5, <1>6, <2>1, <2>2, <2>4, MoveKeepsHoldRows, Zenon
    <2> QED BY <2>2, <2>3, <2>4
  <1> QED BY <1>2, <1>7, <1>8, <1>9, <1>10, HoldRowsKeptOnAndOn

\* A withdrawal whose rows are left alone keeps its records.
LEMMA HoldIsKept ==
    ASSUME NEW b, NEW c, NEW w \in WithdrawalRows, HoldRecorded(b, w),
           \A kind \in HoldKinds : SameRows(b, c, w.user, TRUE, kind, HoldId(w))
    PROVE  HoldRecorded(c, w)
  <1> DEFINE back == IF w.status = "failed" THEN w.amount ELSE 0
             id == HoldId(w)
  <1>1. "withdraw" \in HoldKinds /\ "withdraw_reversed" \in HoldKinds
    BY DEF HoldKinds
  <1>2. /\ RecordedOnce(b, w.user, TRUE, "withdraw", id, -w.amount)
        /\ RecordedOnce(b, w.user, TRUE, "withdraw_reversed", id, back)
    BY DEF HoldRecorded
  <1>3. /\ SameRows(b, c, w.user, TRUE, "withdraw", id)
        /\ SameRows(b, c, w.user, TRUE, "withdraw_reversed", id)
    BY <1>1
  <1> HIDE DEF back
  <1>4. /\ RecordedOnce(c, w.user, TRUE, "withdraw", id, -w.amount)
        /\ RecordedOnce(c, w.user, TRUE, "withdraw_reversed", id, back)
    BY <1>2, <1>3, SameRowsRecordTheSame, Zenon
  <1> QED BY <1>4 DEF HoldRecorded, back

\* The id of a withdrawal is one a row may carry.
LEMMA HoldIdIsRef ==
    ASSUME NEW w \in WithdrawalRows
    PROVE  HoldId(w) \in RowRefs /\ w.user \in Users
  BY DEF WithdrawalRows, HoldId, RowRefs

\* Withdrawals whose rows are left alone keep their records.
LEMMA QuietBooksKeepHolds ==
    ASSUME BankTypeOK, RowsHaveHolds, HoldsRecorded, withdrawals' = withdrawals,
           HoldRowsKept(books, books')
    PROVE  RowsHaveHolds' /\ HoldsRecorded'
  <1>1. RowsHaveHolds'
    BY DEF RowsHaveHolds, HoldRowsKept, SameRows
  <1>2. ASSUME NEW w \in withdrawals
        PROVE  HoldRecorded(books', w)
    <2>1. w \in WithdrawalRows /\ HoldRecorded(books, w)
      BY DEF HoldsRecorded, BankTypeOK
    <2>2. \A kind \in HoldKinds : SameRows(books, books', w.user, TRUE, kind, HoldId(w))
      BY <2>1, HoldIdIsRef DEF HoldRowsKept
    <2> QED BY <2>1, <2>2, HoldIsKept
  <1> QED BY <1>1, <1>2 DEF HoldsRecorded

\* Withdrawal ids tell withdrawals apart.
LEMMA SameHoldId ==
    ASSUME WithdrawalsKeyed, NEW v \in withdrawals, NEW w \in withdrawals,
           HoldId(v) = HoldId(w)
    PROVE  v = w
  BY DEF WithdrawalsKeyed, HoldId

(* A withdrawal that is requested takes its amount, under a key of its own. *)
LEMMA RequestRecordsHold ==
    ASSUME InOrder, RowsHaveHolds, HoldsRecorded, NEW r \in Requests, RequestWithdrawal(r)
    PROVE  RowsHaveHolds' /\ HoldsRecorded'
  <1> DEFINE w == WithdrawalRow(r)
             id == HoldId(w)
             delta == -r.amount
             c == Move(books, r.user, TRUE, "withdraw", delta, id)
  <1>1. Sound(books) /\ BankTypeOK /\ withdrawals \subseteq WithdrawalRows
    BY DEF InOrder, BankTypeOK
  <1>2. /\ r.user \in Users /\ r.ref \in Refs /\ r.amount \in Nat \ {0}
        /\ ~Requested(r.user, r.ref) /\ withdrawals' = withdrawals \cup {w}
    BY RequestsAreTyped DEF RequestWithdrawal
  <1>3. /\ w.user = r.user /\ w.amount = r.amount /\ w.status = "pending"
        /\ id = <<r.user, r.ref>> /\ id \in RowRefs
    BY <1>2 DEF WithdrawalRow, HoldId, RowRefs
  <1>4. books'.ledger = c.ledger
    BY <1>3 DEF RequestWithdrawal, Hold, MoveHeld
  <1>5. /\ \A v \in Users, real \in BOOLEAN, k \in Kinds, ref \in RowRefs :
              <<v, real, k, ref>> # <<r.user, TRUE, "withdraw", id>> =>
                  SameRows(books, c, v, real, k, ref)
        /\ RowsOf(books, r.user, TRUE, "withdraw", id) = {} =>
              RecordedOnce(c, r.user, TRUE, "withdraw", id, delta)
    <2> DEFINE real == TRUE
    <2>1. "withdraw" \in Kinds /\ delta \in Int /\ delta # 0 /\ real \in BOOLEAN
      BY <1>2 DEF Kinds
    <2>2. c = Move(books, r.user, real, "withdraw", delta, id)
      OBVIOUS
    <2> HIDE DEF id, c, delta, real
    <2>3. Sound(books) /\ r.user \in Users /\ id \in RowRefs
      BY <1>1, <1>2, <1>3
    <2>4. /\ \A v \in Users, x \in BOOLEAN, k \in Kinds, ref \in RowRefs :
                <<v, x, k, ref>> # <<r.user, real, "withdraw", id>> =>
                    SameRows(books, c, v, x, k, ref)
          /\ RowsOf(books, r.user, real, "withdraw", id) = {} /\ delta # 0 =>
                RecordedOnce(c, r.user, real, "withdraw", id, delta)
      BY <2>1, <2>2, <2>3, MoveRecords
    <2> QED BY <2>1, <2>4, Zenon DEF real
  <1> HIDE DEF c, w, id, delta
  <1>6. \A v \in Users, real \in BOOLEAN, k \in HoldKinds, ref \in RowRefs :
           <<v, real, k, ref>> # <<r.user, TRUE, "withdraw", id>> =>
               SameRows(books, books', v, real, k, ref)
    <2>1. HoldKinds \subseteq Kinds
      BY DEF HoldKinds, Kinds
    <2>2. \A v \in Users, real \in BOOLEAN, k \in HoldKinds, ref \in RowRefs :
             <<v, real, k, ref>> # <<r.user, TRUE, "withdraw", id>> =>
                 SameRows(books, c, v, real, k, ref)
      BY <1>5, <2>1
    <2>3. ASSUME NEW v, NEW real, NEW k, NEW ref, SameRows(books, c, v, real, k, ref)
          PROVE  SameRows(books, books', v, real, k, ref)
      BY <1>4, <2>3 DEF SameRows, RowsOf
    <2> QED BY <2>2, <2>3
  <1>7. \A v \in Users, real \in BOOLEAN, k \in HoldKinds :
           RowsOf(books, v, real, k, id) = {}
    <2>1. \A v \in withdrawals : HoldId(v) # id
      BY <1>1, <1>2, <1>3 DEF Requested, HoldId, WithdrawalRows
    <2> QED BY <1>3, <2>1 DEF RowsHaveHolds
  <1>8. "withdraw" \in HoldKinds /\ "withdraw_reversed" \in HoldKinds /\ TRUE \in BOOLEAN
    BY DEF HoldKinds
  <1>9. HoldRecorded(books', w)
    <2>1. RecordedOnce(c, r.user, TRUE, "withdraw", id, delta)
      BY <1>2, <1>5, <1>7, <1>8, Zenon
    <2>2. RecordedOnce(books', r.user, TRUE, "withdraw", id, delta)
      BY <1>4, <2>1 DEF RecordedOnce, RowsOf
    <2>3. RowsOf(books', r.user, TRUE, "withdraw_reversed", id) = {}
      BY <1>2, <1>3, <1>6, <1>7, <1>8 DEF SameRows
    <2> QED BY <1>3, <2>2, <2>3 DEF HoldRecorded, RecordedOnce, id, delta
  <1>10. RowsHaveHolds'
    <2>1. ASSUME NEW v \in Users, NEW real \in BOOLEAN, NEW k \in HoldKinds,
                 NEW ref \in RowRefs, RowsOf(books', v, real, k, ref) # {}
          PROVE  \E x \in withdrawals' : ref = HoldId(x)
      <3>1. CASE ref = id
        BY <1>2, <3>1 DEF id
      <3>2. CASE ref # id
        <4>1. RowsOf(books, v, real, k, ref) # {}
          BY <1>6, <2>1, <3>2 DEF SameRows
        <4> QED BY <1>2, <4>1 DEF RowsHaveHolds
      <3> QED BY <3>1, <3>2
    <2> QED BY <2>1 DEF RowsHaveHolds
  <1>11. ASSUME NEW x \in withdrawals
         PROVE  HoldRecorded(books', x)
    <2>1. x \in WithdrawalRows /\ HoldRecorded(books, x)
      BY <1>1 DEF HoldsRecorded
    <2>2. HoldId(x) \in RowRefs /\ x.user \in Users /\ HoldId(x) # id
      BY <1>2, <1>3, <2>1, HoldIdIsRef DEF Requested, HoldId
    <2>3. \A kind \in HoldKinds : SameRows(books, books', x.user, TRUE, kind, HoldId(x))
      BY <1>6, <1>8, <2>2
    <2> QED BY <2>1, <2>3, HoldIsKept
  <1> QED BY <1>2, <1>9, <1>10, <1>11 DEF HoldsRecorded

(* A withdrawal that is paid leaves the ledger alone, and one that fails   *)
(* gets its amount back, once.                                             *)
LEMMA ClosingRecordsHold ==
    ASSUME InOrder, WithdrawalsKeyed, RowsHaveHolds, HoldsRecorded,
           NEW w \in withdrawals, SettleWithdrawal(w) \/ FailWithdrawal(w)
    PROVE  RowsHaveHolds' /\ HoldsRecorded'
  <1> DEFINE id == HoldId(w)
             failed == FailWithdrawal(w)
             x == [w EXCEPT !.status = IF failed THEN "failed" ELSE "paid"]
             c == ReleaseHold(books, w.user, w.amount)
             d == Move(c, w.user, TRUE, "withdraw_reversed", w.amount, id)
  <1>1. /\ Sound(books) /\ BankTypeOK /\ withdrawals \subseteq WithdrawalRows
        /\ HeldMatches
    BY DEF InOrder, BankTypeOK
  <1>2. /\ w \in WithdrawalRows /\ w.user \in Users /\ w.amount \in Nat \ {0}
        /\ w.status = "pending" /\ id \in RowRefs
    BY <1>1, HoldIdIsRef
       DEF WithdrawalRows, OpenStatus, SettleWithdrawal, FailWithdrawal
  <1>3. withdrawals' = (withdrawals \ {w}) \cup {x}
    BY <1>2 DEF SettleWithdrawal, FailWithdrawal, Closed
  <1>4. /\ x.user = w.user /\ x.amount = w.amount /\ HoldId(x) = id
        /\ x.status = IF failed THEN "failed" ELSE "paid"
    BY <1>2 DEF WithdrawalRows, HoldId
  <1>5. books' = IF failed THEN d ELSE c
    BY DEF SettleWithdrawal, FailWithdrawal, ReverseHold, HoldId
  <1>6. c.ledger = books.ledger
    BY DEF ReleaseHold, MoveHeld
  <1>7. Sound(c)
    <2>1. books.wallets[w.user].held >= w.amount
      BY <1>1, <1>2 DEF HeldMatches, OpenStatus
    <2> QED BY <1>1, <1>2, <2>1, ReleaseIsSound DEF Touches
  <1>8. /\ \A v \in Users, real \in BOOLEAN, k \in Kinds, ref \in RowRefs :
              <<v, real, k, ref>> # <<w.user, TRUE, "withdraw_reversed", id>> =>
                  SameRows(c, d, v, real, k, ref)
        /\ RowsOf(c, w.user, TRUE, "withdraw_reversed", id) = {} =>
              RecordedOnce(d, w.user, TRUE, "withdraw_reversed", id, w.amount)
    <2> DEFINE real == TRUE
    <2>1. /\ "withdraw_reversed" \in Kinds /\ w.amount \in Int /\ w.amount # 0
          /\ real \in BOOLEAN
      BY <1>2 DEF Kinds
    <2>2. d = Move(c, w.user, real, "withdraw_reversed", w.amount, id)
      OBVIOUS
    <2> HIDE DEF id, c, d, real
    <2>3. /\ \A v \in Users, y \in BOOLEAN, k \in Kinds, ref \in RowRefs :
                <<v, y, k, ref>> # <<w.user, real, "withdraw_reversed", id>> =>
                    SameRows(c, d, v, y, k, ref)
          /\ RowsOf(c, w.user, real, "withdraw_reversed", id) = {} /\ w.amount # 0 =>
                RecordedOnce(d, w.user, real, "withdraw_reversed", id, w.amount)
      BY <1>2, <1>7, <2>1, <2>2, MoveRecords
    <2> QED BY <2>1, <2>3, Zenon DEF real
  <1> HIDE DEF c, d, x, id, failed
  <1>9. \A v \in Users, real \in BOOLEAN, k \in HoldKinds, ref \in RowRefs :
           <<v, real, k, ref>> # <<w.user, TRUE, "withdraw_reversed", id>> =>
               SameRows(books, books', v, real, k, ref)
    <2>1. HoldKinds \subseteq Kinds
      BY DEF HoldKinds, Kinds
    <2>2. \A v \in Users, real \in BOOLEAN, k \in HoldKinds, ref \in RowRefs :
             <<v, real, k, ref>> # <<w.user, TRUE, "withdraw_reversed", id>> =>
                 SameRows(c, d, v, real, k, ref)
      BY <1>8, <2>1
    <2>3. ASSUME NEW v, NEW real, NEW k, NEW ref
          PROVE  /\ SameRows(books, c, v, real, k, ref)
                 /\ SameRows(c, d, v, real, k, ref) => SameRows(books, d, v, real, k, ref)
      BY <1>6 DEF SameRows, RowsOf
    <2> QED BY <1>5, <2>2, <2>3
  <1>10. "withdraw" \in HoldKinds /\ "withdraw_reversed" \in HoldKinds /\ TRUE \in BOOLEAN
    BY DEF HoldKinds
  <1>11. HoldRecorded(books', x)
    <2>1. /\ RecordedOnce(books, w.user, TRUE, "withdraw", id, -w.amount)
          /\ RowsOf(books, w.user, TRUE, "withdraw_reversed", id) = {}
      BY <1>2 DEF HoldsRecorded, HoldRecorded, RecordedOnce, id
    <2>2. SameRows(books, books', w.user, TRUE, "withdraw", id)
      BY <1>2, <1>9, <1>10
    <2>3. RecordedOnce(books', w.user, TRUE, "withdraw", id, -w.amount)
      BY <2>1, <2>2, SameRowsRecordTheSame, Zenon
    <2>4. RowsOf(c, w.user, TRUE, "withdraw_reversed", id) = {}
      BY <1>6, <2>1 DEF RowsOf
    <2>5. CASE failed
      <3>1. RecordedOnce(books', w.user, TRUE, "withdraw_reversed", id, w.amount)
        BY <1>5, <1>8, <2>4, <2>5, Zenon
      <3> QED BY <1>4, <2>3, <2>5, <3>1 DEF HoldRecorded
    <2>6. CASE ~failed
      <3>1. RowsOf(books', w.user, TRUE, "withdraw_reversed", id) = {}
        BY <1>5, <2>4, <2>6
      <3> QED BY <1>4, <2>3, <2>6, <3>1 DEF HoldRecorded, RecordedOnce
    <2> QED BY <2>5, <2>6
  <1>12. ASSUME NEW v \in withdrawals, v # w
         PROVE  HoldRecorded(books', v)
    <2>1. v \in WithdrawalRows /\ HoldRecorded(books, v)
      BY <1>1 DEF HoldsRecorded
    <2>2. HoldId(v) \in RowRefs /\ v.user \in Users /\ HoldId(v) # id
      BY <1>12, <2>1, HoldIdIsRef, SameHoldId DEF id
    <2>3. \A kind \in HoldKinds : SameRows(books, books', v.user, TRUE, kind, HoldId(v))
      BY <1>9, <1>10, <2>2
    <2> QED BY <2>1, <2>3, HoldIsKept
  <1>13. RowsHaveHolds'
    <2>1. ASSUME NEW v \in Users, NEW real \in BOOLEAN, NEW k \in HoldKinds,
                 NEW ref \in RowRefs, RowsOf(books', v, real, k, ref) # {}
          PROVE  \E y \in withdrawals' : ref = HoldId(y)
      <3>1. CASE ref = id
        BY <1>3, <1>4, <3>1
      <3>2. CASE ref # id
        <4>1. RowsOf(books, v, real, k, ref) # {}
          BY <1>9, <2>1, <3>2 DEF SameRows
        <4>2. PICK y \in withdrawals : ref = HoldId(y)
          BY <4>1 DEF RowsHaveHolds
        <4>3. y # w
          BY <3>2, <4>2 DEF id
        <4> QED BY <1>3, <4>2, <4>3
      <3> QED BY <3>1, <3>2
    <2> QED BY <2>1 DEF RowsHaveHolds
  <1> QED BY <1>3, <1>11, <1>12, <1>13 DEF HoldsRecorded

(* Every transaction keeps the records of the withdrawals.                 *)
LEMMA BankRecordsHolds ==
    ASSUME InOrder, WithdrawalsKeyed, RowsHaveHolds, HoldsRecorded, [BankNext]_bankVars
    PROVE  RowsHaveHolds' /\ HoldsRecorded'
  <1>1. Sound(books) /\ BankTypeOK
    BY DEF InOrder
  <1>2. ASSUME NEW r \in Requests, NEW m \in Mults, Spin(r, m)
        PROVE  RowsHaveHolds' /\ HoldsRecorded'
    <2>1. books' = SpinPosted(books, SpinRow(r, m)) /\ withdrawals' = withdrawals
      BY <1>2 DEF Spin
    <2>2. HoldRowsKept(books, books')
      BY <1>1, <1>2, <2>1, AdmittedByBank, SpinKeepsHoldRows
    <2> QED BY <1>1, <2>1, <2>2, QuietBooksKeepHolds
  <1>3. ASSUME NEW u \in Users, TopUpDemo(u) \/ CooldownElapses(u)
        PROVE  RowsHaveHolds' /\ HoldsRecorded'
    <2> DEFINE delta == DemoTarget - books.wallets[u].demo
               c == Move(books, u, FALSE, "demo_grant", delta, NoRef)
    <2>1. (books' = books \/ books' = c) /\ withdrawals' = withdrawals
      BY <1>3 DEF TopUpDemo, CooldownElapses, ToppedUp
    <2>2. delta \in Int
      BY <1>1, OpeningIsSane DEF Sound, Books
    <2>3. "demo_grant" \in Kinds \ HoldKinds /\ NoRef \in RowRefs /\ FALSE \in BOOLEAN
      BY DEF Kinds, HoldKinds, RowRefs
    <2> HIDE DEF delta
    <2>4. HoldRowsKept(books, c)
      BY <1>1, <2>2, <2>3, MoveKeepsHoldRows, Zenon
    <2> HIDE DEF c
    <2>5. HoldRowsKept(books, books')
      BY <2>1, <2>4, SameLedgerKeepsHoldRows
    <2> QED BY <1>1, <2>1, <2>5, QuietBooksKeepHolds
  <1>4. CASE UNCHANGED bankVars
    <2>1. books' = books /\ withdrawals' = withdrawals
      BY <1>4 DEF bankVars
    <2> QED BY <2>1 DEF RowsHaveHolds, HoldsRecorded
  <1> QED BY <1>2, <1>3, <1>4, RequestRecordsHold, ClosingRecordsHold DEF BankNext
-----------------------------------------------------------------------------
(* The checks, one by one. *)

Entry(u, isReal, i) ==
    [user |-> u, isReal |-> isReal, row |-> books.ledger[<<u, isReal>>][i], at |-> i]

\* Table transactions is all the ledgers.
LEMMA TransactionsAreEntries ==
    /\ \A t \in Transactions :
          \E u \in Users, isReal \in BOOLEAN :
             \E i \in 1..Len(books.ledger[<<u, isReal>>]) : t = Entry(u, isReal, i)
    /\ \A u \in Users, isReal \in BOOLEAN :
          \A i \in 1..Len(books.ledger[<<u, isReal>>]) : Entry(u, isReal, i) \in Transactions
  <1>1. ASSUME NEW t \in Transactions
        PROVE  \E u \in Users, isReal \in BOOLEAN :
                  \E i \in 1..Len(books.ledger[<<u, isReal>>]) : t = Entry(u, isReal, i)
    <2>1. PICK k \in Users \X BOOLEAN :
             t \in {[user |-> k[1], isReal |-> k[2], row |-> books.ledger[k][i], at |-> i] :
                       i \in 1..Len(books.ledger[k])}
      BY DEF Transactions
    <2>2. k[1] \in Users /\ k[2] \in BOOLEAN /\ k = <<k[1], k[2]>>
      OBVIOUS
    <2> QED BY <2>1, <2>2 DEF Entry
  <1>2. ASSUME NEW u \in Users, NEW isReal \in BOOLEAN,
               NEW i \in 1..Len(books.ledger[<<u, isReal>>])
        PROVE  Entry(u, isReal, i) \in Transactions
    <2> DEFINE k == <<u, isReal>>
    <2>1. k \in Users \X BOOLEAN /\ k[1] = u /\ k[2] = isReal
      OBVIOUS
    <2> QED BY <2>1 DEF Transactions, Entry
  <1> QED BY <1>1, <1>2

\* What every row of a ledger is.
LEMMA RowsAreTyped ==
    ASSUME BankTypeOK, NEW u \in Users, NEW isReal \in BOOLEAN,
           NEW i \in 1..Len(books.ledger[<<u, isReal>>])
    PROVE  books.ledger[<<u, isReal>>][i] \in Rows
  <1> DEFINE rows == books.ledger[<<u, isReal>>]
  <1>1. rows \in Seq(Rows)
    BY DEF BankTypeOK, Books
  <1>2. i \in 1..Len(rows)
    OBVIOUS
  <1> HIDE DEF rows
  <1>3. rows[i] \in Rows
    BY <1>1, <1>2
  <1> QED BY <1>3 DEF rows

\* The sum of one row, and of none.
LEMMA SumOfOne ==
    ASSUME NEW t, t.row.amount \in Int
    PROVE  SumOf({t}) = t.row.amount
  <1> DEFINE one == {t}
             g == [x \in one |-> x.row.amount]
             rest == [x \in one \ {t} |-> g[x]]
  <1>1. IsFiniteSet(one) /\ g \in [one -> Int] /\ t \in one
    BY FS_Singleton
  <1>2. g[t] = t.row.amount /\ rest \in [{} -> Int]
    OBVIOUS
  <1> HIDE DEF g, one
  <1>3. Total(g) = g[t] + Total(rest)
    BY <1>1, TotalSplits
  <1> HIDE DEF rest
  <1>4. Total(rest) = 0
    BY <1>2, TotalOfNothing
  <1>5. Total(g) = t.row.amount
    BY <1>2, <1>3, <1>4
  <1> QED BY <1>5 DEF SumOf, g, one

(* I1: the balances that a sound ledger records add up.                    *)
LEMMA LedgerSumsUp ==
    ASSUME Sound(books), NEW u \in Users, NEW isReal \in BOOLEAN
    PROVE  SumOf({t \in Transactions : t.user = u /\ t.isReal = isReal})
              = Spendable(books.wallets[u], isReal)
  <1> DEFINE rows == books.ledger[<<u, isReal>>]
             upto(n) == {Entry(u, isReal, i) : i \in 1..n}
             f(n) == [t \in upto(n) |-> t.row.amount]
             before(n) == IF n = 0 THEN 0 ELSE rows[n].after
             Good == {n \in Nat : n <= Len(rows) =>
                         IsFiniteSet(upto(n)) /\ Total(f(n)) = before(n)}
  <1>1. rows \in Seq(Rows) /\ Len(rows) \in Nat
    BY DEF Sound, Books
  <1>2. \A i \in 1..Len(rows) : rows[i].amount \in Int /\ rows[i].after \in Nat
    <2>1. ASSUME NEW i \in 1..Len(rows)
          PROVE  rows[i] \in Rows
      <3> HIDE DEF rows
      <3> QED BY <1>1
    <2> QED BY <2>1 DEF Rows
  <1>3. /\ \A i \in 1..Len(rows) :
              rows[i].after = (IF i = 1 THEN 0 ELSE rows[i - 1].after) + rows[i].amount
        /\ Spendable(books.wallets[u], isReal)
              = IF Len(rows) + 1 = 1 THEN 0 ELSE rows[(Len(rows) + 1) - 1].after
    BY DEF Sound, AddsUpTo
  <1>4. {t \in Transactions : t.user = u /\ t.isReal = isReal} = upto(Len(rows))
    <2>1. ASSUME NEW t \in Transactions, t.user = u, t.isReal = isReal
          PROVE  t \in upto(Len(rows))
      <3>1. PICK v \in Users, real \in BOOLEAN :
               \E i \in 1..Len(books.ledger[<<v, real>>]) : t = Entry(v, real, i)
        BY TransactionsAreEntries, Zenon
      <3>2. v = u /\ real = isReal
        BY <2>1, <3>1 DEF Entry
      <3> QED BY <3>1, <3>2
    <2>2. ASSUME NEW i \in 1..Len(rows)
          PROVE  /\ Entry(u, isReal, i) \in Transactions
                 /\ Entry(u, isReal, i).user = u /\ Entry(u, isReal, i).isReal = isReal
      BY <2>2, TransactionsAreEntries DEF Entry
    <2> QED BY <2>1, <2>2
  <1>5. \A i : Entry(u, isReal, i).row = rows[i] /\ Entry(u, isReal, i).at = i
    BY DEF Entry
  <1>6. 0 \in Good
    <2>1. upto(0) = {}
      OBVIOUS
    <2>2. f(0) \in [{} -> Int]
      BY <2>1
    <2> HIDE DEF f
    <2> QED BY <2>1, <2>2, TotalOfNothing, FS_EmptySet
  <1>7. ASSUME NEW n \in Nat, n \in Good
        PROVE  n + 1 \in Good
    <2> SUFFICES ASSUME n + 1 <= Len(rows)
                 PROVE  /\ IsFiniteSet(upto(n + 1))
                        /\ Total(f(n + 1)) = before(n + 1)
      OBVIOUS
    <2> DEFINE e == Entry(u, isReal, n + 1)
    <2>1. n + 1 \in 1..Len(rows) /\ (1..n) \cup {n + 1} = 1..(n + 1)
          /\ \A i \in 1..n : i \in 1..Len(rows) /\ i # n + 1
      BY <1>1
    <2>2. IsFiniteSet(upto(n)) /\ Total(f(n)) = before(n)
      BY <1>1, <1>7
    <2>3. upto(n + 1) = upto(n) \cup {e}
      BY <2>1
    <2>4. e \notin upto(n)
      BY <1>5, <2>1
    <2>5. /\ f(n) \in [upto(n) -> Int]
          /\ f(n + 1) \in [upto(n) \cup {e} -> Int]
          /\ \A t \in upto(n) : f(n)[t] = f(n + 1)[t]
          /\ f(n + 1)[e] = rows[n + 1].amount
      <3>1. \A t \in upto(n) \cup {e} : t.row.amount \in Int
        BY <1>2, <1>5, <2>1
      <3> HIDE DEF upto, e
      <3>2. /\ f(n) \in [upto(n) -> Int]
            /\ f(n + 1) \in [upto(n) \cup {e} -> Int]
            /\ \A t \in upto(n) : f(n)[t] = f(n + 1)[t]
            /\ f(n + 1)[e] = e.row.amount
        BY <2>3, <3>1
      <3> QED BY <1>5, <3>2 DEF e
    <2> HIDE DEF f, upto, e
    <2>6. Total(f(n + 1)) = Total(f(n)) + f(n + 1)[e]
      <3> DEFINE D == upto(n) \cup {e}
                 F == f(n)
                 G == f(n + 1)
      <3>1. /\ IsFiniteSet(D) /\ G \in [D -> Int] /\ e \in D
            /\ F = [t \in D \ {e} |-> G[t]]
        <4>1. D \ {e} = upto(n)
          BY <2>4
        <4> QED BY <2>2, <2>5, <4>1, FS_AddElement
      <3>2. Total(F) \in Int /\ G[e] \in Int
        BY <2>2, <2>5, TotalInInt
      <3> HIDE DEF D, F, G
      <3>3. IsFiniteSet(D) /\ G \in [D -> Int] /\ e \in D
        BY <3>1
      <3>4. Total(G) = G[e] + Total([t \in D \ {e} |-> G[t]])
        BY <3>3, TotalSplits
      <3>5. Total(G) = G[e] + Total(F)
        BY <3>1, <3>4
      <3> QED BY <3>2, <3>5 DEF F, G
    <2>7. rows[n + 1].after = before(n) + rows[n + 1].amount
      BY <1>3, <2>1
    <2>8. IsFiniteSet(upto(n + 1))
      BY <2>2, <2>3, FS_AddElement
    <2>9. n + 1 # 0
      OBVIOUS
    <2> QED BY <2>2, <2>5, <2>6, <2>7, <2>8, <2>9
  <1>8. \A n \in Nat : n \in Good
    <2> HIDE DEF Good
    <2> QED BY <1>6, <1>7, NatSetInduction
  <1>9. Total(f(Len(rows))) = before(Len(rows))
    <2> HIDE DEF rows, f, before, upto
    <2> QED BY <1>1, <1>8
  <1>10. before(Len(rows)) = Spendable(books.wallets[u], isReal)
    BY <1>1, <1>3
  <1> QED BY <1>4, <1>9, <1>10 DEF SumOf

(* I5: what is held, player by player, is what is open, one by one.        *)
LEMMA HoldsSumUp ==
    ASSUME InOrder, WithdrawalsKeyed
    PROVE  Total([u \in Users |-> books.wallets[u].held])
              = Total([w \in OpenWithdrawals |-> w.amount])
  <1> DEFINE mine(us) == {w \in OpenWithdrawals : w.user \in us}
             held(us) == [u \in us |-> books.wallets[u].held]
             open(us) == [w \in mine(us) |-> w.amount]
             Bad == {us \in SUBSET Users : Total(held(us)) # Total(open(us))}
  <1>1. /\ books.wallets \in [Users -> [real : Nat, demo : Nat, held : Nat]]
        /\ OpenWithdrawals \subseteq WithdrawalRows /\ IsFiniteSet(OpenWithdrawals)
    <2>1. OpenWithdrawals \subseteq withdrawals
      BY DEF OpenWithdrawals
    <2> QED BY <2>1, FS_Subset DEF InOrder, BankTypeOK, Books, WithdrawalsKeyed
  <1>2. \A us \in SUBSET Users :
           /\ IsFiniteSet(us) /\ IsFiniteSet(mine(us))
           /\ held(us) \in [us -> Int] /\ open(us) \in [mine(us) -> Int]
    <2>1. ASSUME NEW us \in SUBSET Users
          PROVE  /\ IsFiniteSet(us) /\ IsFiniteSet(mine(us))
                 /\ held(us) \in [us -> Int] /\ open(us) \in [mine(us) -> Int]
      <3>1. IsFiniteSet(us) /\ IsFiniteSet(mine(us))
        <4>1. mine(us) \subseteq OpenWithdrawals
          OBVIOUS
        <4> HIDE DEF mine
        <4> QED BY <1>1, <4>1, UsersAreIds, FS_Subset
      <3>2. \A u \in us : books.wallets[u].held \in Int
        BY <1>1
      <3>3. \A w \in mine(us) : w.amount \in Int
        BY <1>1 DEF WithdrawalRows
      <3> QED BY <3>1, <3>2, <3>3
    <2> QED BY <2>1
  <1>3. ASSUME Bad # {} PROVE FALSE
    <2>1. PICK us \in Bad : \A x \in us : us \ {x} \notin Bad
      <3>1. Bad \in SUBSET SUBSET Users
        OBVIOUS
      <3> HIDE DEF Bad
      <3> QED BY <1>3, <3>1, UsersAreIds, MinimalSet
    <2>2. CASE us = {}
      <3>1. mine(us) = {}
        BY <2>2
      <3>2. held(us) \in [{} -> Int] /\ open(us) \in [{} -> Int]
        BY <1>2, <2>2, <3>1
      <3> HIDE DEF held, open
      <3> QED BY <2>1, <3>2, TotalOfNothing
    <2>3. ASSUME NEW u \in us PROVE FALSE
      <3> DEFINE rest == us \ {u}
                 D == mine(us)
                 F == held(us)
                 G == open(us)
      <3>1. us \in SUBSET Users /\ rest \in SUBSET Users /\ u \in Users
        BY <2>1
      <3>2. Total(held(rest)) = Total(open(rest))
        BY <2>1, <2>3, <3>1
      <3>3. Total(F) = books.wallets[u].held + Total(held(rest))
        <4>1. IsFiniteSet(us) /\ F \in [us -> Int] /\ F[u] = books.wallets[u].held
          BY <1>2, <2>3, <3>1
        <4>2. [x \in us \ {u} |-> F[x]] = held(rest)
          OBVIOUS
        <4> HIDE DEF F, held, open, mine, Bad
        <4>3. Total(F) = F[u] + Total([x \in us \ {u} |-> F[x]])
          BY <2>3, <4>1, TotalSplits
        <4> QED BY <4>1, <4>2, <4>3
      <3>4. Total(G) = books.wallets[u].held + Total(open(rest))
        <4>1. CASE HasOpenWithdrawal(u)
          <5>1. PICK w \in OpenWithdrawals : w.user = u
            BY <4>1 DEF HasOpenWithdrawal, OpenWithdrawals
          <5>2. /\ books.wallets[u].held = w.amount
                /\ \A v \in OpenWithdrawals : v.user = u => v = w
            BY <5>1 DEF InOrder, HeldMatches, OpenWithdrawals
          <5>3. IsFiniteSet(D) /\ G \in [D -> Int] /\ w \in D /\ G[w] = w.amount
            BY <1>2, <2>3, <3>1, <5>1
          <5>4. D \ {w} = mine(rest)
            BY <5>1, <5>2
          <5>5. [x \in D \ {w} |-> G[x]] = open(rest)
            BY <5>4
          <5> HIDE DEF D, G, held, open, mine, Bad
          <5>6. Total(G) = G[w] + Total([x \in D \ {w} |-> G[x]])
            BY <5>3, TotalSplits
          <5> QED BY <5>2, <5>3, <5>5, <5>6
        <4>2. CASE ~HasOpenWithdrawal(u)
          <5>1. books.wallets[u].held = 0
            BY <3>1, <4>2 DEF InOrder, HeldMatches
          <5>2. mine(us) = mine(rest)
            BY <4>2 DEF HasOpenWithdrawal, OpenWithdrawals
          <5>3. G = open(rest)
            BY <5>2
          <5>4. Total(open(rest)) \in Int
            <6> HIDE DEF open, mine
            <6> QED BY <1>2, <3>1, TotalInInt
          <5> QED BY <5>1, <5>3, <5>4
        <4> QED BY <4>1, <4>2
      <3>5. Total(F) = Total(G)
        BY <3>2, <3>3, <3>4
      <3> QED BY <2>1, <3>5
    <2> QED BY <2>2, <2>3
  <1>4. Total(held(Users)) = Total(open(Users))
    <2>1. Users \notin Bad
      BY <1>3
    <2> HIDE DEF held, open
    <2> QED BY <2>1
  <1>5. mine(Users) = OpenWithdrawals
    BY <1>1 DEF WithdrawalRows
  <1> QED BY <1>4, <1>5

(* What the checks count: the rows of a kind with a reference, wherever    *)
(* they are, are those of the one ledger that has any.                     *)
LEMMA LegsAreRows ==
    ASSUME BankTypeOK, NEW u \in Users, NEW isReal \in BOOLEAN, NEW kind, NEW id,
           NEW amount \in Int, RecordedOnce(books, u, isReal, kind, id, amount),
           \A v \in Users, real \in BOOLEAN :
              <<v, real>> # <<u, isReal>> => RowsOf(books, v, real, kind, id) = {}
    PROVE  LET legs == Legs(Transactions, kind, id)
           IN IF amount = 0 THEN legs = {} /\ Cardinality(legs) = 0
              ELSE Cardinality(legs) = 1 /\ SumOf(legs) = amount
  <1> DEFINE legs == Legs(Transactions, kind, id)
  <1>1. ASSUME NEW t \in legs
        PROVE  \E i \in RowsOf(books, u, isReal, kind, id) : t = Entry(u, isReal, i)
    <2>1. t \in Transactions /\ t.row.kind = kind /\ t.row.ref = id
      BY DEF Legs
    <2>2. PICK v \in Users, real \in BOOLEAN :
             \E i \in 1..Len(books.ledger[<<v, real>>]) : t = Entry(v, real, i)
      BY <2>1, TransactionsAreEntries, Zenon
    <2>3. PICK i \in 1..Len(books.ledger[<<v, real>>]) : t = Entry(v, real, i)
      BY <2>2
    <2>4. i \in RowsOf(books, v, real, kind, id)
      BY <2>1, <2>3 DEF RowsOf, Entry
    <2>5. <<v, real>> = <<u, isReal>>
      BY <2>4
    <2> QED BY <2>3, <2>4, <2>5
  <1>2. ASSUME NEW i \in RowsOf(books, u, isReal, kind, id)
        PROVE  /\ Entry(u, isReal, i) \in legs
               /\ Entry(u, isReal, i).row = books.ledger[<<u, isReal>>][i]
    BY <1>2, TransactionsAreEntries DEF RowsOf, Entry, Legs
  <1>3. CASE amount = 0
    BY <1>1, <1>3, FS_EmptySet DEF RecordedOnce
  <1>4. CASE amount # 0
    <2>1. PICK i : /\ RowsOf(books, u, isReal, kind, id) = {i}
                   /\ books.ledger[<<u, isReal>>][i].amount = amount
      BY <1>4 DEF RecordedOnce
    <2> DEFINE t == Entry(u, isReal, i)
    <2>2. legs = {t} /\ t.row.amount = amount
      BY <1>1, <1>2, <2>1
    <2> HIDE DEF t, legs
    <2>3. Cardinality(legs) = 1 /\ SumOf(legs) = amount
      BY <2>2, FS_Singleton, SumOfOne
    <2> QED BY <1>4, <2>3 DEF legs
  <1> QED BY <1>3, <1>4

\* Rows of lawful books are where they belong.
LEMMA RowsAreTheOwners ==
    ASSUME LawfulBooks(books), NEW u \in Users, NEW isReal \in BOOLEAN, NEW kind, NEW id,
           RowsOf(books, u, isReal, kind, id) # {}
    PROVE  /\ kind \in OwnKinds => u = id[1]
           /\ kind \in {"withdraw", "withdraw_reversed", "referral"} => isReal
           /\ isReal => kind # "demo_grant"
  <1>1. PICK i \in 1..Len(books.ledger[<<u, isReal>>]) :
           /\ books.ledger[<<u, isReal>>][i].kind = kind
           /\ books.ledger[<<u, isReal>>][i].ref = id
    BY DEF RowsOf
  <1>2. Lawful(u, isReal, kind, id)
    BY <1>1 DEF LawfulBooks
  <1> QED BY <1>2 DEF Lawful

(* What I5b, I6 and I7 ask of the tables, from their records.              *)
LEMMA WithdrawalLegs ==
    ASSUME BankTypeOK, LawfulBooks(books), HoldsRecorded, NEW w \in withdrawals
    PROVE  /\ Cardinality(Legs(Transactions, "withdraw", <<w.user, w.ref>>)) = 1
           /\ Cardinality(Legs(Transactions, "withdraw_reversed", <<w.user, w.ref>>))
                 = IF w.status = "failed" THEN 1 ELSE 0
  <1> DEFINE id == HoldId(w)
             back == IF w.status = "failed" THEN w.amount ELSE 0
             legs(kind) == Legs(Transactions, kind, id)
             real == TRUE
  <1>1. /\ w.user \in Users /\ w.amount \in Nat \ {0} /\ id = <<w.user, w.ref>>
        /\ real \in BOOLEAN /\ back \in Int /\ -w.amount \in Int
        /\ -w.amount # 0 /\ (w.status = "failed" <=> back # 0)
    BY DEF BankTypeOK, WithdrawalRows, HoldId
  <1>2. /\ RecordedOnce(books, w.user, real, "withdraw", id, -w.amount)
        /\ RecordedOnce(books, w.user, real, "withdraw_reversed", id, back)
    BY DEF HoldsRecorded, HoldRecorded
  <1>3. ASSUME NEW kind \in {"withdraw", "withdraw_reversed"}, NEW v \in Users,
               NEW r \in BOOLEAN, <<v, r>> # <<w.user, real>>
        PROVE  RowsOf(books, v, r, kind, id) = {}
    <2>1. kind \in OwnKinds /\ kind \in {"withdraw", "withdraw_reversed", "referral"}
          /\ id[1] = w.user
      BY <1>1 DEF OwnKinds
    <2>2. ~(v = w.user /\ r)
      BY <1>3
    <2> QED BY <2>1, <2>2, RowsAreTheOwners
  <1> HIDE DEF real, id, back
  <1>4. IF -w.amount = 0 THEN legs("withdraw") = {} /\ Cardinality(legs("withdraw")) = 0
        ELSE Cardinality(legs("withdraw")) = 1 /\ SumOf(legs("withdraw")) = -w.amount
    BY <1>1, <1>2, <1>3, LegsAreRows
  <1>5. IF back = 0
        THEN legs("withdraw_reversed") = {} /\ Cardinality(legs("withdraw_reversed")) = 0
        ELSE Cardinality(legs("withdraw_reversed")) = 1
             /\ SumOf(legs("withdraw_reversed")) = back
    BY <1>1, <1>2, <1>3, LegsAreRows
  <1> QED BY <1>1, <1>4, <1>5

LEMMA SpinLegs ==
    ASSUME BankTypeOK, LawfulBooks(books), SpinsRecorded, NEW s \in spins
    PROVE  LET bets   == Legs(Transactions, "bet", SpinId(s))
               wins   == Legs(Transactions, "win", SpinId(s))
               payout == Payout(s.stake, s.mult)
           IN /\ Cardinality(bets) = 1 /\ SumOf(bets) = -s.stake
              /\ payout > 0 => Cardinality(wins) = 1 /\ SumOf(wins) = payout
              /\ payout = 0 => wins = {}
  <1> DEFINE id == SpinId(s)
             payout == Payout(s.stake, s.mult)
             legs(kind) == Legs(Transactions, kind, id)
             amount == -s.stake
  <1>1. /\ s \in SpinRows /\ s.user \in Users /\ s.isReal \in BOOLEAN
        /\ id[1] = s.user /\ amount \in Int /\ amount # 0
    BY StakesArePositive DEF BankTypeOK, SpinRows, SpinId
  <1>2. payout \in Nat
    <2> HIDE DEF id, legs, amount
    <2>1. s.stake \in MinStake..MaxStake /\ s.mult \in Mults
      BY <1>1 DEF SpinRows
    <2>2. s.stake \in Nat
      BY <2>1, StakesArePositive
    <2>3. s.mult \in Nat
      BY <2>1, WheelIsSane
    <2> QED BY <2>2, <2>3, PayoutInNat
  <1>3. /\ RecordedOnce(books, s.user, s.isReal, "bet", id, amount)
        /\ RecordedOnce(books, s.user, s.isReal, "win", id, payout)
        /\ \A kind \in {"bet", "win"} : RowsOf(books, s.user, ~s.isReal, kind, id) = {}
    BY DEF SpinsRecorded, SpinRecorded
  <1>4. ASSUME NEW kind \in {"bet", "win"}, NEW v \in Users, NEW r \in BOOLEAN,
               <<v, r>> # <<s.user, s.isReal>>
        PROVE  RowsOf(books, v, r, kind, id) = {}
    <2>1. CASE v = s.user
      <3>1. r = ~s.isReal
        BY <1>1, <1>4, <2>1
      <3> QED BY <1>3, <2>1, <3>1, Zenon
    <2>2. CASE v # s.user
      <3>1. kind \in OwnKinds
        BY DEF OwnKinds
      <3> QED BY <1>1, <2>2, <3>1, RowsAreTheOwners
    <2> QED BY <2>1, <2>2
  <1> HIDE DEF id, payout, amount
  <1>5. Cardinality(legs("bet")) = 1 /\ SumOf(legs("bet")) = amount
    BY <1>1, <1>3, <1>4, LegsAreRows
  <1>6. IF payout = 0 THEN legs("win") = {} /\ Cardinality(legs("win")) = 0
        ELSE Cardinality(legs("win")) = 1 /\ SumOf(legs("win")) = payout
    BY <1>1, <1>2, <1>3, <1>4, LegsAreRows
  <1> QED BY <1>2, <1>5, <1>6 DEF id, payout, amount

LEMMA ReferralRows ==
    ASSUME BankTypeOK, LawfulBooks(books), SpinsRecorded, NEW s \in spins,
           NEW t \in Transactions, t.row.kind = "referral", t.row.ref = SpinId(s)
    PROVE  /\ t.user # s.user /\ t.user = Referrer[s.user]
           /\ t.row.amount \in 1..s.stake
  <1>1. PICK u \in Users, isReal \in BOOLEAN :
           \E i \in 1..Len(books.ledger[<<u, isReal>>]) : t = Entry(u, isReal, i)
    BY TransactionsAreEntries, Zenon
  <1>2. PICK i \in 1..Len(books.ledger[<<u, isReal>>]) : t = Entry(u, isReal, i)
    BY <1>1
  <1>3. /\ t.user = u /\ t.row = books.ledger[<<u, isReal>>][i]
        /\ i \in RowsOf(books, u, isReal, "referral", SpinId(s))
    BY <1>2 DEF Entry, RowsOf
  <1>4. isReal = TRUE
    BY <1>3, RowsAreTheOwners
  <1>5. /\ s.user \in Users /\ s.isReal \in BOOLEAN /\ s.stake \in Nat
    BY StakesArePositive DEF BankTypeOK, SpinRows
  <1> DEFINE payee == Payee(s.user, s.isReal)
             commission == Commission(s.user, s.isReal, s.stake)
  <1>6. RecordedOnce(books, u, TRUE, "referral", SpinId(s),
                     IF u = payee THEN commission ELSE 0)
    BY DEF SpinsRecorded, SpinRecorded
  <1>7. u = payee /\ commission # 0 /\ t.row.amount = commission
    BY <1>3, <1>4, <1>6 DEF RecordedOnce
  <1>8. payee # s.user /\ payee = Referrer[s.user]
    <2>1. payee # NoUser
      BY <1>7, UsersAreIds
    <2> QED BY <1>5, <2>1, PayeeIsAnotherUser DEF Payee
  <1>9. commission \in Nat /\ commission <= s.stake
    <2>1. /\ Rake(s.stake) \in Nat /\ commission \in Nat
          /\ Rake(s.stake) + commission <= s.stake
      BY <1>5, SplitFitsTheStake
    <2> HIDE DEF commission
    <2> QED BY <1>5, <2>1
  <1> HIDE DEF payee, commission
  <1> QED BY <1>3, <1>5, <1>7, <1>8, <1>9

(* Tables that agree in all these ways pass every check.                   *)
LEMMA TablesAreHealthy ==
    ASSUME InOrder, WithdrawalsKeyed, SpinsRecorded, HoldsRecorded, LawfulBooks(books)
    PROVE  AlwaysHealthy
  <1> DEFINE ts == Transactions
  <1>1. BankTypeOK /\ Sound(books)
    BY DEF InOrder
  <1>2. I1(ts) = {}
    BY <1>1, LedgerSumsUp DEF I1
  <1>3. I2 = {}
    <2>1. /\ \A u \in Users : /\ books.wallets[u].real \in Nat
                              /\ books.wallets[u].demo \in Nat
                              /\ books.wallets[u].held \in Nat
          /\ books.house.bankroll \in Nat /\ books.house.rake \in Nat
      BY <1>1 DEF BankTypeOK, Books
    <2> QED BY <2>1 DEF I2
  <1>4. I3(ts) = {}
    <2>1. ASSUME NEW t \in ts
          PROVE  IF t.isReal THEN t.row.kind # "demo_grant"
                 ELSE t.row.kind \notin {"deposit", "withdraw", "withdraw_reversed", "referral"}
      <3>1. PICK u \in Users, isReal \in BOOLEAN :
               \E i \in 1..Len(books.ledger[<<u, isReal>>]) : t = Entry(u, isReal, i)
        BY <2>1, TransactionsAreEntries, Zenon
      <3>2. PICK i \in 1..Len(books.ledger[<<u, isReal>>]) : t = Entry(u, isReal, i)
        BY <3>1
      <3>3. t.isReal = isReal /\ t.row = books.ledger[<<u, isReal>>][i]
        BY <3>2 DEF Entry
      <3>4. Lawful(u, isReal, t.row.kind, t.row.ref)
        BY <3>3 DEF LawfulBooks
      <3> QED BY <3>3, <3>4 DEF Lawful
    <2> QED BY <2>1 DEF I3
  <1>5. I5 = {}
    BY HoldsSumUp DEF I5
  <1>6. I5b(ts) = {}
    BY <1>1, WithdrawalLegs DEF I5b, HoldId
  <1>7. I6(ts) = {}
    BY <1>1, SpinLegs DEF I6
  <1>8. I7(ts) = {}
    <2>1. ASSUME NEW t \in ts, t.row.kind = "referral", NEW s \in spins,
                 SpinId(s) = t.row.ref
          PROVE  /\ t.user # s.user /\ t.user = Referrer[s.user]
                 /\ t.row.amount \in 1..s.stake
      BY <1>1, <2>1, ReferralRows
    <2> QED BY <2>1 DEF I7
  <1> QED BY <1>2, <1>3, <1>4, <1>5, <1>6, <1>7, <1>8 DEF AlwaysHealthy, Invariants
-----------------------------------------------------------------------------
(* The transactions, statement by statement.                               *)

\* TypeOK without the tables.
ControlOK ==
    /\ active \in [Users -> BOOLEAN]
    /\ walletLock \in [Users -> Procs \cup {NoProc}]
    /\ userLock \in [Users -> Procs \cup {NoProc}]
    /\ houseLock \in Procs \cup {NoProc}
    /\ pc \in [Procs -> PCs]
    /\ req \in [Procs -> Requests \cup {NoReq}]
    /\ \A p \in Procs : pc[p] = "idle" <=> req[p] = NoReq
    /\ mult \in [Procs -> Mults \cup {0}]

(* A process that is not idle serves a well-formed request, and its wallet *)
(* is among those it has to lock.                                          *)
LEMMA RequestOf ==
    ASSUME ControlOK, NEW p \in Procs, pc[p] # "idle"
    PROVE  /\ req[p] \in Requests
           /\ req[p].op \in Ops /\ req[p].user \in Users /\ req[p].isReal \in BOOLEAN
           /\ req[p].amount \in Nat /\ req[p].ref \in Refs
           /\ req[p].user \in LockSet(req[p])
           /\ LockSet(req[p]) \subseteq Users
  <1>1. /\ req[p] \in Requests
        /\ req[p].op \in Ops /\ req[p].user \in Users /\ req[p].isReal \in BOOLEAN
        /\ req[p].amount \in Nat /\ req[p].ref \in Refs
    BY RequestsAreTyped DEF ControlOK
  <1>2. req[p].user \in LockSet(req[p])
    BY <1>1, UsersAreIds DEF LockSet
  <1>3. LockSet(req[p]) \subseteq Users
    BY <1>1, PayeeIsAnotherUser DEF LockSet
  <1>4. QED
    BY <1>1, <1>2, <1>3

(* WalletsLocked says what its name does.                                  *)
LEMMA LockedMeansHeld ==
    ASSUME NEW p \in Procs
    PROVE  WalletsLocked(p) <=> \A u \in LockSet(req[p]) : walletLock[u] = p
  BY DEF WalletsLocked, Unlocked

-----------------------------------------------------------------------------
\* Nobody is closing the withdrawal that q closes.
Uncontested(q) ==
    \A r \in Procs \ {q} : Closing(q) /\ Closing(r)' =>
        <<req[q].user, req[q].ref>> # <<req'[r].user, req'[r].ref>>

(* What a step has to leave alone for the transaction of q not to notice.  *)
Frame(q) ==
    /\ pc'[q] = pc[q] /\ req'[q] = req[q] /\ mult'[q] = mult[q]
    /\ \A u \in Users : walletLock[u] = q =>
          walletLock'[u] = q /\ books'.wallets[u] = books.wallets[u]
    /\ \A u \in Users : userLock[u] = q => userLock'[u] = q /\ (cooling'[u] => cooling[u])
    /\ houseLock = q => houseLock' = q /\ books'.house = books.house
    /\ \A s \in spins' \ spins : walletLock[s.user] # q
    /\ \A w \in withdrawals' \ withdrawals : walletLock[w.user] # q
    /\ Closing(q) => WithdrawalRow(req[q]) \in withdrawals'
    /\ Uncontested(q)

(* A transaction whose locked rows are left alone keeps its invariant.     *)
LEMMA FrameKeeps ==
    ASSUME IInv, NEW q \in Procs, Frame(q)
    PROVE  TxInv(q)'
  <1>1. CASE pc[q] = "idle"
    BY <1>1 DEF TxInv, SpinInv, TopUpInv, WithdrawalInv, ClosingInv, Serving, Closing, Frame
  <1>2. CASE pc[q] # "idle"
    <2>1. ControlOK /\ TxInv(q)
      BY DEF IInv, TypeOK, ControlOK
    <2>2. req[q].user \in Users /\ req[q].user \in LockSet(req[q])
          /\ LockSet(req[q]) \subseteq Users
      BY <1>2, <2>1, RequestOf
    <2>3. WalletsLocked(q) <=> \A u \in LockSet(req[q]) : walletLock[u] = q
      BY LockedMeansHeld
    <2>4. WalletsLocked(q)' <=> \A u \in LockSet(req'[q]) : walletLock'[u] = q
      BY DEF WalletsLocked, Unlocked
    <2>5. /\ pc'[q] = pc[q] /\ req'[q] = req[q] /\ mult'[q] = mult[q]
          /\ \A op \in Ops : Serving(q, op)' <=> Serving(q, op)
          /\ Closing(q)' <=> Closing(q)
      BY DEF Frame, Serving, Closing
    <2>6. WalletsLocked(q) =>
             /\ WalletsLocked(q)'
             /\ walletLock[req[q].user] = q
             /\ books'.wallets[req[q].user] = books.wallets[req[q].user]
      BY <2>2, <2>3, <2>4, <2>5 DEF Frame
    <2>7. (pc[q] \notin {"idle", "wallets"} => WalletsLocked(q))'
      BY <2>1, <2>5, <2>6 DEF TxInv
    <2>8. SpinInv(q)'
      <3>1. ASSUME WalletsLocked(q), ~Played(req[q].user, req[q].ref)
            PROVE  ~Played(req[q].user, req[q].ref)'
        BY <2>5, <2>6, <3>1 DEF Frame, Played
      <3>2. QED
        BY <1>2, <2>1, <2>5, <2>6, <3>1 DEF SpinInv, TxInv, Frame, Serving
    <2>9. TopUpInv(q)'
      BY <2>1, <2>2, <2>5 DEF TopUpInv, TxInv, Frame, Serving
    <2>10. WithdrawalInv(q)'
      <3>1. ASSUME WalletsLocked(q), ~Requested(req[q].user, req[q].ref),
                   ~HasOpenWithdrawal(req[q].user)
            PROVE  /\ ~Requested(req[q].user, req[q].ref)'
                   /\ ~HasOpenWithdrawal(req[q].user)'
        BY <2>5, <2>6, <3>1 DEF Frame, Requested, HasOpenWithdrawal
      <3>2. QED
        BY <2>1, <2>5, <2>6, <3>1 DEF WithdrawalInv, TxInv, Frame, Serving, MoveFits
    <2>11. ClosingInv(q)'
      BY <2>1, <2>5 DEF ClosingInv, TxInv, Frame, Uncontested
    <2>12. QED
      BY <2>1, <2>5, <2>7, <2>8, <2>9, <2>10, <2>11 DEF TxInv
  <1>3. QED
    BY <1>1, <1>2

(* A step of p touches no variable of another process and none of its locks. *)
OnlyOf(p) ==
    \A q \in Procs \ {p} :
        /\ pc'[q] = pc[q] /\ req'[q] = req[q] /\ mult'[q] = mult[q]
        /\ \A u \in Users : /\ walletLock[u] = q => walletLock'[u] = q
                            /\ userLock[u] = q => userLock'[u] = q
        /\ houseLock = q => houseLock' = q

\* p does not start to close a withdrawal that another process is closing.
ClosingApart(p) ==
    \A q \in Procs \ {p} : Closing(q) /\ Closing(p)' =>
        <<req[q].user, req[q].ref>> # <<req'[p].user, req'[p].ref>>

(* No two processes close the same withdrawal after such a step either.    *)
LEMMA ClosingsStayApart ==
    ASSUME IInv, NEW p \in Procs, OnlyOf(p), ClosingApart(p), NEW q \in Procs \ {p}
    PROVE  Uncontested(q)
  <1> SUFFICES ASSUME NEW r \in Procs \ {q}, Closing(q), Closing(r)'
               PROVE  <<req[q].user, req[q].ref>> # <<req'[r].user, req'[r].ref>>
    BY DEF Uncontested
  <1>1. CASE r = p
    BY <1>1 DEF ClosingApart
  <1>2. CASE r # p
    BY <1>2 DEF OnlyOf, Closing, Serving, IInv, TxInv, ClosingInv
  <1>3. QED
    BY <1>1, <1>2

(* A step inside a transaction, one that changes no table.                 *)
LEMMA QuietStep ==
    ASSUME IInv, NEW p \in Procs, UNCHANGED bankVars, ControlOK', OnlyOf(p),
           ClosingApart(p), TxInv(p)'
    PROVE  IInv'
  <1>1. UNCHANGED <<books, spins, cooling, withdrawals>>
    BY DEF bankVars
  <1>2. ASSUME NEW q \in Procs \ {p}
        PROVE  TxInv(q)'
    <2>1. Closing(q) => WithdrawalRow(req[q]) \in withdrawals'
      BY <1>1 DEF IInv, TxInv, ClosingInv
    <2>2. Uncontested(q)
      BY ClosingsStayApart
    <2>3. /\ pc'[q] = pc[q] /\ req'[q] = req[q] /\ mult'[q] = mult[q]
          /\ \A u \in Users : /\ walletLock[u] = q => walletLock'[u] = q
                              /\ userLock[u] = q => userLock'[u] = q
          /\ houseLock = q => houseLock' = q
      BY DEF OnlyOf
    <2>4. Frame(q)
      BY <1>1, <2>1, <2>2, <2>3 DEF Frame
    <2>5. QED
      BY <2>4, FrameKeeps
  <1>3. TypeOK'
    BY <1>1 DEF IInv, TypeOK, BankTypeOK, ControlOK
  <1>4. Sound(books)' /\ RefPlayedOnce' /\ HeldMatches'
    BY <1>1 DEF IInv, RefPlayedOnce, HeldMatches, HasOpenWithdrawal
  <1>5. QED
    BY <1>2, <1>3, <1>4 DEF IInv

(* COMMIT and ROLLBACK leave p idle, without a lock, and nothing else.     *)
LEMMA EndFacts ==
    ASSUME ControlOK, NEW p \in Procs, End(p)
    PROVE  ControlOK' /\ OnlyOf(p) /\ ClosingApart(p) /\ TxInv(p)' /\ pc'[p] = "idle"
  <1>1. pc'[p] = "idle" /\ req'[p] = NoReq
    BY DEF End, Goto, ControlOK
  <1>2. ControlOK'
    BY ProcsAreNotNoProc, NoReqIsNone DEF End, Goto, ControlOK, PCs
  <1>3. OnlyOf(p)
    BY DEF End, Goto, ControlOK, OnlyOf
  <1>4. TxInv(p)' /\ ClosingApart(p)
    BY <1>1 DEF TxInv, SpinInv, TopUpInv, WithdrawalInv, ClosingInv, Serving, Closing,
               ClosingApart
  <1>5. QED
    BY <1>1, <1>2, <1>3, <1>4

(* A transaction that rolls back leaves the tables and the others alone.   *)
LEMMA AbandonKeeps ==
    ASSUME IInv, NEW p \in Procs, Abandon(p)
    PROVE  IInv'
  <1>1. ControlOK
    BY DEF IInv, TypeOK, ControlOK
  <1>2. QED
    BY <1>1, EndFacts, QuietStep DEF Abandon

(* What a commit may write: rows of wallets it has locked, the house if it *)
(* has locked it, a cooldown it has claimed, and rows of its own player.   *)
OwnWrites(p) ==
    /\ \A u \in Users : walletLock[u] # p => books'.wallets[u] = books.wallets[u]
    /\ houseLock # p => books'.house = books.house
    /\ \A u \in Users : userLock[u] # p => cooling'[u] = cooling[u]
    /\ \A s \in spins' \ spins : walletLock[s.user] = p
    /\ \A w \in withdrawals' \ withdrawals : walletLock[w.user] = p
    /\ \A q \in Procs \ {p} : Closing(q) => WithdrawalRow(req[q]) \in withdrawals'

(* The commit of p, when it leaves the tables in order.                    *)
LEMMA CommitStep ==
    ASSUME IInv, NEW p \in Procs, End(p), OwnWrites(p),
           BankTypeOK', Sound(books)', RefPlayedOnce', HeldMatches'
    PROVE  IInv'
  <1>1. ControlOK
    BY DEF IInv, TypeOK, ControlOK
  <1>2. ControlOK' /\ OnlyOf(p) /\ ClosingApart(p) /\ TxInv(p)'
    BY <1>1, EndFacts
  <1>3. ASSUME NEW q \in Procs \ {p}
        PROVE  TxInv(q)'
    <2>1. Uncontested(q)
      BY <1>2, ClosingsStayApart
    <2>2. /\ pc'[q] = pc[q] /\ req'[q] = req[q] /\ mult'[q] = mult[q]
          /\ \A u \in Users : /\ walletLock[u] = q => walletLock'[u] = q
                              /\ userLock[u] = q => userLock'[u] = q
          /\ houseLock = q => houseLock' = q
      BY <1>2 DEF OnlyOf
    <2>3. q # p /\ p # NoProc /\ q # NoProc
      BY ProcsAreNotNoProc
    <2>4. /\ \A u \in Users : walletLock[u] = q => books'.wallets[u] = books.wallets[u]
          /\ \A u \in Users : userLock[u] = q => (cooling'[u] => cooling[u])
          /\ houseLock = q => books'.house = books.house
          /\ \A s \in spins' \ spins : walletLock[s.user] # q
          /\ \A w \in withdrawals' \ withdrawals : walletLock[w.user] # q
          /\ Closing(q) => WithdrawalRow(req[q]) \in withdrawals'
      BY <2>3 DEF OwnWrites
    <2>5. Frame(q)
      BY <2>1, <2>2, <2>4 DEF Frame
    <2>6. QED
      BY <2>5, FrameKeeps
  <1>4. TypeOK'
    BY <1>2 DEF TypeOK, ControlOK
  <1>5. QED
    BY <1>2, <1>3, <1>4 DEF IInv
-----------------------------------------------------------------------------
(* The invariant holds at the start.                                       *)
LEMMA InitEstablishes == Init => IInv
  <1> SUFFICES ASSUME Init PROVE IInv
    OBVIOUS
  <1>1. Sound(books) /\ books \in Books
    BY OpenedIsSound, OpeningIsSane DEF Init, BankInit, Sound
  <1>2. TypeOK
    BY <1>1 DEF Init, BankInit, TypeOK, BankTypeOK, PCs
  <1>3. \A u \in Users : books.wallets[u].held = 0
    BY DEF Init, BankInit, Opened
  <1>4. RefPlayedOnce /\ HeldMatches
    BY <1>3 DEF Init, BankInit, RefPlayedOnce, HeldMatches
  <1>5. ASSUME NEW p \in Procs
        PROVE  TxInv(p)
    BY DEF Init, TxInv, SpinInv, TopUpInv, WithdrawalInv, ClosingInv, Serving, Closing
  <1>6. QED
    BY <1>1, <1>2, <1>4, <1>5 DEF IInv

(* Opening a transaction leaves the others and every lock alone.           *)
LEMMA OpenFacts ==
    ASSUME ControlOK, NEW p \in Procs, NEW r \in Requests, Open(p, r),
           UNCHANGED <<active, walletLock, houseLock, mult>>,
           \/ UNCHANGED userLock
           \/ userLock[r.user] = NoProc /\ userLock' = [userLock EXCEPT ![r.user] = p]
    PROVE  /\ ControlOK' /\ OnlyOf(p)
           /\ pc'[p] = "wallets" /\ req'[p] = r
  <1>1. pc' = [pc EXCEPT ![p] = "wallets"] /\ req' = [req EXCEPT ![p] = r]
    BY DEF Open, Goto
  <1>2. r # NoReq /\ r.user \in Users
    BY NoReqIsNone, RequestsAreTyped
  <1>3. ControlOK'
    BY <1>1, <1>2 DEF ControlOK, PCs
  <1>4. OnlyOf(p)
    BY <1>1, <1>2, ProcsAreNotNoProc DEF ControlOK, OnlyOf
  <1>5. QED
    BY <1>1, <1>3, <1>4 DEF ControlOK

(* The four ways a transaction begins.                                     *)
LEMMA BeginKeeps ==
    ASSUME IInv, NEW p \in Procs, Begin(p)
    PROVE  IInv'
  <1>1. ControlOK
    BY DEF IInv, TypeOK, ControlOK
  <1>2. PICK r \in Requests :
          BeginSpin(p, r) \/ ClaimTopUp(p, r) \/ BeginWithdrawal(p, r) \/ BeginClosing(p, r)
    BY DEF Begin
  <1>3. r.user \in Users /\ r.op \in Ops
    BY RequestsAreTyped
  <1> USE DEF TxInv, SpinInv, TopUpInv, WithdrawalInv, ClosingInv, ClosingApart,
              Closing, Serving, lockVars
  <1>4. CASE BeginSpin(p, r)
    <2>1. ControlOK' /\ OnlyOf(p) /\ pc'[p] = "wallets" /\ req'[p] = r
      BY <1>1, <1>4, OpenFacts DEF BeginSpin
    <2>2. TxInv(p)' /\ ClosingApart(p)
      BY <1>4, <2>1 DEF BeginSpin
    <2>3. QED
      BY <1>4, <2>1, <2>2, QuietStep DEF BeginSpin
  <1>5. CASE ClaimTopUp(p, r)
    <2>1. ControlOK' /\ OnlyOf(p) /\ pc'[p] = "wallets" /\ req'[p] = r
      BY <1>1, <1>5, OpenFacts DEF ClaimTopUp
    <2>2. TxInv(p)' /\ ClosingApart(p)
      BY <1>1, <1>3, <1>5, <2>1 DEF ClaimTopUp, bankVars, ControlOK
    <2>3. QED
      BY <1>5, <2>1, <2>2, QuietStep DEF ClaimTopUp
  <1>6. CASE BeginWithdrawal(p, r)
    <2>1. ControlOK' /\ OnlyOf(p) /\ pc'[p] = "wallets" /\ req'[p] = r
      BY <1>1, <1>6, OpenFacts DEF BeginWithdrawal
    <2>2. TxInv(p)' /\ ClosingApart(p)
      BY <1>6, <2>1 DEF BeginWithdrawal
    <2>3. QED
      BY <1>6, <2>1, <2>2, QuietStep DEF BeginWithdrawal
  <1>7. CASE BeginClosing(p, r)
    <2>1. ControlOK' /\ OnlyOf(p) /\ pc'[p] = "wallets" /\ req'[p] = r
      BY <1>1, <1>7, OpenFacts DEF BeginClosing
    <2>2. TxInv(p)' /\ ClosingApart(p)
      BY <1>7, <2>1 DEF BeginClosing, bankVars, OnlyOf
    <2>3. QED
      BY <1>7, <2>1, <2>2, QuietStep DEF BeginClosing
  <1>8. QED
    BY <1>2, <1>4, <1>5, <1>6, <1>7
-----------------------------------------------------------------------------
(* A step that moves p on inside its transaction, taking at most locks and *)
(* a draw: p's own part of the invariant is all there is to check.         *)
LEMMA MidStep ==
    ASSUME IInv, NEW p \in Procs, pc[p] # "idle",
           NEW where \in PCs \ {"idle"}, pc' = [pc EXCEPT ![p] = where],
           UNCHANGED <<books, spins, cooling, withdrawals, active, req>>,
           walletLock' \in [Users -> Procs \cup {NoProc}],
           \A u \in Users : walletLock'[u] = walletLock[u] \/ walletLock[u] = NoProc,
           UNCHANGED userLock,
           houseLock' = houseLock \/ (houseLock = NoProc /\ houseLock' = p),
           mult' = mult \/ \E m \in Mults : mult' = [mult EXCEPT ![p] = m],
           TxInv(p)'
    PROVE  IInv'
  <1>1. ControlOK
    BY DEF IInv, TypeOK, ControlOK
  <1>2. ControlOK'
    BY <1>1 DEF ControlOK
  <1>3. OnlyOf(p)
    BY <1>1, ProcsAreNotNoProc DEF ControlOK, OnlyOf
  <1>4. ClosingApart(p)
    BY DEF ClosingApart, Closing, Serving, IInv, TxInv, ClosingInv
  <1>5. UNCHANGED bankVars
    BY DEF bankVars
  <1>6. QED
    BY <1>2, <1>3, <1>4, <1>5, QuietStep

(* What is known before a step of p, in one place.                         *)
LEMMA Before ==
    ASSUME IInv, NEW p \in Procs, pc[p] # "idle"
    PROVE  /\ ControlOK /\ TxInv(p)
           /\ books \in Books
           /\ req[p] \in Requests /\ req[p].user \in Users /\ req[p].op \in Ops
           /\ req[p].amount \in Nat /\ req[p].isReal \in BOOLEAN
           /\ req[p].ref \in Refs
           /\ req[p].user \in LockSet(req[p]) /\ LockSet(req[p]) \subseteq Users
  <1>1. ControlOK /\ TxInv(p) /\ books \in Books
    BY DEF IInv, TypeOK, ControlOK, Sound
  <1>2. QED
    BY <1>1, RequestOf

(* Locking one more wallet.                                                *)
LEMMA LockWalletKeeps ==
    ASSUME IInv, NEW p \in Procs, LockWallet(p)
    PROVE  IInv'
  <1>1. pc[p] = "wallets" /\ pc' = pc /\ pc[p] # "idle"
    BY DEF LockWallet
  <1>2. ControlOK /\ TxInv(p)
    BY <1>1, Before
  <1>3. pc' = [pc EXCEPT ![p] = "wallets"] /\ "wallets" \in PCs \ {"idle"}
    BY <1>1, <1>2 DEF ControlOK, PCs
  <1>4. /\ walletLock' \in [Users -> Procs \cup {NoProc}]
        /\ \A u \in Users : walletLock'[u] = walletLock[u] \/ walletLock[u] = NoProc
    BY <1>2 DEF LockWallet, ControlOK
  <1>5. UNCHANGED <<books, spins, cooling, withdrawals, active, req, userLock, houseLock, mult>>
    BY DEF LockWallet, bankVars
  <1>6. TxInv(p)'
    <2>1. SpinInv(p)'
      BY <1>1, <1>2, <1>5 DEF TxInv, SpinInv, Serving
    <2>2. TopUpInv(p)' /\ WithdrawalInv(p)'
      BY <1>1, <1>2, <1>5 DEF TxInv, TopUpInv, WithdrawalInv, Serving
    <2>3. ClosingInv(p)'
      BY <1>1, <1>2, <1>5 DEF TxInv, ClosingInv, Closing, Serving
    <2>4. pc'[p] = "wallets"
      BY <1>1
    <2>5. QED
      BY <2>1, <2>2, <2>3, <2>4 DEF TxInv
  <1>7. QED
    BY <1>1, <1>3, <1>4, <1>5, <1>6, MidStep

(* The funds check: what it saw stays true while the wallet is locked.     *)
LEMMA CheckFundsKeeps ==
    ASSUME IInv, NEW p \in Procs, CheckFunds(p)
    PROVE  IInv'
  <1>1. pc[p] = "wallets" /\ pc[p] # "idle" /\ req[p].op = "spin" /\ WalletsLocked(p)
    BY DEF CheckFunds, Serving
  <1>2. ControlOK /\ TxInv(p) /\ req[p].isReal \in BOOLEAN
    BY <1>1, Before
  <1>3. CASE Abandon(p)
    BY <1>3, AbandonKeeps
  <1>4. CASE ~Abandon(p)
    <2> DEFINE where == IF req[p].isReal THEN "house" ELSE "draw"
    <2>1. /\ pc' = [pc EXCEPT ![p] = where] /\ where \in PCs \ {"idle"}
          /\ UNCHANGED <<bankVars, active, lockVars, req, mult>>
          /\ Spendable(books.wallets[req[p].user], req[p].isReal) >= req[p].amount
      BY <1>4 DEF CheckFunds, Goto, PCs
    <2>2. /\ UNCHANGED <<books, spins, cooling, withdrawals, active, req, walletLock, userLock,
                         houseLock, mult>>
          /\ IF req[p].isReal THEN pc'[p] = "house" ELSE pc'[p] = "draw"
      BY <1>2, <2>1 DEF bankVars, lockVars, ControlOK
    <2>3. TxInv(p)'
      <3> HIDE DEF where
      <3>1. WalletsLocked(p)'
        BY <1>1, <2>2 DEF WalletsLocked, Unlocked
      <3>2. SpinInv(p)'
        BY <1>1, <1>2, <2>1, <2>2 DEF TxInv, SpinInv, Serving
      <3>3. TopUpInv(p)' /\ WithdrawalInv(p)' /\ ClosingInv(p)'
        BY <1>1, <2>2 DEF TopUpInv, WithdrawalInv, ClosingInv, Closing, Serving
      <3>4. QED
        BY <2>2, <3>1, <3>2, <3>3 DEF TxInv
    <2>4. walletLock' \in [Users -> Procs \cup {NoProc}]
      BY <1>2, <2>2 DEF ControlOK
    <2>5. QED
      BY <1>1, <2>1, <2>2, <2>3, <2>4, MidStep
  <1>5. QED
    BY <1>3, <1>4

(* Admission control, with the house locked from here to the commit.       *)
LEMMA LockHouseKeeps ==
    ASSUME IInv, NEW p \in Procs, LockHouse(p)
    PROVE  IInv'
  <1>1. pc[p] = "house" /\ pc[p] # "idle" /\ houseLock = NoProc
    BY DEF LockHouse
  <1>2. ControlOK /\ TxInv(p) /\ req[p].op \in Ops
    BY <1>1, Before
  <1>3. CASE Abandon(p)
    BY <1>3, AbandonKeeps
  <1>4. CASE ~Abandon(p)
    <2>1. /\ pc' = [pc EXCEPT ![p] = "draw"] /\ "draw" \in PCs \ {"idle"}
          /\ houseLock' = p
          /\ UNCHANGED <<bankVars, active, walletLock, userLock, req, mult>>
          /\ books.house.bankroll >= MaxExposure(req[p].amount)
      BY <1>4 DEF LockHouse, Goto, PCs
    <2>2. /\ UNCHANGED <<books, spins, cooling, withdrawals>>
          /\ pc'[p] = "draw"
      BY <1>2, <2>1 DEF bankVars, ControlOK
    <2>3. TxInv(p)'
      <3>1. WalletsLocked(p)'
        BY <1>1, <1>2, <2>1 DEF WalletsLocked, Unlocked, TxInv
      <3>2. QED
        BY <1>1, <1>2, <2>1, <2>2, <3>1 DEF TxInv, SpinInv, TopUpInv, WithdrawalInv,
            ClosingInv, Closing, Serving, Ops
    <2>4. walletLock' \in [Users -> Procs \cup {NoProc}]
      BY <1>2, <2>1 DEF ControlOK
    <2>5. QED
      BY <1>1, <2>1, <2>2, <2>3, <2>4, MidStep
  <1>5. QED
    BY <1>3, <1>4

(* The draw: nobody else can play this key while the wallet is locked.     *)
LEMMA DrawKeeps ==
    ASSUME IInv, NEW p \in Procs, Draw(p)
    PROVE  IInv'
  <1>1. pc[p] = "draw" /\ pc[p] # "idle"
    BY DEF Draw
  <1>2. ControlOK /\ TxInv(p) /\ req[p].op \in Ops
    BY <1>1, Before
  <1>3. CASE Abandon(p)
    BY <1>3, AbandonKeeps
  <1>4. CASE ~Abandon(p)
    <2>1. /\ pc' = [pc EXCEPT ![p] = "post"] /\ "post" \in PCs \ {"idle"}
          /\ UNCHANGED <<bankVars, active, lockVars, req>>
          /\ ~Played(req[p].user, req[p].ref)
      BY <1>4 DEF Draw, Goto, PCs
    <2>2. PICK m \in Mults : mult' = [mult EXCEPT ![p] = m]
      BY <1>4 DEF Draw
    <2>3. /\ UNCHANGED <<books, spins, cooling, withdrawals, active, req, walletLock, userLock,
                         houseLock>>
          /\ pc'[p] = "post" /\ mult'[p] \in Mults
      BY <1>2, <2>1, <2>2 DEF bankVars, lockVars, ControlOK
    <2>4. TxInv(p)'
      <3>1. WalletsLocked(p)' /\ ~Played(req[p].user, req[p].ref)'
        BY <1>1, <1>2, <2>1, <2>3 DEF WalletsLocked, Unlocked, TxInv, Played
      <3>2. QED
        BY <1>1, <1>2, <2>3, <3>1 DEF TxInv, SpinInv, TopUpInv, WithdrawalInv,
            ClosingInv, Closing, Serving, Ops
    <2>5. walletLock' \in [Users -> Procs \cup {NoProc}]
      BY <1>2, <2>3 DEF ControlOK
    <2>6. QED
      BY <1>1, <2>1, <2>2, <2>3, <2>4, <2>5, MidStep
  <1>5. QED
    BY <1>3, <1>4

(* A spin that was admitted and drawn meets none of the CHECKs: "unreachable *)
(* in correct operation" (MoveHouse).                                      *)
LEMMA AdmittedFits ==
    ASSUME IInv, NEW p \in Procs, pc[p] \in {"post", "commit"}, Serving(p, "spin")
    PROVE  Drawn(p) \in SpinRows /\ SpinFits(books, Drawn(p))
  <1> DEFINE r == req[p]
             s == Drawn(p)
  <1>1. /\ TxInv(p) /\ books \in Books
        /\ r.user \in Users /\ r.amount \in Nat /\ r.isReal \in BOOLEAN /\ r.ref \in Refs
    BY Before DEF Serving
  <1>2. /\ r.amount \in MinStake..MaxStake /\ mult[p] \in Mults
        /\ Spendable(books.wallets[r.user], r.isReal) >= r.amount
        /\ r.isReal => books.house.bankroll >= MaxExposure(r.amount)
    BY <1>1 DEF TxInv, SpinInv
  <1>3. /\ s \in SpinRows /\ s.user = r.user /\ s.isReal = r.isReal
        /\ s.stake = r.amount
    BY <1>1, <1>2 DEF Drawn, SpinRow, SpinRows
  <1> HIDE DEF r, s
  <1>4. /\ books.house.bankroll \in Nat /\ books.house.rake \in Nat
        /\ Spendable(books.wallets[r.user], r.isReal) \in Nat
    BY <1>1 DEF Books, Spendable
  <1>5. MoveFits(books, s.user, s.isReal, -s.stake)
    BY <1>1, <1>2, <1>3, <1>4 DEF MoveFits
  <1>6. Rake(s.stake) \in Nat
    BY <1>1, <1>3, SplitFitsTheStake
  <1>7. ASSUME s.isReal
        PROVE  books.house.bankroll + HouseDelta(s) >= 0
    BY <1>2, <1>3, <1>4, <1>7, AdmittedSpinSettles
  <1>8. QED
    BY <1>3, <1>4, <1>5, <1>6, <1>7 DEF SpinFits, s

(* The statements of a spin go through, so it goes on to its commit.       *)
LEMMA PostSpinKeeps ==
    ASSUME IInv, NEW p \in Procs, PostSpin(p)
    PROVE  IInv'
  <1>1. pc[p] = "post" /\ pc[p] # "idle"
    BY DEF PostSpin
  <1>2. ControlOK /\ TxInv(p) /\ req[p].op \in Ops
    BY <1>1, Before
  <1>3. Serving(p, "spin")
    BY <1>1, <1>2 DEF TxInv, TopUpInv, WithdrawalInv, ClosingInv, Closing, Serving, Ops
  <1>4. SpinFits(books, Drawn(p))
    BY <1>1, <1>3, AdmittedFits
  <1>5. /\ pc' = [pc EXCEPT ![p] = "commit"] /\ "commit" \in PCs \ {"idle"}
        /\ UNCHANGED <<bankVars, active, lockVars, req, mult>>
    BY <1>4 DEF PostSpin, Goto, PCs
  <1>6. /\ UNCHANGED <<books, spins, cooling, withdrawals, active, req, walletLock, userLock,
                       houseLock, mult>>
        /\ pc'[p] = "commit"
    BY <1>2, <1>5 DEF bankVars, lockVars, ControlOK
  <1>7. TxInv(p)'
    <2>1. WalletsLocked(p)' /\ (~Played(req[p].user, req[p].ref) =>
                                  ~Played(req[p].user, req[p].ref)')
      BY <1>1, <1>2, <1>6 DEF WalletsLocked, Unlocked, TxInv, Played
    <2>2. SpinInv(p)'
      BY <1>1, <1>2, <1>3, <1>6, <2>1 DEF TxInv, SpinInv, Serving
    <2>3. TopUpInv(p)' /\ WithdrawalInv(p)' /\ ClosingInv(p)'
      BY <1>3, <1>6 DEF TopUpInv, WithdrawalInv, ClosingInv, Closing, Serving
    <2>4. QED
      BY <1>6, <2>1, <2>2, <2>3 DEF TxInv
  <1>8. walletLock' \in [Users -> Procs \cup {NoProc}]
    BY <1>2, <1>6 DEF ControlOK
  <1>9. QED
    BY <1>1, <1>5, <1>6, <1>7, <1>8, MidStep

(* The checks of a withdrawal request stay true while its wallet is locked. *)
LEMMA PostWithdrawalKeeps ==
    ASSUME IInv, NEW p \in Procs, PostWithdrawal(p)
    PROVE  IInv'
  <1>1. pc[p] = "wallets" /\ pc[p] # "idle" /\ Serving(p, "withdraw") /\ WalletsLocked(p)
    BY DEF PostWithdrawal
  <1>2. ControlOK /\ TxInv(p)
    BY <1>1, Before
  <1>3. CASE Abandon(p)
    BY <1>3, AbandonKeeps
  <1>4. CASE ~Abandon(p)
    <2> DEFINE r == req[p]
    <2>1. /\ pc' = [pc EXCEPT ![p] = "commit"] /\ "commit" \in PCs \ {"idle"}
          /\ UNCHANGED <<bankVars, active, lockVars, req, mult>>
          /\ MoveFits(books, r.user, TRUE, -r.amount)
          /\ ~HasOpenWithdrawal(r.user) /\ ~Requested(r.user, r.ref)
      BY <1>4 DEF PostWithdrawal, Goto, PCs
    <2>2. /\ UNCHANGED <<books, spins, cooling, withdrawals, active, req, walletLock, userLock,
                         houseLock, mult>>
          /\ pc'[p] = "commit"
      BY <1>2, <2>1 DEF bankVars, lockVars, ControlOK
    <2>3. TxInv(p)'
      <3>1. /\ WalletsLocked(p)' /\ ~HasOpenWithdrawal(r.user)' /\ ~Requested(r.user, r.ref)'
            /\ MoveFits(books, r.user, TRUE, -r.amount)'
        BY <1>1, <2>1, <2>2 DEF WalletsLocked, Unlocked, HasOpenWithdrawal, Requested, MoveFits
      <3>2. WithdrawalInv(p)'
        BY <1>1, <1>2, <2>2, <3>1 DEF TxInv, WithdrawalInv, Serving
      <3>3. SpinInv(p)' /\ TopUpInv(p)' /\ ClosingInv(p)'
        BY <1>1, <2>2 DEF TopUpInv, SpinInv, ClosingInv, Closing, Serving
      <3>4. QED
        BY <2>2, <3>1, <3>2, <3>3 DEF TxInv
    <2>4. walletLock' \in [Users -> Procs \cup {NoProc}]
      BY <1>2, <2>2 DEF ControlOK
    <2>5. QED
      BY <1>1, <2>1, <2>2, <2>3, <2>4, MidStep
  <1>5. QED
    BY <1>3, <1>4

(* The hold of the withdrawal a process closes is there to be dropped.     *)
LEMMA ClosingHasItsHold ==
    ASSUME IInv, NEW p \in Procs, Closing(p)
    PROVE  books.wallets[req[p].user].held = req[p].amount
  <1>1. WithdrawalRow(req[p]) \in withdrawals
    BY DEF IInv, TxInv, ClosingInv
  <1>2. QED
    BY <1>1 DEF IInv, HeldMatches, WithdrawalRow, OpenStatus

(* "Hold accounting is corrupt" is never reached.                          *)
LEMMA PostClosingKeeps ==
    ASSUME IInv, NEW p \in Procs, PostClosing(p)
    PROVE  IInv'
  <1>1. pc[p] = "wallets" /\ pc[p] # "idle" /\ Closing(p) /\ WalletsLocked(p)
    BY DEF PostClosing
  <1>2. ControlOK /\ TxInv(p) /\ req[p].amount \in Nat
    BY <1>1, Before
  <1>3. /\ pc' = [pc EXCEPT ![p] = "commit"] /\ "commit" \in PCs \ {"idle"}
        /\ UNCHANGED <<bankVars, active, lockVars, req, mult>>
    <2>1. books.wallets[req[p].user].held = req[p].amount
      BY <1>1, ClosingHasItsHold
    <2>2. books.wallets[req[p].user].held >= req[p].amount
      BY <1>2, <2>1
    <2>3. QED
      BY <2>2 DEF PostClosing, Goto, PCs
  <1>4. /\ UNCHANGED <<books, spins, cooling, withdrawals, active, req, walletLock, userLock,
                       houseLock, mult>>
        /\ pc'[p] = "commit"
    BY <1>2, <1>3 DEF bankVars, lockVars, ControlOK
  <1>5. TxInv(p)'
    <2>1. WalletsLocked(p)'
      BY <1>1, <1>4 DEF WalletsLocked, Unlocked
    <2>2. ClosingInv(p)'
      <3>1. \A q \in Procs \ {p} : Closing(q)' => Closing(q)
        BY <1>2, <1>3 DEF Closing, Serving, ControlOK
      <3>2. QED
        BY <1>1, <1>2, <1>4, <3>1 DEF TxInv, ClosingInv
    <2>3. SpinInv(p)' /\ TopUpInv(p)' /\ WithdrawalInv(p)'
      BY <1>1, <1>4 DEF TopUpInv, SpinInv, WithdrawalInv, Closing, Serving
    <2>4. QED
      BY <1>4, <2>1, <2>2, <2>3 DEF TxInv
  <1>6. walletLock' \in [Users -> Procs \cup {NoProc}]
    BY <1>2, <1>4 DEF ControlOK
  <1>7. QED
    BY <1>1, <1>3, <1>4, <1>5, <1>6, MidStep
-----------------------------------------------------------------------------
(* A transaction that touches one wallet, which it has locked, and writes  *)
(* no spin: what is left to check is the withdrawals.                      *)
LEMMA CommitOfOneWallet ==
    ASSUME IInv, NEW p \in Procs, pc[p] # "idle", End(p), WalletsLocked(p),
           NEW d \in Int, Touches(books, books', req[p].user, d), UNCHANGED spins,
           cooling' \in [Users -> BOOLEAN],
           \A u \in Users : userLock[u] # p => cooling'[u] = cooling[u],
           withdrawals' \subseteq WithdrawalRows, HeldMatches',
           \A w \in withdrawals' \ withdrawals : w.user = req[p].user,
           \A q \in Procs \ {p} : Closing(q) => WithdrawalRow(req[q]) \in withdrawals'
    PROVE  IInv'
  <1>1. ControlOK /\ req[p].user \in Users /\ req[p].user \in LockSet(req[p])
    BY Before
  <1>2. walletLock[req[p].user] = p
    BY <1>1, LockedMeansHeld
  <1>3. Sound(books)' /\ BankTypeOK' /\ RefPlayedOnce'
    BY DEF Touches, Sound, IInv, TypeOK, BankTypeOK, RefPlayedOnce
  <1>4. OwnWrites(p)
    BY <1>1, <1>2 DEF OwnWrites, Touches
  <1>5. QED
    BY <1>3, <1>4, CommitStep

(* The commit of a top-up.                                                 *)
LEMMA CommitTopUpKeeps ==
    ASSUME IInv, NEW p \in Procs, CommitTopUp(p)
    PROVE  IInv'
  <1>1. pc[p] # "idle" /\ Serving(p, "topup") /\ WalletsLocked(p) /\ End(p)
    BY DEF CommitTopUp, Serving
  <1>2. ControlOK /\ TxInv(p) /\ req[p].user \in Users
    BY <1>1, Before
  <1>3. Sound(books) /\ DemoTarget \in Nat
    BY OpeningIsSane DEF IInv
  <1>4. Touches(books, books', req[p].user, 0)
    BY <1>2, <1>3, TopUpIsSound DEF CommitTopUp
  <1>5. /\ cooling' \in [Users -> BOOLEAN]
        /\ \A u \in Users : userLock[u] # p => cooling'[u] = cooling[u]
    BY <1>1, <1>2 DEF CommitTopUp, IInv, TypeOK, BankTypeOK, TxInv, TopUpInv
  <1>6. UNCHANGED <<spins, withdrawals>>
    BY DEF CommitTopUp
  <1>7. \A u \in Users : books'.wallets[u].held = books.wallets[u].held
    <2>1. \A u \in Users : books.wallets[u].held \in Nat
      BY <1>3 DEF Sound, Books
    <2>2. books'.wallets[req[p].user].held = books.wallets[req[p].user].held
      BY <1>2, <1>4, <2>1 DEF Touches
    <2>3. \A u \in Users \ {req[p].user} : books'.wallets[u] = books.wallets[u]
      BY <1>4 DEF Touches
    <2>4. QED
      BY <2>2, <2>3
  <1>8. HeldMatches'
    BY <1>6, <1>7 DEF IInv, TypeOK, BankTypeOK, WithdrawalRows, HeldMatches, HasOpenWithdrawal
  <1>9. withdrawals' \subseteq WithdrawalRows
    BY <1>6 DEF IInv, TypeOK, BankTypeOK
  <1>10. \A q \in Procs \ {p} : Closing(q) => WithdrawalRow(req[q]) \in withdrawals'
    BY <1>6 DEF IInv, TxInv, ClosingInv
  <1>11. QED
    BY <1>1, <1>4, <1>5, <1>6, <1>8, <1>9, <1>10, CommitOfOneWallet

(* The commit of a withdrawal request: the player has no other open one.   *)
LEMMA CommitWithdrawalKeeps ==
    ASSUME IInv, NEW p \in Procs, CommitWithdrawal(p)
    PROVE  IInv'
  <1> DEFINE r == req[p]
             new == WithdrawalRow(r)
  <1>1. pc[p] = "commit" /\ pc[p] # "idle" /\ Serving(p, "withdraw") /\ End(p)
    BY DEF CommitWithdrawal, Serving
  <1>2. /\ ControlOK /\ TxInv(p)
        /\ r.user \in Users /\ r.amount \in Nat /\ r.ref \in Refs
    BY <1>1, Before
  <1>3. /\ WalletsLocked(p) /\ r.amount > 0 /\ ~HasOpenWithdrawal(r.user)
        /\ MoveFits(books, r.user, TRUE, -r.amount)
    BY <1>1, <1>2 DEF TxInv, WithdrawalInv
  <1>4. /\ books' = Hold(books, r.user, r.amount, <<r.user, r.ref>>)
        /\ withdrawals' = withdrawals \cup {new}
        /\ UNCHANGED <<spins, cooling>>
    BY DEF CommitWithdrawal
  <1>5. new \in WithdrawalRows /\ new.user = r.user /\ new.amount = r.amount
    BY <1>2, <1>3 DEF WithdrawalRow, WithdrawalRows
  <1>6. Sound(books) /\ HeldMatches /\ withdrawals \subseteq WithdrawalRows
    BY DEF IInv, TypeOK, BankTypeOK
  <1> HIDE DEF r, new
  <1>7. Touches(books, books', r.user, r.amount)
    BY <1>2, <1>3, <1>4, <1>6, HoldIsSound DEF RowRefs
  <1>8. /\ books.wallets[r.user].held = 0 /\ books'.wallets[r.user].held = r.amount
        /\ \A u \in Users \ {r.user} : books'.wallets[u].held = books.wallets[u].held
    BY <1>2, <1>3, <1>6, <1>7 DEF HeldMatches, Touches
  <1>9. \A w \in withdrawals : w.status \in OpenStatus => w.user # r.user
    BY <1>3 DEF HasOpenWithdrawal
  <1>10. HeldMatches'
    <2>1. new.status \in OpenStatus
      BY DEF new, WithdrawalRow, OpenStatus
    <2>2. \A w \in withdrawals' :
             w.status \in OpenStatus => books'.wallets[w.user].held = w.amount
      BY <1>4, <1>5, <1>6, <1>8, <1>9 DEF HeldMatches, WithdrawalRows
    <2>3. \A u \in Users : ~HasOpenWithdrawal(u)' => books'.wallets[u].held = 0
      BY <1>4, <1>5, <1>6, <1>8, <2>1 DEF HeldMatches, HasOpenWithdrawal
    <2>4. \A v, w \in withdrawals' :
             v.status \in OpenStatus /\ w.status \in OpenStatus /\ v.user = w.user => v = w
      BY <1>4, <1>5, <1>6, <1>9 DEF HeldMatches
    <2>5. QED
      BY <2>2, <2>3, <2>4 DEF HeldMatches
  <1>11. cooling' \in [Users -> BOOLEAN] /\ \A u \in Users : cooling'[u] = cooling[u]
    BY <1>4 DEF IInv, TypeOK, BankTypeOK
  <1>12. \A q \in Procs \ {p} : Closing(q) => WithdrawalRow(req[q]) \in withdrawals'
    BY <1>4 DEF IInv, TxInv, ClosingInv
  <1>13. QED
    BY <1>1, <1>2, <1>3, <1>4, <1>5, <1>6, <1>7, <1>10, <1>11, <1>12, CommitOfOneWallet DEF r

(* A settled or failed withdrawal is open no more, and its hold is gone.   *)
LEMMA CommitClosingKeeps ==
    ASSUME IInv, NEW p \in Procs, CommitClosing(p)
    PROVE  IInv'
  <1> DEFINE r == req[p]
             old == WithdrawalRow(r)
  <1>1. pc[p] = "commit" /\ pc[p] # "idle" /\ Closing(p) /\ End(p)
    BY DEF CommitClosing
  <1>2. /\ ControlOK /\ TxInv(p)
        /\ r.user \in Users /\ r.amount \in Nat /\ r.ref \in Refs
    BY <1>1, Before
  <1>3. WalletsLocked(p) /\ old \in withdrawals
    BY <1>1, <1>2 DEF TxInv, ClosingInv
  <1>4. PICK status \in {"paid", "failed"} :
          /\ withdrawals' = (withdrawals \ {old}) \cup {[old EXCEPT !.status = status]}
          /\ \/ books' = ReleaseHold(books, r.user, r.amount)
             \/ books' = ReverseHold(books, r.user, r.amount, <<r.user, r.ref>>)
          /\ UNCHANGED <<spins, cooling>>
    BY DEF CommitClosing, Closed
  <1> DEFINE new == [old EXCEPT !.status = status]
  <1>5. /\ old \in WithdrawalRows /\ new \in WithdrawalRows
        /\ old.user = r.user /\ old.amount = r.amount /\ old.ref = r.ref
        /\ old.status \in OpenStatus
        /\ new.user = r.user /\ new.status \notin OpenStatus
    BY <1>3 DEF IInv, TypeOK, BankTypeOK, WithdrawalRow, WithdrawalRows, OpenStatus
  <1>6. books.wallets[r.user].held = r.amount
    BY <1>1, ClosingHasItsHold
  <1>7. Sound(books) /\ HeldMatches /\ withdrawals \subseteq WithdrawalRows
    BY DEF IInv, TypeOK, BankTypeOK
  <1>8. Touches(books, books', r.user, -r.amount)
    <2>1. books.wallets[r.user].held >= r.amount /\ <<r.user, r.ref>> \in RowRefs
      BY <1>2, <1>6 DEF RowRefs
    <2> HIDE DEF r
    <2>2. QED
      BY <1>2, <1>4, <1>7, <2>1, ReleaseIsSound, ReverseIsSound
  <1>9. ASSUME NEW q \in Procs \ {p}, Closing(q)
        PROVE  WithdrawalRow(req[q]) \in withdrawals'
    <2>1. <<req[q].user, req[q].ref>> # <<r.user, r.ref>>
          /\ WithdrawalRow(req[q]) \in withdrawals
      BY <1>1, <1>9 DEF IInv, TxInv, ClosingInv
    <2>2. WithdrawalRow(req[q]) # old
      BY <2>1 DEF WithdrawalRow
    <2>3. QED
      BY <1>4, <2>1, <2>2
  <1> HIDE DEF r, old, new
  <1>10. withdrawals' = (withdrawals \ {old}) \cup {new}
    BY <1>4 DEF new
  <1>11. /\ books'.wallets[r.user].held = 0
         /\ \A u \in Users \ {r.user} : books'.wallets[u].held = books.wallets[u].held
    BY <1>2, <1>6, <1>8 DEF Touches
  <1>12. \A w \in withdrawals \ {old} : w.status \in OpenStatus => w.user # r.user
    BY <1>3, <1>5, <1>7 DEF HeldMatches
  <1>13. HeldMatches'
    <2>1. \A w \in withdrawals' :
             w.status \in OpenStatus => books'.wallets[w.user].held = w.amount
      BY <1>5, <1>7, <1>10, <1>11, <1>12 DEF HeldMatches, WithdrawalRows
    <2>2. ASSUME NEW u \in Users, ~HasOpenWithdrawal(u)'
          PROVE  books'.wallets[u].held = 0
      <3>1. CASE u = r.user
        BY <1>11, <3>1
      <3>2. CASE u # r.user
        <4>1. ~HasOpenWithdrawal(u)
          BY <1>5, <1>10, <2>2, <3>2 DEF HasOpenWithdrawal
        <4>2. QED
          BY <1>7, <1>11, <3>2, <4>1 DEF HeldMatches
      <3>3. QED
        BY <3>1, <3>2
    <2>3. \A v, w \in withdrawals' :
             v.status \in OpenStatus /\ w.status \in OpenStatus /\ v.user = w.user => v = w
      BY <1>5, <1>7, <1>10 DEF HeldMatches
    <2>4. QED
      BY <2>1, <2>2, <2>3 DEF HeldMatches
  <1>14. cooling' \in [Users -> BOOLEAN] /\ \A u \in Users : cooling'[u] = cooling[u]
    BY <1>4 DEF IInv, TypeOK, BankTypeOK
  <1>15. /\ withdrawals' \subseteq WithdrawalRows
         /\ \A w \in withdrawals' \ withdrawals : w.user = r.user
         /\ -r.amount \in Int /\ UNCHANGED spins
    BY <1>2, <1>4, <1>5, <1>7, <1>10
  <1>16. QED
    BY <1>1, <1>3, <1>8, <1>9, <1>13, <1>14, <1>15, CommitOfOneWallet DEF r

(* The commit of a spin: it writes the two wallets and the house it has    *)
(* locked, and its key was not played.                                     *)
LEMMA CommitSpinKeeps ==
    ASSUME IInv, NEW p \in Procs, CommitSpin(p)
    PROVE  IInv'
  <1> DEFINE r == req[p]
             s == Drawn(p)
             payee == Payee(r.user, r.isReal)
  <1>1. pc[p] = "commit" /\ pc[p] # "idle" /\ Serving(p, "spin") /\ End(p)
    BY DEF CommitSpin, Serving
  <1>2. /\ ControlOK /\ TxInv(p)
        /\ r.user \in Users /\ r.isReal \in BOOLEAN /\ r.op = "spin"
        /\ r.user \in LockSet(r) /\ LockSet(r) \subseteq Users
    BY <1>1, Before DEF Serving
  <1>3. /\ WalletsLocked(p) /\ ~Played(r.user, r.ref)
        /\ r.isReal => houseLock = p
    BY <1>1, <1>2 DEF TxInv, SpinInv
  <1>4. /\ books' = SpinPosted(books, s) /\ spins' = spins \cup {s}
        /\ UNCHANGED <<cooling, withdrawals>>
    BY DEF CommitSpin
  <1>5. /\ s \in SpinRows /\ SpinFits(books, s)
        /\ s.user = r.user /\ s.ref = r.ref /\ s.isReal = r.isReal
    BY <1>1, AdmittedFits DEF Drawn, SpinRow
  <1>6. Sound(books) /\ HeldMatches /\ RefPlayedOnce /\ BankTypeOK
    BY DEF IInv, TypeOK
  <1>7. \A u \in Users \cap {r.user, payee} : walletLock[u] = p
    <2>1. Users \cap {r.user, payee} \subseteq LockSet(r)
      BY <1>2, UsersAreIds DEF LockSet
    <2>2. QED
      BY <1>3, <2>1, LockedMeansHeld
  <1> HIDE DEF s, r
  <1>8. /\ Sound(books')
        /\ \A v \in Users \ {r.user, payee} : books'.wallets[v] = books.wallets[v]
        /\ \A v \in Users : books'.wallets[v].held = books.wallets[v].held
        /\ ~r.isReal => books'.house = books.house
    BY <1>4, <1>5, <1>6, SpinIsSound
  <1> HIDE DEF payee
  <1>9. HeldMatches'
    BY <1>4, <1>6, <1>8 DEF HeldMatches, HasOpenWithdrawal, BankTypeOK, WithdrawalRows
  <1>10. RefPlayedOnce'
    BY <1>3, <1>4, <1>5, <1>6 DEF RefPlayedOnce, Played
  <1>11. BankTypeOK'
    BY <1>4, <1>5, <1>6, <1>8 DEF BankTypeOK, Sound
  <1>12. OwnWrites(p)
    <2>1. \A q \in Procs \ {p} : Closing(q) => WithdrawalRow(req[q]) \in withdrawals'
      BY <1>4 DEF IInv, TxInv, ClosingInv
    <2>2. s.user \in Users /\ walletLock[s.user] = p
      BY <1>2, <1>5, <1>7
    <2>3. QED
      BY <1>3, <1>4, <1>7, <1>8, <2>1, <2>2 DEF OwnWrites
  <1>13. Sound(books)'
    BY <1>8
  <1>14. QED
    BY <1>1, <1>9, <1>10, <1>11, <1>12, <1>13, CommitStep
-----------------------------------------------------------------------------
(* What happens beside the transactions: an account is suspended or        *)
(* reinstated, a cooldown ends, or nothing does.                           *)
LEMMA AmbientStep ==
    ASSUME IInv, UNCHANGED <<books, spins, withdrawals, walletLock, userLock, houseLock,
                             pc, req, mult>>,
           active' \in [Users -> BOOLEAN], cooling' \in [Users -> BOOLEAN],
           \A u \in Users : cooling'[u] => cooling[u]
    PROVE  IInv'
  <1>1. ASSUME NEW q \in Procs
        PROVE  TxInv(q)'
    <2>1. Closing(q) => WithdrawalRow(req[q]) \in withdrawals'
      BY DEF IInv, TxInv, ClosingInv
    <2>2. Uncontested(q)
      BY DEF IInv, TxInv, ClosingInv, Uncontested, Closing, Serving
    <2>3. Frame(q)
      BY <2>1, <2>2 DEF Frame
    <2>4. QED
      BY <2>3, FrameKeeps
  <1>2. TypeOK'
    BY DEF IInv, TypeOK, BankTypeOK
  <1>3. Sound(books)' /\ RefPlayedOnce' /\ HeldMatches'
    BY DEF IInv, RefPlayedOnce, HeldMatches, HasOpenWithdrawal
  <1>4. QED
    BY <1>1, <1>2, <1>3 DEF IInv

(* Every step of the system keeps the invariant.                           *)
LEMMA NextKeeps == IInv /\ [Next]_vars => IInv'
  <1> SUFFICES ASSUME IInv, [Next]_vars PROVE IInv'
    OBVIOUS
  <1>0. cooling \in [Users -> BOOLEAN] /\ active \in [Users -> BOOLEAN]
    BY DEF IInv, TypeOK, BankTypeOK
  <1>1. ASSUME NEW p \in Procs, Begin(p) \/ Step(p) \/ Rollback(p)
        PROVE  IInv'
    <2>1. CASE Begin(p)
      BY <2>1, BeginKeeps
    <2>2. CASE Step(p)
      BY <2>2, LockWalletKeeps, CheckFundsKeeps, LockHouseKeeps, DrawKeeps, PostSpinKeeps,
         CommitSpinKeeps, CommitTopUpKeeps, PostWithdrawalKeeps, CommitWithdrawalKeeps,
         PostClosingKeeps, CommitClosingKeeps DEF Step
    <2>3. CASE Rollback(p)
      BY <2>3, AbandonKeeps DEF Rollback
    <2>4. QED
      BY <1>1, <2>1, <2>2, <2>3
  <1>2. ASSUME NEW u \in Suspendable, NEW flag \in BOOLEAN, SetActive(u, flag)
        PROVE  IInv'
    BY <1>0, <1>2, AmbientStep, SuspendableUsers DEF SetActive, bankVars, lockVars
  <1>3. ASSUME NEW u \in Users, CooldownPasses(u)
        PROVE  IInv'
    BY <1>0, <1>3, AmbientStep DEF CooldownPasses, CooldownElapses, lockVars
  <1>4. CASE UNCHANGED vars
    BY <1>0, <1>4, AmbientStep DEF vars
  <1>5. QED
    BY <1>1, <1>2, <1>3, <1>4 DEF Next

(* What every committed and uncommitted transaction relies on holds in     *)
(* every reachable state.                                                  *)
THEOREM Invariance == Spec => []IInv
  <1>1. QED
    BY InitEstablishes, NextKeeps, PTL DEF Spec

(* The tables keep their CHECKs (no negative balance, bankroll or rake)    *)
(* and their keys, and every process and lock is in a state of its type.   *)
THEOREM TypeCorrect == Spec => []TypeOK
  <1>1. IInv => TypeOK
    BY DEF IInv
  <1>2. QED
    BY <1>1, Invariance, PTL

(* I1 for any number of players, processes and rounds: no interleaving of  *)
(* transactions loses an update, so the ledger explains every balance.     *)
THEOREM LedgerExplains == Spec => []LedgerExplainsBalances
  <1>1. IInv => LedgerExplainsBalances
    BY DEF IInv, Sound, LedgerExplainsBalances
  <1>2. QED
    BY <1>1, Invariance, PTL

(* What admission control let by can be settled, whatever the draw and     *)
(* whatever ran in between: ErrBankrollExhausted and "hold accounting is   *)
(* corrupt" are unreachable for every wheel and every split of the edge    *)
(* that config.Load accepts.                                               *)
THEOREM AdmittedSpinsSettle == Spec => []ChecksNeverFire
  <1>1. IInv => ChecksNeverFire
    BY DEF IInv, TxInv, ChecksNeverFire
  <1>2. QED
    BY <1>1, Invariance, PTL

(* One key, one round, however many handlers carry a retry of it.          *)
THEOREM PlayedAtMostOnce == Spec => []RefPlayedOnce
  <1>1. IInv => RefPlayedOnce
    BY DEF IInv
  <1>2. QED
    BY <1>1, Invariance, PTL
-----------------------------------------------------------------------------
(* The commit of a spin is a round of Bank.                                *)
LEMMA CommitSpinIsSpin ==
    ASSUME IInv, NEW p \in Procs, CommitSpin(p)
    PROVE  Spin(req[p], mult[p]) /\ req[p] \in Requests /\ mult[p] \in Mults
  <1>1. pc[p] = "commit" /\ pc[p] # "idle" /\ Serving(p, "spin")
    BY DEF CommitSpin, Serving
  <1>2. TxInv(p) /\ req[p] \in Requests
    BY <1>1, Before
  <1>3. QED
    BY <1>1, <1>2 DEF TxInv, SpinInv, Spin, CommitSpin, Drawn, Serving

(* The other three commits are actions of Bank too.                        *)
LEMMA OtherCommits ==
    ASSUME IInv, NEW p \in Procs
    PROVE  /\ CommitTopUp(p) => \E u \in Users : TopUpDemo(u)
           /\ CommitWithdrawal(p) => \E r \in Requests : RequestWithdrawal(r)
           /\ CommitClosing(p) =>
                 \E w \in withdrawals : SettleWithdrawal(w) \/ FailWithdrawal(w)
  <1>1. ASSUME CommitTopUp(p)
        PROVE  TopUpDemo(req[p].user) /\ req[p].user \in Users
    <2>1. pc[p] # "idle" /\ Serving(p, "topup")
      BY <1>1 DEF CommitTopUp, Serving
    <2>2. TxInv(p) /\ req[p].user \in Users
      BY <2>1, Before
    <2>3. QED
      BY <1>1, <2>1, <2>2 DEF TxInv, TopUpInv, TopUpDemo, CommitTopUp
  <1>2. ASSUME CommitWithdrawal(p)
        PROVE  RequestWithdrawal(req[p]) /\ req[p] \in Requests
    <2>1. pc[p] = "commit" /\ pc[p] # "idle" /\ Serving(p, "withdraw")
      BY <1>2 DEF CommitWithdrawal, Serving
    <2>2. TxInv(p) /\ req[p] \in Requests
      BY <2>1, Before
    <2>3. QED
      BY <1>2, <2>1, <2>2 DEF TxInv, WithdrawalInv, RequestWithdrawal, CommitWithdrawal,
                              Serving
  <1>3. ASSUME CommitClosing(p)
        PROVE  LET w == WithdrawalRow(req[p])
               IN w \in withdrawals /\ (SettleWithdrawal(w) \/ FailWithdrawal(w))
    <2>1. WithdrawalRow(req[p]) \in withdrawals
      BY <1>3 DEF IInv, TxInv, ClosingInv, CommitClosing
    <2>2. LET w == WithdrawalRow(req[p])
          IN /\ w.user = req[p].user /\ w.amount = req[p].amount /\ w.ref = req[p].ref
             /\ w.status \in OpenStatus
      BY DEF WithdrawalRow, OpenStatus
    <2>3. QED
      BY <1>3, <2>1, <2>2 DEF CommitClosing, SettleWithdrawal, FailWithdrawal
  <1>4. QED
    BY <1>1, <1>2, <1>3

(* A step of MoneyTx is a step of Bank or leaves its tables alone.         *)
LEMMA StepRefines == IInv /\ [Next]_vars => [BankNext]_bankVars
  <1> SUFFICES ASSUME IInv, [Next]_vars PROVE [BankNext]_bankVars
    OBVIOUS
  <1>1. ASSUME NEW p \in Procs, Begin(p) \/ Rollback(p)
        PROVE  UNCHANGED bankVars
    BY <1>1 DEF Begin, BeginSpin, ClaimTopUp, BeginWithdrawal, BeginClosing, Rollback, Abandon
  <1>2. ASSUME NEW p \in Procs, Step(p)
        PROVE  [BankNext]_bankVars
    <2>1. CASE CommitSpin(p)
      BY <2>1, CommitSpinIsSpin DEF BankNext
    <2>2. CASE CommitTopUp(p) \/ CommitWithdrawal(p) \/ CommitClosing(p)
      BY <2>2, OtherCommits DEF BankNext
    <2>3. CASE LockWallet(p) \/ CheckFunds(p) \/ LockHouse(p) \/ Draw(p) \/ PostSpin(p)
               \/ PostWithdrawal(p) \/ PostClosing(p)
      BY <2>3 DEF LockWallet, CheckFunds, LockHouse, Draw, PostSpin, PostWithdrawal,
                  PostClosing, Abandon
    <2>4. QED
      BY <1>2, <2>1, <2>2, <2>3 DEF Step
  <1>3. ASSUME NEW u \in Suspendable, NEW flag \in BOOLEAN, SetActive(u, flag)
        PROVE  UNCHANGED bankVars
    BY <1>3 DEF SetActive
  <1>4. ASSUME NEW u \in Users, CooldownPasses(u)
        PROVE  BankNext
    BY <1>4 DEF CooldownPasses, BankNext
  <1>5. CASE UNCHANGED vars
    BY <1>5 DEF vars, bankVars
  <1>6. QED
    BY <1>1, <1>2, <1>3, <1>4, <1>5 DEF Next

(* READ COMMITTED is sufficient: with the row locks taken as the code      *)
(* takes them, every transaction takes effect at its commit as if it ran   *)
(* alone, for any number of players and processes.                         *)
THEOREM AtomicTransactions == Spec => BankSpec
  <1>1. Init => BankInit
    BY DEF Init
  <1>2. QED
    BY <1>1, StepRefines, Invariance, PTL DEF Spec, BankSpec

-----------------------------------------------------------------------------
(***************************************************************************)
(* What the committed tables say of each other: the commit of a            *)
(* transaction is a step of Bank, so it is enough that the steps of Bank   *)
(* keep it.                                                                *)
(***************************************************************************)

(* What the committed tables say of each other, on top of IInv.            *)
TablesAgree ==
    /\ WithdrawalsKeyed
    /\ RealMoneyConserved
    /\ RowsHaveSpins
    /\ SpinsRecorded
    /\ RowsHaveHolds
    /\ HoldsRecorded
    /\ LawfulBooks(books)

\* The opening books were paid in, and nobody has played.
LEMMA OpeningAgrees == Init => TablesAgree
  <1> SUFFICES ASSUME Init PROVE TablesAgree
    OBVIOUS
  <1>1. /\ books = Opened(InitReal, InitDemo, InitBankroll)
        /\ spins = {} /\ withdrawals = {}
    BY DEF Init, BankInit
  <1>2. WithdrawalsKeyed
    BY <1>1, FS_EmptySet DEF WithdrawalsKeyed
  <1>3. RealMoneyConserved
    <2>1. Wealth(books) = Total(InitReal) + InitBankroll
      BY <1>1, OpeningIsSane, OpeningWealth
    <2>2. PaidWithdrawals = {}
      BY <1>1 DEF PaidWithdrawals
    <2>3. [w \in PaidWithdrawals |-> w.amount] \in [{} -> Int]
      BY <2>2
    <2>4. PaidOut = 0
      BY <2>3, TotalOfNothing, Zenon DEF PaidOut
    <2>5. Sound(books)
      BY <1>1, OpenedIsSound, OpeningIsSane
    <2>6. Wealth(books) \in Int
      BY <2>5, WealthInInt
    <2> QED BY <2>1, <2>4, <2>6 DEF RealMoneyConserved
  <1>4. ASSUME NEW u \in Users, NEW isReal \in BOOLEAN,
               NEW kind \in SpinKinds \cup HoldKinds, NEW id
        PROVE  RowsOf(books, u, isReal, kind, id) = {}
    <2> DEFINE rows == books.ledger[<<u, isReal>>]
    <2>1. \/ rows = <<>>
          \/ \E k \in {"deposit", "demo_grant"}, cents \in Nat :
                rows = <<Row(k, cents, cents, NoRef)>>
      BY <1>1, OpeningIsSane DEF Opened
    <2> HIDE DEF rows
    <2>2. \A i \in 1..Len(rows) : rows[i].kind \in {"deposit", "demo_grant"}
      BY <2>1 DEF Row
    <2> QED BY <2>2 DEF RowsOf, SpinKinds, HoldKinds, rows
  <1>5. RowsHaveSpins /\ SpinsRecorded
    BY <1>1, <1>4 DEF RowsHaveSpins, SpinsRecorded
  <1>6. RowsHaveHolds /\ HoldsRecorded
    BY <1>1, <1>4 DEF RowsHaveHolds, HoldsRecorded
  <1>7. LawfulBooks(books)
    BY OpeningIsLawful DEF Init
  <1> QED BY <1>2, <1>3, <1>5, <1>6, <1>7 DEF TablesAgree

\* No transaction of MoneyTx breaks it, as none of Bank does.
LEMMA StepsAgree == IInv /\ TablesAgree /\ [Next]_vars => TablesAgree'
  <1> SUFFICES ASSUME IInv, TablesAgree, [Next]_vars PROVE TablesAgree'
    OBVIOUS
  <1>1. InOrder /\ [BankNext]_bankVars
    BY StepRefines DEF IInv, TypeOK, InOrder
  <1>2. WithdrawalsKeyed' /\ RealMoneyConserved'
    BY <1>1, BankConserves DEF TablesAgree
  <1>3. RowsHaveSpins' /\ SpinsRecorded'
    BY <1>1, BankRecordsSpins DEF TablesAgree
  <1>4. RowsHaveHolds' /\ HoldsRecorded'
    BY <1>1, BankRecordsHolds DEF TablesAgree
  <1>5. LawfulBooks(books')
    BY <1>1, BankIsLawful DEF TablesAgree
  <1> QED BY <1>2, <1>3, <1>4, <1>5 DEF TablesAgree, LawfulBooks

LEMMA TablesAlwaysAgree == Spec => []TablesAgree
  BY OpeningAgrees, StepsAgree, Invariance, PTL DEF Spec

(* Real money is conserved: through any number of interleaved rounds,      *)
(* withdrawals, reversals and rollbacks, the players and the house own in  *)
(* cents what was there at the start, less what was paid out.              *)
THEOREM RealMoneyIsConserved == Spec => []RealMoneyConserved
  <1>1. TablesAgree => RealMoneyConserved
    BY DEF TablesAgree
  <1> QED BY <1>1, TablesAlwaysAgree, PTL

(* I6: every spin has its one bet row and, if it won, its one win row.     *)
THEOREM EverySpinIsRecorded == Spec => []SpinsFullyRecorded
  <1>1. IInv /\ TablesAgree => SpinsFullyRecorded
    BY RecordsAreTrue DEF IInv, TypeOK, TablesAgree
  <1> QED BY <1>1, Invariance, TablesAlwaysAgree, PTL

(* I7: every commission is owed, and every commission owed is paid, once.  *)
THEOREM EveryReferralIsEarned == Spec => []ReferralsEarned
  <1>1. IInv /\ TablesAgree => ReferralsEarned
    BY RecordsAreTrue DEF IInv, TypeOK, TablesAgree
  <1> QED BY <1>1, Invariance, TablesAlwaysAgree, PTL

(* No false alarm: whenever the integrity checks run, between any commits  *)
(* of concurrent rounds, top-ups and withdrawals, they find the ledger     *)
(* adding up to every balance, no negative cents, no mixing of demo and    *)
(* real money, the holds equal to the open withdrawals, and every spin,    *)
(* withdrawal and commission with the rows it should have.                 *)
THEOREM ChecksStayQuiet == Spec => []AlwaysHealthy
  <1>1. IInv /\ TablesAgree => AlwaysHealthy
    BY TablesAreHealthy DEF IInv, TypeOK, InOrder, TablesAgree
  <1> QED BY <1>1, Invariance, TablesAlwaysAgree, PTL

-----------------------------------------------------------------------------
\* Only a commit writes the ledger, and it closes its transaction.
LEMMA CommitsWriteTheLedger ==
    ASSUME IInv, [Next]_vars, books.ledger # books'.ledger
    PROVE  \E p \in Procs : pc[p] # "idle" /\ pc'[p] = "idle"
  <1>1. ASSUME NEW p \in Procs, Begin(p) \/ Rollback(p)
        PROVE  FALSE
    BY <1>1 DEF Begin, BeginSpin, ClaimTopUp, BeginWithdrawal, BeginClosing, Rollback,
                Abandon, bankVars
  <1>2. ASSUME NEW p \in Procs, Step(p)
        PROVE  pc[p] # "idle" /\ pc'[p] = "idle"
    <2>1. CASE CommitSpin(p) \/ CommitTopUp(p) \/ CommitWithdrawal(p) \/ CommitClosing(p)
      <3>1. ControlOK /\ End(p) /\ pc[p] # "idle"
        BY <2>1 DEF IInv, TypeOK, ControlOK, CommitSpin, CommitTopUp, CommitWithdrawal,
                    CommitClosing
      <3> QED BY <3>1, EndFacts
    <2>2. CASE LockWallet(p) \/ CheckFunds(p) \/ LockHouse(p) \/ Draw(p) \/ PostSpin(p)
               \/ PostWithdrawal(p) \/ PostClosing(p)
      BY <2>2 DEF LockWallet, CheckFunds, LockHouse, Draw, PostSpin, PostWithdrawal,
                  PostClosing, Abandon, bankVars
    <2> QED BY <1>2, <2>1, <2>2 DEF Step
  <1>3. ASSUME NEW u \in Suspendable, NEW flag \in BOOLEAN, SetActive(u, flag)
        PROVE  FALSE
    BY <1>3 DEF SetActive, bankVars
  <1>4. ASSUME NEW u \in Users, CooldownPasses(u)
        PROVE  FALSE
    BY <1>4 DEF CooldownPasses, CooldownElapses
  <1>5. CASE UNCHANGED vars
    BY <1>5 DEF vars
  <1> QED BY <1>1, <1>2, <1>3, <1>4, <1>5 DEF Next

(* I8: the ledger only grows, and only at a commit, whatever runs beside   *)
(* it.                                                                     *)
THEOREM LedgerOnlyGrows == Spec => LedgerAppendOnly
  <1>1. ASSUME IInv, [Next]_vars
        PROVE  [/\ \A k \in Users \X BOOLEAN :
                      /\ Len(books.ledger[k]) <= Len(books'.ledger[k])
                      /\ SubSeq(books'.ledger[k], 1, Len(books.ledger[k])) = books.ledger[k]
                /\ books.ledger # books'.ledger =>
                      \E p \in Procs : pc[p] # "idle" /\ pc'[p] = "idle"]_vars
    <2>1. InOrder /\ [BankNext]_bankVars
      BY <1>1, StepRefines DEF IInv, TypeOK, InOrder
    <2>2. LedgerExtended(books, books')
      BY <2>1, BankExtends
    <2>3. ASSUME NEW k \in Users \X BOOLEAN
          PROVE  /\ Len(books.ledger[k]) <= Len(books'.ledger[k])
                 /\ SubSeq(books'.ledger[k], 1, Len(books.ledger[k])) = books.ledger[k]
      <3>1. /\ books.ledger[k] \in Seq(Rows) /\ books'.ledger[k] \in Seq(Rows)
            /\ Extends(books.ledger[k], books'.ledger[k])
        BY <2>1, <2>2 DEF InOrder, Sound, Books, LedgerExtended
      <3> QED BY <3>1, ExtendsIsPrefix
    <2> QED BY <1>1, <2>3, CommitsWriteTheLedger
  <1> QED BY <1>1, Invariance, PTL DEF Spec, LedgerAppendOnly

-----------------------------------------------------------------------------
(***************************************************************************)
(* No deadlock: the locks are taken in an order, so among those who wait   *)
(* the one that holds the latest lock waits for nobody.                    *)
(***************************************************************************)

(* Every nonempty set of numbers has a least one.                          *)
LEMMA LeastNumber ==
    ASSUME NEW S \in SUBSET Nat, S # {}
    PROVE  \E m \in S : \A n \in S : m <= n
  <1> DEFINE less == OpToRel(<, Nat)
  <1>1. \A m, n \in Nat : m < n => <<m, n>> \in less
    BY DEF OpToRel
  <1>2. IsWellFoundedOn(less, Nat)
    BY NatLessThanWellFounded, Zenon
  <1> HIDE DEF less
  <1>3. PICK m \in S : \A n \in S : <<n, m>> \notin less
    BY <1>2, WFMin, Zenon
  <1>4. ASSUME NEW n \in S
        PROVE  m <= n
    <2>1. m \in Nat /\ n \in Nat /\ ~(n < m)
      BY <1>1, <1>3
    <2> QED BY <2>1
  <1> QED BY <1>4

(* Every nonempty finite set of numbers has a greatest one.                *)
LEMMA GreatestNumber ==
    ASSUME NEW S \in SUBSET Nat, IsFiniteSet(S), S # {}
    PROVE  \E m \in S : \A n \in S : n <= m
  <1> DEFINE Bad == {T \in SUBSET S : T # {} /\ ~ \E m \in T : \A n \in T : n <= m}
  <1>1. SUFFICES ASSUME Bad # {} PROVE FALSE
    OBVIOUS
  <1>2. PICK T \in Bad : \A x \in T : T \ {x} \notin Bad
    BY <1>1, MinimalSet
  <1>3. PICK x \in T : TRUE
    OBVIOUS
  <1>4. CASE T \ {x} = {}
    <2>1. \A n \in T : n = x
      BY <1>4
    <2> QED BY <1>3, <2>1
  <1>5. CASE T \ {x} # {}
    <2>1. PICK m \in T \ {x} : \A n \in T \ {x} : n <= m
      BY <1>2, <1>3, <1>5
    <2>2. m \in Nat /\ x \in Nat
      BY <1>3, <2>1
    <2>3. CASE x <= m
      BY <2>1, <2>3
    <2>4. CASE m <= x
      <3>1. \A n \in T : n <= x
        BY <2>1, <2>2, <2>4
      <3> QED BY <1>3, <3>1
    <2> QED BY <2>2, <2>3, <2>4
  <1> QED BY <1>4, <1>5

(* The wallet locked next is the least one not locked yet.                 *)
LEMMA NextIsLeast ==
    ASSUME ControlOK, NEW p \in Procs, pc[p] # "idle", ~WalletsLocked(p)
    PROVE  /\ NextWallet(p) \in Unlocked(p)
           /\ \A v \in Unlocked(p) : NextWallet(p) <= v
  <1>1. Unlocked(p) \subseteq Nat /\ Unlocked(p) # {}
    BY RequestOf, UsersAreIds DEF Unlocked, WalletsLocked
  <1>2. \E m \in Unlocked(p) : \A n \in Unlocked(p) : m <= n
    BY <1>1, LeastNumber
  <1> QED BY <1>2 DEF NextWallet

(* What a transaction holds: wallets of its own request, the lower ids     *)
(* first, and the house only once it goes on to the draw.                  *)
HoldsInOrder(p) ==
    /\ \A u \in Users : walletLock[u] = p => pc[p] # "idle" /\ u \in LockSet(req[p])
    /\ \A u, v \in Users : walletLock[u] = p /\ v \in LockSet(req[p]) /\ walletLock[v] # p
                              => u < v
    /\ houseLock = p => pc[p] \in {"draw", "post", "commit", "broken"}

LocksInOrder == \A p \in Procs : HoldsInOrder(p)

(* Nobody's locks change but those of p, and p serves the same request.    *)
LEMMA OthersHoldInOrder ==
    ASSUME LocksInOrder, NEW q \in Procs,
           pc'[q] = pc[q], req'[q] = req[q],
           \A u \in Users : walletLock'[u] = q <=> walletLock[u] = q,
           houseLock' = q <=> houseLock = q
    PROVE  HoldsInOrder(q)'
  BY DEF LocksInOrder, HoldsInOrder

\* A step of p that ends its transaction.
LEMMA EndHoldsNothing ==
    ASSUME ControlOK, LocksInOrder, NEW p \in Procs, End(p)
    PROVE  LocksInOrder'
  <1>1. /\ \A u \in Users : walletLock'[u] = IF walletLock[u] = p THEN NoProc
                                                                  ELSE walletLock[u]
        /\ houseLock' = IF houseLock = p THEN NoProc ELSE houseLock
        /\ p # NoProc
    BY ProcsAreNotNoProc DEF End, ControlOK
  <1>2. HoldsInOrder(p)'
    BY <1>1 DEF HoldsInOrder
  <1>3. ASSUME NEW q \in Procs \ {p}
        PROVE  HoldsInOrder(q)'
    <2>1. pc'[q] = pc[q] /\ req'[q] = req[q] /\ q # NoProc
      BY ProcsAreNotNoProc DEF End, Goto, ControlOK
    <2> QED BY <1>1, <2>1, OthersHoldInOrder
  <1> QED BY <1>2, <1>3 DEF LocksInOrder

\* A step of p that takes no lock of a wallet.
LEMMA MoveOnHoldsInOrder ==
    ASSUME ControlOK, LocksInOrder, NEW p \in Procs, walletLock' = walletLock,
           NEW where \in PCs, pc' = [pc EXCEPT ![p] = where], where # "idle",
           \/ req' = req
           \/ pc[p] = "idle" /\ \E r : req' = [req EXCEPT ![p] = r],
           \/ houseLock' = houseLock
              /\ (houseLock = p => where \in {"draw", "post", "commit", "broken"})
           \/ houseLock = NoProc /\ houseLock' = p
              /\ where \in {"draw", "post", "commit", "broken"}
    PROVE  LocksInOrder'
  <1>1. pc'[p] = where /\ p # NoProc
    BY ProcsAreNotNoProc DEF ControlOK
  <1>2. HoldsInOrder(p)'
    <2>1. HoldsInOrder(p)
      BY DEF LocksInOrder
    <2>2. req'[p] = req[p] \/ pc[p] = "idle"
      OBVIOUS
    <2>3. houseLock' = p => where \in {"draw", "post", "commit", "broken"}
      BY <1>1
    <2> QED BY <1>1, <2>1, <2>2, <2>3 DEF HoldsInOrder
  <1>3. ASSUME NEW q \in Procs \ {p}
        PROVE  HoldsInOrder(q)'
    <2>1. pc'[q] = pc[q] /\ req'[q] = req[q] /\ q # NoProc
      BY ProcsAreNotNoProc DEF ControlOK
    <2>2. houseLock' = q <=> houseLock = q
      BY <1>1, <2>1
    <2> QED BY <2>1, <2>2, OthersHoldInOrder
  <1> QED BY <1>2, <1>3 DEF LocksInOrder

\* The next wallet is above those that are held and below those that are not.
LEMMA LockWalletHoldsInOrder ==
    ASSUME ControlOK, LocksInOrder, NEW p \in Procs, LockWallet(p)
    PROVE  LocksInOrder'
  <1> DEFINE w == NextWallet(p)
  <1>1. /\ pc[p] # "idle" /\ ~WalletsLocked(p)
        /\ walletLock[w] = NoProc /\ walletLock' = [walletLock EXCEPT ![w] = p]
        /\ UNCHANGED <<houseLock, pc, req>> /\ pc[p] = "wallets"
    BY DEF LockWallet
  <1>2. w \in Unlocked(p) /\ \A v \in Unlocked(p) : w <= v
    BY <1>1, NextIsLeast
  <1>3. LockSet(req[p]) \subseteq Users /\ p # NoProc
    BY <1>1, RequestOf, ProcsAreNotNoProc
  <1> HIDE DEF w
  <1>4. /\ w \in Users /\ w \in LockSet(req[p])
        /\ \A v \in LockSet(req[p]) : walletLock[v] # p => w <= v
        /\ \A v \in Users : walletLock'[v] = IF v = w THEN p ELSE walletLock[v]
    BY <1>1, <1>2, <1>3 DEF Unlocked, ControlOK
  <1>5. HoldsInOrder(p)'
    <2>1. HoldsInOrder(p)
      BY DEF LocksInOrder
    <2>2. ASSUME NEW u \in Users, NEW v \in Users,
                 walletLock'[u] = p, v \in LockSet(req[p]), walletLock'[v] # p
          PROVE  u < v
      <3>1. v # w /\ walletLock[v] # p /\ w <= v /\ w \in Nat /\ v \in Nat
        BY <1>4, <2>2, UsersAreIds
      <3>2. CASE u = w
        BY <3>1, <3>2
      <3>3. CASE u # w
        BY <1>4, <2>1, <2>2, <3>1, <3>3 DEF HoldsInOrder
      <3> QED BY <3>2, <3>3
    <2>3. \A u \in Users : walletLock'[u] = p => u \in LockSet(req[p])
      BY <1>4, <2>1 DEF HoldsInOrder
    <2> QED BY <1>1, <2>1, <2>2, <2>3 DEF HoldsInOrder
  <1>6. ASSUME NEW q \in Procs \ {p}
        PROVE  HoldsInOrder(q)'
    <2>1. \A u \in Users : walletLock'[u] = q <=> walletLock[u] = q
      BY <1>1, <1>4, ProcsAreNotNoProc
    <2> QED BY <1>1, <2>1, OthersHoldInOrder
  <1> QED BY <1>5, <1>6 DEF LocksInOrder

(* The locks are taken in order by every step.                             *)
LEMMA LocksStayInOrder == IInv /\ LocksInOrder /\ [Next]_vars => LocksInOrder'
  <1> SUFFICES ASSUME IInv, LocksInOrder, [Next]_vars PROVE LocksInOrder'
    OBVIOUS
  <1>1. ControlOK
    BY DEF IInv, TypeOK, ControlOK
  <1>2. ASSUME NEW p \in Procs
        PROVE  houseLock = p => pc[p] \in {"draw", "post", "commit", "broken"}
    BY DEF LocksInOrder, HoldsInOrder
  <1>3. ASSUME NEW p \in Procs, Begin(p)
        PROVE  LocksInOrder'
    <2>1. PICK r \in Requests : Open(p, r) /\ UNCHANGED <<walletLock, houseLock>>
      BY <1>3 DEF Begin, BeginSpin, ClaimTopUp, BeginWithdrawal, BeginClosing, lockVars
    <2>2. /\ pc[p] = "idle" /\ pc' = [pc EXCEPT ![p] = "wallets"]
          /\ req' = [req EXCEPT ![p] = r] /\ houseLock # p
      BY <1>2, <2>1 DEF Open, Goto
    <2>3. "wallets" \in PCs /\ "wallets" # "idle"
      BY DEF PCs
    <2> QED BY <1>1, <2>1, <2>2, <2>3, MoveOnHoldsInOrder
  <1>4. ASSUME NEW p \in Procs, End(p)
        PROVE  LocksInOrder'
    BY <1>1, <1>4, EndHoldsNothing
  <1>5. ASSUME NEW p \in Procs, Step(p), ~End(p)
        PROVE  LocksInOrder'
    <2>1. CASE LockWallet(p)
      BY <1>1, <2>1, LockWalletHoldsInOrder
    <2>2. CASE CheckFunds(p)
      <3>1. /\ pc[p] = "wallets" /\ req' = req /\ walletLock' = walletLock
            /\ houseLock' = houseLock
            /\ \E where \in {"house", "draw"} : pc' = [pc EXCEPT ![p] = where]
        BY <1>5, <2>2 DEF CheckFunds, Abandon, Goto, lockVars
      <3>2. houseLock # p /\ {"house", "draw"} \subseteq PCs \ {"idle"}
        BY <1>2, <3>1 DEF PCs
      <3> QED BY <1>1, <3>1, <3>2, MoveOnHoldsInOrder
    <2>3. CASE LockHouse(p)
      <3>1. /\ req' = req /\ walletLock' = walletLock
            /\ houseLock = NoProc /\ houseLock' = p /\ pc' = [pc EXCEPT ![p] = "draw"]
        BY <1>5, <2>3 DEF LockHouse, Abandon, Goto
      <3>2. "draw" \in PCs \ {"idle"}
        BY DEF PCs
      <3> QED BY <1>1, <3>1, <3>2, MoveOnHoldsInOrder
    <2>4. CASE Draw(p) \/ PostSpin(p) \/ PostWithdrawal(p) \/ PostClosing(p)
      <3>1. /\ req' = req /\ walletLock' = walletLock /\ houseLock' = houseLock
            /\ \E where \in {"post", "commit", "broken"} : pc' = [pc EXCEPT ![p] = where]
        BY <1>5, <2>4 DEF Draw, PostSpin, PostWithdrawal, PostClosing, Abandon, Goto, lockVars
      <3>2. {"post", "commit", "broken"} \subseteq PCs \ {"idle"}
        BY DEF PCs
      <3> QED BY <1>1, <3>1, <3>2, MoveOnHoldsInOrder
    <2>5. CASE CommitSpin(p) \/ CommitTopUp(p) \/ CommitWithdrawal(p) \/ CommitClosing(p)
      BY <1>5, <2>5 DEF CommitSpin, CommitTopUp, CommitWithdrawal, CommitClosing
    <2> QED BY <1>5, <2>1, <2>2, <2>3, <2>4, <2>5 DEF Step
  <1>6. ASSUME NEW p \in Procs, Rollback(p)
        PROVE  LocksInOrder'
    BY <1>4, <1>6 DEF Rollback, Abandon
  <1>7. CASE UNCHANGED <<walletLock, houseLock, pc, req>>
    BY <1>7 DEF LocksInOrder, HoldsInOrder
  <1>8. CASE \/ \E u \in Suspendable, flag \in BOOLEAN : SetActive(u, flag)
             \/ \E u \in Users : CooldownPasses(u)
    BY <1>7, <1>8 DEF SetActive, CooldownPasses, lockVars
  <1> QED BY <1>3, <1>4, <1>5, <1>6, <1>7, <1>8 DEF Next, vars

LEMMA LocksAlwaysInOrder == Spec => []LocksInOrder
  <1>1. Init => LocksInOrder
    BY ProcsAreNotNoProc DEF Init, LocksInOrder, HoldsInOrder
  <1> QED BY <1>1, LocksStayInOrder, Invariance, PTL DEF Spec

\* Two transactions that insert one key lock one wallet, so they never meet.
LEMMA NoKeyContention ==
    ASSUME IInv, NEW p \in Procs, NEW q \in Procs, pc[p] = "draw", KeyContends(p, q)
    PROVE  FALSE
  <1>1. ControlOK /\ TxInv(p) /\ TxInv(q)
    BY DEF IInv, TypeOK, ControlOK
  <1>2. q # p /\ pc[q] \in {"post", "commit"} /\ req[q].user = req[p].user
    BY DEF KeyContends
  <1>3. /\ req[p].user \in LockSet(req[p]) /\ req[q].user \in LockSet(req[q])
    BY <1>1, <1>2, RequestOf
  <1>4. WalletsLocked(p) /\ WalletsLocked(q)
    BY <1>1, <1>2 DEF TxInv
  <1> QED BY <1>2, <1>3, <1>4, LockedMeansHeld

\* A circle would climb for ever.
LEMMA NoCircle ==
    ASSUME IInv, LocksInOrder
    PROVE  NoDeadlock
  <1> SUFFICES ASSUME NEW S \in SUBSET Procs, S # {},
                      \A p \in S : Blockers(p) \cap S # {}
               PROVE  FALSE
    BY DEF NoDeadlock
  <1>1. ControlOK
    BY DEF IInv, TypeOK, ControlOK
  <1>2. ASSUME NEW p \in S
        PROVE  pc[p] # "draw"
    <2>1. SUFFICES ASSUME pc[p] = "draw" PROVE FALSE
      OBVIOUS
    <2>2. Blockers(p) = {q \in Procs : KeyContends(p, q)}
      BY <2>1 DEF Blockers
    <2> QED BY <2>1, <2>2, NoKeyContention
  <1>3. ASSUME NEW p \in S
        PROVE  pc[p] \in {"wallets", "house"}
    BY <1>2 DEF Blockers
  <1>4. ASSUME NEW p \in S
        PROVE  pc[p] = "wallets"
    <2>1. SUFFICES ASSUME pc[p] = "house" PROVE FALSE
      BY <1>3
    <2>2. Blockers(p) = {houseLock}
      BY <2>1 DEF Blockers
    <2>3. houseLock \in S
      BY <2>2
    <2> QED BY <1>3, <2>3 DEF LocksInOrder, HoldsInOrder
  <1>5. ASSUME NEW p \in S
        PROVE  /\ ~WalletsLocked(p) /\ walletLock[NextWallet(p)] \in S
               /\ NextWallet(p) \in Unlocked(p) /\ NextWallet(p) \in Users
    <2>1. ~WalletsLocked(p) /\ Blockers(p) = {walletLock[NextWallet(p)]}
      BY <1>4 DEF Blockers
    <2>2. NextWallet(p) \in Unlocked(p)
      BY <1>1, <1>4, <2>1, NextIsLeast
    <2>3. Unlocked(p) \subseteq Users
      BY <1>1, <1>4, RequestOf DEF Unlocked
    <2> QED BY <2>1, <2>2, <2>3
  <1> DEFINE Wanted == {NextWallet(p) : p \in S}
  <1>6. Wanted \in SUBSET Nat /\ IsFiniteSet(Wanted) /\ Wanted # {}
    <2>1. Wanted \subseteq Users
      BY <1>5
    <2> HIDE DEF Wanted
    <2>2. IsFiniteSet(Wanted)
      BY <2>1, UsersAreIds, FS_Subset
    <2>3. Wanted # {}
      BY DEF Wanted
    <2> QED BY <2>1, <2>2, <2>3, UsersAreIds
  <1>7. PICK p \in S : \A v \in Wanted : v <= NextWallet(p)
    <2>1. PICK m \in Wanted : \A v \in Wanted : v <= m
      BY <1>6, GreatestNumber, Zenon
    <2> QED BY <2>1
  <1> DEFINE m == NextWallet(p)
             q == walletLock[m]
  <1>8. q \in S /\ q \in Procs /\ m \in Users
    BY <1>5, <1>7
  <1>9. /\ NextWallet(q) \in Unlocked(q) /\ NextWallet(q) \in Users
        /\ NextWallet(q) <= m
    BY <1>5, <1>7, <1>8
  <1>10. NextWallet(q) \in LockSet(req[q]) /\ walletLock[NextWallet(q)] # q
    BY <1>9 DEF Unlocked
  <1>11. m < NextWallet(q)
    BY <1>8, <1>9, <1>10 DEF LocksInOrder, HoldsInOrder
  <1>12. m \in Nat /\ NextWallet(q) \in Nat
    BY <1>8, <1>9, UsersAreIds
  <1> HIDE DEF m, q
  <1> QED BY <1>9, <1>11, <1>12

(* No set of transactions ever waits in a circle, for any number of        *)
(* players who refer each other and any number of goroutines: wallets are  *)
(* locked in the order of their ids, the house after them.                 *)
THEOREM NeverDeadlocked == Spec => []NoDeadlock
  <1>1. IInv /\ LocksInOrder => NoDeadlock
    BY NoCircle
  <1> QED BY <1>1, Invariance, LocksAlwaysInOrder, PTL

=============================================================================
