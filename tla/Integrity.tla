----------------------------- MODULE Integrity ------------------------------
(***************************************************************************)
(* The integrity checks the server can run at any time on the tables that  *)
(* are committed (internal/wallet/invariant.go).  A check is one SELECT,   *)
(* and so sees one state of the tables; its rows are what it complains of. *)
(*                                                                         *)
(* Not here: I4, because no code fills table deposits, I8, which reads the *)
(* catalogue, and the columns payout_cents and rake_cents of a spin, which *)
(* this model computes where it needs them.                                *)
(***************************************************************************)
EXTENDS Bank

\* Table transactions: its rows, each with the wallet and realm it is about.
Transactions ==
    UNION {{[user |-> k[1], isReal |-> k[2], row |-> books.ledger[k][i], at |-> i] :
                i \in 1..Len(books.ledger[k])} : k \in Users \X BOOLEAN}

Legs(ts, kind, ref) == {t \in ts : t.row.kind = kind /\ t.row.ref = ref}

SumOf(ts) == Total([t \in ts |-> t.row.amount])

\* Every wallet balance is derivable from the ledger.
I1(ts) == {u \in Users :
         \E isReal \in BOOLEAN :
            Spendable(books.wallets[u], isReal)
               # SumOf({t \in ts : t.user = u /\ t.isReal = isReal})}

\* No balance is negative.
I2 == {u \in Users : \E c \in {"real", "demo", "held"} : books.wallets[u][c] < 0}
      \cup {c \in {"bankroll", "rake"} : books.house[c] < 0}

\* Demo and real money never mix.
I3(ts) == {t \in ts :
         IF t.isReal THEN t.row.kind = "demo_grant"
         ELSE t.row.kind \in {"deposit", "withdraw", "withdraw_reversed", "referral"}}

OpenWithdrawals == {w \in withdrawals : w.status \in OpenStatus}

\* Withdrawal holds reconcile exactly against open withdrawals.
I5 == {held \in {Total([u \in Users |-> books.wallets[u].held])} :
         held # Total([w \in OpenWithdrawals |-> w.amount])}

\* Every closed withdrawal is settled or reversed, never both, never neither.
I5b(ts) == {w \in withdrawals :
          \/ Cardinality(Legs(ts, "withdraw", <<w.user, w.ref>>)) # 1
          \/ Cardinality(Legs(ts, "withdraw_reversed", <<w.user, w.ref>>))
                # IF w.status = "failed" THEN 1 ELSE 0}

\* Spins are fully recorded.
I6(ts) == {s \in spins :
         LET bets   == Legs(ts, "bet", SpinId(s))
             wins   == Legs(ts, "win", SpinId(s))
             payout == Payout(s.stake, s.mult)
         IN \/ Cardinality(bets) # 1
            \/ SumOf(bets) # -s.stake
            \/ payout > 0 /\ (Cardinality(wins) # 1 \/ SumOf(wins) # payout)
            \/ payout = 0 /\ wins # {}}

\* Referral commissions are bounded, non-reflexive and paid to the referrer.
I7(ts) == {t \in ts :
         /\ t.row.kind = "referral"
         /\ \E s \in spins :
               /\ SpinId(s) = t.row.ref
               /\ \/ t.user = s.user
                  \/ t.user # Referrer[s.user]
                  \/ t.row.amount \notin 1..s.stake}

Invariants ==
    LET ts == Transactions
    IN [I1 |-> I1(ts), I2 |-> I2, I3 |-> I3(ts), I5 |-> I5, I5b |-> I5b(ts),
        I6 |-> I6(ts), I7 |-> I7(ts)]
-----------------------------------------------------------------------------
(* AssertInvariant never complains, whenever it is run: between any two    *)
(* commits of concurrent spins, top-ups and withdrawals, every check finds *)
(* the tables in order, so an alarm in production is never a false one.    *)
AlwaysHealthy ==
    LET checks == Invariants IN \A id \in DOMAIN checks : checks[id] = {}
=============================================================================
