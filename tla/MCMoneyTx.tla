----------------------------- MODULE MCMoneyTx ------------------------------
(* Two players who refer each other, as the lock order has to allow for, a *)
(* third whose spins share no wallet with theirs, and a house that can pay *)
(* the 200x once but not twice.                                            *)
EXTENDS MoneyTx, Integrity, TLC

mcUsers == {1, 2, 3}
mcReferrer == [u \in mcUsers |-> IF u = 3 THEN 0 ELSE 3 - u]
mcMults == {0, 2000000}
mcInitReal == [u \in mcUsers |-> IF u = 1 THEN 101 ELSE 50]
mcInitDemo == [u \in mcUsers |-> 60]

Play(u, isReal, stake, ref) ==
    [op |-> "spin", user |-> u, isReal |-> isReal, amount |-> stake, ref |-> ref]
Other(op, u, amount, ref) ==
    [op |-> op, user |-> u, isReal |-> TRUE, amount |-> amount, ref |-> ref]

mcRequests ==
    {Play(1, TRUE, 50, "r1"), Play(1, FALSE, 50, "r1"), Play(2, TRUE, 50, "r1"),
     Play(3, TRUE, 50, "r1"), Other("topup", 1, 0, "r1"),
     Other("withdraw", 1, 60, "w1"), Other("settle", 1, 60, "w1"), Other("fail", 1, 60, "w1")}

(* The two who refer each other, practice and a top-up, for liveness.      *)
mcLiveRequests ==
    {Play(1, TRUE, 50, "r1"), Play(2, TRUE, 50, "r1"), Play(1, FALSE, 50, "r2"),
     Other("topup", 1, 0, "r1")}

ProcSymmetry == Permutations(Procs)
=============================================================================
