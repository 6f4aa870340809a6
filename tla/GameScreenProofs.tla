-------------------------- MODULE GameScreenProofs --------------------------
(***************************************************************************)
(* Proofs about GameScreen, for any number of presses, reads and credits   *)
(* and any payouts.  The argument: the button is the only way to a bet and *)
(* the phase that paints it is that of the one round under way, so results *)
(* reach the screen in the order the server played them.                   *)
(***************************************************************************)
EXTENDS GameScreen, TLAPS

(* The first screen.                                                       *)
LEMMA InitHolds == Init => ScreenInv
<1> SUFFICES ASSUME Init PROVE ScreenInv
  OBVIOUS
<1>1. TypeOK
  <2>1. /\ wallet \in [Modes -> Nat] /\ ver \in [Modes -> Nat \ {0}] /\ credits \in 0..MaxCredits
        /\ shown \in [Modes -> Int] /\ shownVer \in [Modes -> Nat]
    <3>1. CASE signedIn
      BY <3>1, OpeningIsTyped, CreditsAreCounted DEF Init
    <3>2. CASE ~signedIn
      BY <3>2, OpeningIsTyped, CreditsAreCounted DEF Init
    <3> QED
      BY <3>1, <3>2
  <2>2. disabled \in BOOLEAN /\ signedIn \in BOOLEAN /\ mounted \in BOOLEAN /\ behind \in BOOLEAN
    BY Zenon DEF Init
  <2>3. /\ answer \in [Rounds -> NoAnswers \cup Results]
        /\ read \in [Reads -> NoAnswers \cup Snapshots]
        /\ round \in [Rounds -> {"unpressed"}] /\ bet \in [Rounds -> Modes]
        /\ here \subseteq Rounds /\ phase = "idle" /\ mode \in Modes
    BY DEF Init, NoAnswers, Modes
  <2> QED
    BY <2>1, <2>2, <2>3 DEF TypeOK
<1>2. /\ \A m \in Modes : ver[m] = 1 /\ shownVer[m] \in {0, 1}
      /\ \A m \in Modes : shownVer[m] = 1 => shown[m] = wallet[m]
  <2>1. CASE signedIn
    BY <2>1 DEF Init
  <2>2. CASE ~signedIn
    BY <2>2 DEF Init
  <2> QED
    BY <2>1, <2>2
<1>3. ShownIsTheWallet
  BY <1>2 DEF ShownIsTheWallet
<1>4. \A r \in Rounds : round[r] = "unpressed" /\ answer[r] = Waiting /\ ~Replied(r)
  BY DEF Init, Replied, NoAnswers
<1>5. \A i \in Reads : read[i] \in NoAnswers
  BY DEF Init, NoAnswers
<1>6. VersionInv
  BY <1>2, <1>4, <1>5 DEF VersionInv
<1>7. OrderInv /\ OneBetAtATime /\ SettledRoundsCount
  BY <1>4 DEF OrderInv, OneBetAtATime, SettledRoundsCount, Unresolved
<1>8. PhaseInv
  <2>1. \A r \in Rounds : round[r] = "unpressed"
    BY <1>4
  <2>2. phase = "idle" /\ (~disabled => mounted)
    BY Zenon DEF Init
  <2> QED
    BY <2>1, <2>2 DEF PhaseInv
<1> QED
  BY <1>1, <1>3, <1>6, <1>7, <1>8 DEF ScreenInv

(* What a round under way implies of the others.                           *)
LEMMA Alone ==
  ASSUME ScreenInv, NEW r \in Rounds, round[r] \in Unresolved
  PROVE  \A q \in Rounds \ {r} : round[q] \notin Unresolved
BY DEF ScreenInv, OneBetAtATime

LEMMA NoneWhenIdle ==
  ASSUME ScreenInv, phase = "idle"
  PROVE  \A q \in Rounds : round[q] \notin Unresolved
BY DEF ScreenInv, PhaseInv, Unresolved

(* A wallet that moves gets a number that no answer and no read has.       *)
LEMMA PlayKeeps ==
  ASSUME ScreenInv, NEW r \in Rounds, Play(r)
  PROVE  ScreenInv'
<1>1. UNCHANGED <<credits, round, bet, here, phase, shown, shownVer, behind, mode, signedIn,
                  mounted, disabled, read>>
  BY DEF Play, roundVars, balanceVars, screenVars
<1>2. CASE answer' = [answer EXCEPT ![r] = Nothing] /\ UNCHANGED <<wallet, ver>>
  <2>1. \A q \in Rounds : Replied(q)' => Replied(q) /\ answer'[q] = answer[q]
    BY <1>2 DEF Replied, NoAnswers, ScreenInv, TypeOK
  <2>2. \A q \in Rounds : Replied(q) => answer'[q] = answer[q] /\ Replied(q)'
    BY <1>2 DEF Replied, NoAnswers, ScreenInv, TypeOK, Play
  <2>3. TypeOK'
    BY <1>1, <1>2 DEF ScreenInv, TypeOK, NoAnswers
  <2>4. PhaseInv' /\ OneBetAtATime' /\ ShownIsTheWallet'
    BY <1>1, <1>2 DEF ScreenInv, PhaseInv, OneBetAtATime, ShownIsTheWallet
  <2>5. VersionInv'
    <3>1. \A q \in Rounds : round[q] = "unpressed" => answer'[q] = Waiting
      BY <1>2 DEF Play, ScreenInv, VersionInv, TypeOK
    <3> QED
      BY <1>1, <1>2, <2>1, <2>2, <3>1 DEF ScreenInv, VersionInv
  <2>6. OrderInv' /\ SettledRoundsCount'
    BY <1>1, <1>2, <2>1, <2>2 DEF ScreenInv, OrderInv, SettledRoundsCount, VersionInv
  <2> QED
    BY <2>3, <2>4, <2>5, <2>6 DEF ScreenInv
<1>3. CASE \E payout \in Payouts :
             /\ wallet[bet[r]] >= Stake
             /\ Moved(bet[r], wallet[bet[r]] - Stake + payout)
             /\ answer' = [answer EXCEPT ![r] =
                   [balance |-> wallet[bet[r]] - Stake + payout, payout |-> payout,
                    ver |-> ver[bet[r]] + 1]]
  <2> DEFINE m == bet[r]
  <2>1. PICK payout \in Payouts :
             /\ wallet[m] >= Stake
             /\ Moved(m, wallet[m] - Stake + payout)
             /\ answer' = [answer EXCEPT ![r] =
                   [balance |-> wallet[m] - Stake + payout, payout |-> payout,
                    ver |-> ver[m] + 1]]
    BY <1>3
  <2>2. m \in Modes /\ wallet[m] \in Nat /\ ver[m] \in Nat \ {0} /\ payout \in Nat
    BY PayoutsAreCents DEF ScreenInv, TypeOK
  <2>3. wallet[m] - Stake + payout \in Nat
    BY <2>1, <2>2 DEF Stake
  <2>4. /\ wallet' = [wallet EXCEPT ![m] = wallet[m] - Stake + payout]
        /\ ver' = [ver EXCEPT ![m] = ver[m] + 1]
    BY <2>1 DEF Moved
  <2>5. TypeOK'
    BY <1>1, <2>1, <2>2, <2>3, <2>4 DEF ScreenInv, TypeOK, Results
  <2>6. \A k \in Modes : /\ ver[k] <= ver'[k]
                         /\ k # m => ver'[k] = ver[k] /\ wallet'[k] = wallet[k]
    BY <2>2, <2>4 DEF ScreenInv, TypeOK
  <2>7. /\ ver'[m] = ver[m] + 1 /\ wallet'[m] = wallet[m] - Stake + payout
        /\ answer'[r].ver = ver'[m] /\ answer'[r].balance = wallet'[m]
    BY <2>1, <2>2, <2>4 DEF ScreenInv, TypeOK
  <2>8. \A q \in Rounds \ {r} : answer'[q] = answer[q] /\ Replied(q)' = Replied(q)
    BY <2>1 DEF Replied, ScreenInv, TypeOK
  <2>9. ~Replied(r) /\ round[r] # "unpressed" /\ round[r] # "settled"
    BY DEF Play, Replied, NoAnswers, ScreenInv, VersionInv
  <2>10. PhaseInv' /\ OneBetAtATime'
    BY <1>1 DEF ScreenInv, PhaseInv, OneBetAtATime
  <2>11. ShownIsTheWallet'
    BY <1>1, <2>2, <2>6, <2>7 DEF ScreenInv, ShownIsTheWallet, VersionInv, TypeOK
  <2>12. VersionInv'
    <3>1. \A k \in Modes : shownVer'[k] <= ver'[k]
      BY <1>1, <2>6, <2>5 DEF ScreenInv, VersionInv, TypeOK
    <3>2. \A q \in Rounds : Replied(q) => answer[q].ver \in Nat /\ bet[q] \in Modes
      BY DEF ScreenInv, TypeOK, Replied, Results
    <3>3. \A q \in Rounds \ {r} :
             Replied(q)' => /\ answer'[q].ver <= ver'[bet[q]]
                            /\ answer'[q].ver = ver'[bet[q]] =>
                                  answer'[q].balance = wallet'[bet[q]]
      BY <2>2, <2>5, <2>6, <2>7, <2>8, <3>2 DEF ScreenInv, VersionInv, TypeOK
    <3>4. \A i \in Reads : read[i] \notin NoAnswers =>
             \A k \in Modes : /\ read[i].ver[k] <= ver'[k]
                              /\ read[i].ver[k] = ver'[k] => read[i].bal[k] = wallet'[k]
      <4>1. \A i \in Reads : read[i] \notin NoAnswers => read[i].ver \in [Modes -> Nat]
        BY DEF ScreenInv, TypeOK, Snapshots
      <4> QED
        BY <2>2, <2>5, <2>6, <2>7, <4>1 DEF ScreenInv, VersionInv, TypeOK
    <3>5. \A q \in Rounds : /\ round'[q] = "unpressed" => answer'[q] = Waiting
                            /\ round'[q] \in {"found", "turning", "settled"} => Replied(q)'
      <4>1. round[r] \notin {"found", "turning", "settled"}
        BY <2>9 DEF ScreenInv, VersionInv
      <4> QED
        BY <1>1, <2>8, <2>9, <4>1 DEF ScreenInv, VersionInv
    <3>6. /\ answer'[r].ver <= ver'[bet[r]]
          /\ (answer'[r].ver = ver'[bet[r]] => answer'[r].balance = wallet'[bet[r]])
      BY <2>2, <2>5, <2>7
    <3> QED
      BY <1>1, <3>1, <3>3, <3>4, <3>5, <3>6 DEF VersionInv
  <2>13. OrderInv'
    <3> SUFFICES ASSUME NEW q \in Rounds, NEW s \in Rounds,
                        round[q] = "settled", round[s] \in Unresolved, Replied(s)',
                        bet[q] = bet[s]
                 PROVE  answer'[q].ver <= answer'[s].ver
      BY <1>1 DEF OrderInv
    <3>1. q # r /\ answer'[q] = answer[q] /\ Replied(q)
      BY <2>8, <2>9 DEF ScreenInv, VersionInv
    <3>2. CASE s = r
      BY <2>2, <2>7, <3>1, <3>2 DEF ScreenInv, VersionInv, TypeOK, Replied, Results
    <3>3. CASE s # r
      BY <2>8, <3>1, <3>3 DEF ScreenInv, OrderInv
    <3> QED
      BY <3>2, <3>3
  <2>14. SettledRoundsCount'
    BY <1>1, <2>8, <2>9 DEF ScreenInv, SettledRoundsCount
  <2> QED
    BY <2>5, <2>10, <2>11, <2>12, <2>13, <2>14 DEF ScreenInv
<1> QED
  BY <1>2, <1>3 DEF Play

(* What is looked up is the wallet of that instant, which counts all that  *)
(* is settled.                                                             *)
LEMMA LookUpKeeps ==
  ASSUME ScreenInv, NEW r \in Rounds, LookUp(r)
  PROVE  ScreenInv'
<1>1. /\ UNCHANGED <<wallet, ver, credits, bet, here, phase, shown, shownVer, behind, mode,
                     signedIn, mounted, disabled, read>>
      /\ round[r] = "checking" /\ round' = [round EXCEPT ![r] = "found"]
  BY DEF LookUp, balanceVars, screenVars
<1>2. answer[r] \in Results /\ Replied(r)
  BY DEF LookUp, Replied, ScreenInv, TypeOK
<1>3. bet[r] \in Modes /\ wallet[bet[r]] \in Nat /\ ver[bet[r]] \in Nat
  BY DEF ScreenInv, TypeOK
<1>4. PICK a \in Results : /\ a.balance = wallet[bet[r]] /\ a.ver = ver[bet[r]]
                           /\ answer' = [answer EXCEPT ![r] = a]
  <2> DEFINE a == [answer[r] EXCEPT !.balance = wallet[bet[r]], !.ver = ver[bet[r]]]
  <2>1. a \in Results /\ a.balance = wallet[bet[r]] /\ a.ver = ver[bet[r]]
    BY <1>2, <1>3 DEF Results
  <2>2. answer' = [answer EXCEPT ![r] = a]
    BY DEF LookUp
  <2> QED
    BY <2>1, <2>2
<1>5. /\ round'[r] = "found" /\ answer'[r] = a /\ Replied(r)'
      /\ \A q \in Rounds \ {r} :
            /\ round'[q] = round[q] /\ round[q] \notin Unresolved
            /\ answer'[q] = answer[q] /\ Replied(q)' = Replied(q)
  <2>1. answer'[r] = a /\ Replied(r)'
    BY <1>4, AnswersAreOther DEF ScreenInv, TypeOK, Replied
  <2> QED
    BY <1>1, <1>4, <2>1, Alone DEF ScreenInv, TypeOK, Replied, Unresolved
<1>6. TypeOK'
  BY <1>1, <1>4 DEF ScreenInv, TypeOK, Unresolved
<1>7. PhaseInv' /\ OneBetAtATime' /\ ShownIsTheWallet'
  BY <1>1, <1>5 DEF ScreenInv, PhaseInv, OneBetAtATime, ShownIsTheWallet, Unresolved
<1>8. VersionInv'
  BY <1>1, <1>3, <1>4, <1>5 DEF ScreenInv, VersionInv
<1>9. OrderInv'
  <2> SUFFICES ASSUME NEW q \in Rounds, round'[q] = "settled", bet[q] = bet[r]
               PROVE  answer'[q].ver <= ver[bet[r]]
    BY <1>1, <1>4, <1>5 DEF OrderInv
  <2> QED
    BY <1>5 DEF ScreenInv, VersionInv
<1>10. SettledRoundsCount'
  BY <1>1, <1>5 DEF ScreenInv, SettledRoundsCount
<1> QED
  BY <1>6, <1>7, <1>8, <1>9, <1>10 DEF ScreenInv

LEMMA CreditKeeps ==
  ASSUME ScreenInv, NEW m \in Modes, Credit(m)
  PROVE  ScreenInv'
<1>1. UNCHANGED <<answer, round, bet, here, phase, shown, shownVer, behind, mode, signedIn,
                  mounted, disabled, read>>
  BY DEF Credit, roundVars, balanceVars, screenVars
<1>2. wallet[m] \in Nat /\ ver[m] \in Nat \ {0} /\ credits' \in 0..MaxCredits
  BY CreditsAreCounted DEF ScreenInv, TypeOK, Credit
<1>3. /\ wallet' = [wallet EXCEPT ![m] = wallet[m] + 1]
      /\ ver' = [ver EXCEPT ![m] = ver[m] + 1]
  BY DEF Credit, Moved
<1>4. TypeOK'
  BY <1>1, <1>2, <1>3 DEF ScreenInv, TypeOK
<1>5. /\ ver'[m] = ver[m] + 1
      /\ \A k \in Modes : /\ ver[k] <= ver'[k]
                          /\ k # m => ver'[k] = ver[k] /\ wallet'[k] = wallet[k]
  BY <1>2, <1>3 DEF ScreenInv, TypeOK
<1>9. \A k \in Modes : /\ ver[k] \in Nat /\ ver'[k] \in Nat
                       /\ wallet[k] \in Nat /\ wallet'[k] \in Nat
                       /\ shownVer[k] \in Nat /\ shownVer'[k] = shownVer[k]
  BY <1>1, <1>4 DEF ScreenInv, TypeOK
<1>6. PhaseInv' /\ OneBetAtATime' /\ OrderInv' /\ SettledRoundsCount'
  BY <1>1 DEF ScreenInv, PhaseInv, OneBetAtATime, OrderInv, SettledRoundsCount, Replied
<1>7. ShownIsTheWallet'
  BY <1>1, <1>5, <1>9 DEF ScreenInv, ShownIsTheWallet, VersionInv
<1>8. VersionInv'
  <2>1. \A q \in Rounds : Replied(q) => answer[q].ver \in Nat /\ bet[q] \in Modes
    BY DEF ScreenInv, TypeOK, Replied, Results
  <2>2. \A i \in Reads : read[i] \notin NoAnswers => read[i].ver \in [Modes -> Nat]
    BY DEF ScreenInv, TypeOK, Snapshots
  <2>3. \A k \in Modes : shownVer'[k] <= ver'[k]
    BY <1>5, <1>9 DEF ScreenInv, VersionInv
  <2>4. \A q \in Rounds :
           /\ round'[q] = "unpressed" => answer'[q] = Waiting
           /\ round'[q] \in {"found", "turning", "settled"} => Replied(q)'
           /\ Replied(q)' => /\ answer'[q].ver <= ver'[bet'[q]]
                             /\ answer'[q].ver = ver'[bet'[q]] =>
                                   answer'[q].balance = wallet'[bet'[q]]
    BY <1>1, <1>5, <1>9, <2>1 DEF ScreenInv, VersionInv, Replied
  <2>5. \A i \in Reads : read'[i] \notin NoAnswers =>
           \A k \in Modes : /\ read'[i].ver[k] <= ver'[k]
                            /\ read'[i].ver[k] = ver'[k] => read'[i].bal[k] = wallet'[k]
    BY <1>1, <1>5, <1>9, <2>2 DEF ScreenInv, VersionInv
  <2> QED
    BY <2>3, <2>4, <2>5 DEF VersionInv
<1> QED
  BY <1>4, <1>6, <1>7, <1>8 DEF ScreenInv

(* The button after a change of the phase.                                 *)
LEMMA PhaseToPaints ==
  ASSUME NEW ph, NEW balances, PhaseTo(ph, balances), TypeOK
  PROVE  /\ phase' = ph /\ disabled' \in BOOLEAN
         /\ ~disabled' => mounted' /\ ~Busy(ph)
         /\ UNCHANGED <<mode, signedIn, mounted>>
BY Zenon DEF PhaseTo, Painted

(* A press is the only round under way.                                    *)
LEMMA PressKeeps ==
  ASSUME ScreenInv, NEW r \in Rounds, PressSpin(r)
  PROVE  ScreenInv'
<1>1. UNCHANGED <<serverVars, balanceVars, read>> /\ round[r] = "unpressed"
  BY DEF PressSpin
<1>2. \A q \in Rounds : round[q] \notin Unresolved
  BY NoneWhenIdle DEF PressSpin, ScreenInv, PhaseInv
<1>3. /\ phase' = "requesting" /\ disabled' \in BOOLEAN /\ disabled'
      /\ UNCHANGED <<mode, signedIn, mounted>>
  BY PhaseToPaints DEF PressSpin, ScreenInv, Busy
<1>4. /\ round' = [round EXCEPT ![r] = "sent"] /\ bet' = [bet EXCEPT ![r] = mode]
      /\ here' = here \cup {r}
  BY DEF PressSpin
<1>5. TypeOK'
  BY <1>1, <1>3, <1>4 DEF ScreenInv, TypeOK, Unresolved, serverVars, balanceVars
<1>6. /\ round'[r] = "sent" /\ ~Replied(r) /\ ~Replied(r)'
      /\ \A q \in Rounds \ {r} : round'[q] = round[q] /\ bet'[q] = bet[q]
      /\ \A q \in Rounds : answer'[q] = answer[q] /\ Replied(q)' = Replied(q)
  BY <1>1, <1>4 DEF ScreenInv, TypeOK, VersionInv, Replied, NoAnswers, serverVars
<1>7. PhaseInv' /\ OneBetAtATime'
  BY <1>2, <1>3, <1>6 DEF PhaseInv, OneBetAtATime, Unresolved
<1>8. VersionInv' /\ ShownIsTheWallet'
  BY <1>1, <1>6 DEF ScreenInv, VersionInv, ShownIsTheWallet, serverVars, balanceVars
<1>9. OrderInv'
  BY <1>2, <1>6 DEF ScreenInv, OrderInv
<1>10. SettledRoundsCount'
  BY <1>1, <1>6 DEF ScreenInv, SettledRoundsCount, serverVars, balanceVars
<1> QED
  BY <1>5, <1>7, <1>8, <1>9, <1>10 DEF ScreenInv

(* A round that ends unsettled, or goes on being looked up, leaves the     *)
(* balances.                                                               *)
LEMMA EndKeeps ==
  ASSUME ScreenInv, NEW r \in Rounds, round[r] \in {"sent", "checking", "found"},
         NEW where, NEW ph, RoundTo(r, where), PhaseTo(ph, shown),
         <<where, ph>> \in {<<"told", "idle">>, <<"checking", "checking">>},
         UNCHANGED <<serverVars, balanceVars, read>>
  PROVE  ScreenInv'
<1>1. /\ round' = [round EXCEPT ![r] = where] /\ bet' = bet /\ here' = here
      /\ phase' = ph /\ disabled' \in BOOLEAN /\ (~disabled' => mounted' /\ ~Busy(ph))
      /\ UNCHANGED <<mode, signedIn, mounted>>
  BY PhaseToPaints DEF RoundTo, ScreenInv
<1>2. TypeOK'
  BY <1>1 DEF ScreenInv, TypeOK, Unresolved, serverVars, balanceVars
<1>3. /\ round'[r] = where
      /\ \A q \in Rounds \ {r} : round'[q] = round[q] /\ round[q] \notin Unresolved
      /\ \A q \in Rounds : answer'[q] = answer[q] /\ Replied(q)' = Replied(q)
  BY <1>1, Alone DEF ScreenInv, TypeOK, Replied, Unresolved, serverVars
<1>4. PhaseInv' /\ OneBetAtATime'
  BY <1>1, <1>3 DEF PhaseInv, OneBetAtATime, Unresolved, Busy
<1>5. VersionInv' /\ ShownIsTheWallet'
  BY <1>1, <1>3 DEF ScreenInv, VersionInv, ShownIsTheWallet, serverVars, balanceVars
<1>6. OrderInv'
  BY <1>1, <1>3 DEF ScreenInv, OrderInv, Unresolved
<1>7. SettledRoundsCount'
  BY <1>1, <1>3 DEF ScreenInv, SettledRoundsCount, serverVars, balanceVars
<1> QED
  BY <1>2, <1>4, <1>5, <1>6, <1>7 DEF ScreenInv

(* The wheel starts to turn: the balance claims no state of its wallet.    *)
LEMMA TurnKeeps ==
  ASSUME ScreenInv, NEW r \in Rounds, round[r] \in {"sent", "found"}, Replied(r),
         RoundTo(r, "turning"),
         SetBalance(r, BalanceAfterStake(answer[r].balance, answer[r].payout), 0),
         PhaseTo("spinning", shown'),
         UNCHANGED <<serverVars, read>>
  PROVE  ScreenInv'
<1>1. /\ round' = [round EXCEPT ![r] = "turning"] /\ bet' = bet /\ here' = here
      /\ phase' = "spinning" /\ disabled' \in BOOLEAN /\ disabled'
      /\ UNCHANGED <<mode, signedIn, mounted>>
  BY PhaseToPaints DEF RoundTo, ScreenInv, Busy
<1>2. /\ shown' = [shown EXCEPT ![bet[r]] = answer[r].balance - answer[r].payout]
      /\ shownVer' = [shownVer EXCEPT ![bet[r]] = 0] /\ behind' = behind
  BY DEF SetBalance, BalanceAfterStake
<1>3. answer[r].balance - answer[r].payout \in Int /\ bet[r] \in Modes
  BY DEF ScreenInv, TypeOK, Replied, Results
<1>4. TypeOK'
  BY <1>1, <1>2, <1>3 DEF ScreenInv, TypeOK, Unresolved, serverVars
<1>5. /\ round'[r] = "turning"
      /\ \A q \in Rounds \ {r} : round'[q] = round[q] /\ round[q] \notin Unresolved
      /\ \A q \in Rounds : answer'[q] = answer[q] /\ Replied(q)' = Replied(q)
      /\ \A m \in Modes : IF m = bet[r] THEN shownVer'[m] = 0
                         ELSE shownVer'[m] = shownVer[m] /\ shown'[m] = shown[m]
  BY <1>1, <1>2, Alone DEF ScreenInv, TypeOK, Replied, Unresolved, serverVars
<1>6. PhaseInv' /\ OneBetAtATime'
  BY <1>1, <1>5 DEF PhaseInv, OneBetAtATime, Unresolved
<1>7. ShownIsTheWallet'
  <2>1. \A m \in Modes : ver[m] # 0 /\ ver'[m] = ver[m] /\ wallet'[m] = wallet[m]
    BY DEF ScreenInv, TypeOK, serverVars
  <2> QED
    BY <1>5, <2>1 DEF ScreenInv, ShownIsTheWallet
<1>8. VersionInv'
  <2>1. \A m \in Modes : shownVer'[m] <= ver'[m]
    BY <1>5 DEF ScreenInv, VersionInv, TypeOK, serverVars
  <2> QED
    BY <1>1, <1>5, <2>1 DEF ScreenInv, VersionInv, serverVars
<1>9. OrderInv'
  BY <1>1, <1>5 DEF ScreenInv, OrderInv, Unresolved
<1>10. SettledRoundsCount'
  <2> SUFFICES ASSUME NEW q \in Rounds, round'[q] = "settled", ~behind'
               PROVE  \/ shownVer'[bet'[q]] >= answer'[q].ver
                      \/ \E s \in Rounds : round'[s] \in {"turning", "stuck"}
                                          /\ bet'[s] = bet'[q]
    BY DEF SettledRoundsCount
  <2>1. CASE bet[q] = bet[r]
    BY <1>1, <1>5, <2>1
  <2>2. CASE bet[q] # bet[r]
    <3>1. q # r /\ round[q] = "settled" /\ bet[q] \in Modes
      BY <1>5 DEF ScreenInv, TypeOK
    <3>2. CASE shownVer[bet[q]] >= answer[q].ver
      BY <1>1, <1>5, <2>2, <3>1, <3>2
    <3>3. CASE \E s \in Rounds : round[s] \in {"turning", "stuck"} /\ bet[s] = bet[q]
      BY <1>1, <1>5, <2>2, <3>3
    <3> QED
      BY <1>2, <3>1, <3>2, <3>3 DEF ScreenInv, SettledRoundsCount
  <2> QED
    BY <2>1, <2>2
<1> QED
  BY <1>4, <1>6, <1>7, <1>8, <1>9, <1>10 DEF ScreenInv

(* It settles: the balance is that of the latest round of its wallet.      *)
LEMMA SettleKeeps ==
  ASSUME ScreenInv, NEW r \in Rounds, round[r] \in Unresolved, Replied(r), Settle(r),
         UNCHANGED <<serverVars, read>>
  PROVE  ScreenInv'
<1>1. /\ round' = [round EXCEPT ![r] = "settled"] /\ bet' = bet /\ here' = here
      /\ phase' = "idle" /\ disabled' \in BOOLEAN /\ (~disabled' => mounted')
      /\ UNCHANGED <<mode, signedIn, mounted>>
  BY PhaseToPaints DEF Settle, RoundTo, ScreenInv
<1>2. /\ shown' = [shown EXCEPT ![bet[r]] = answer[r].balance]
      /\ shownVer' = [shownVer EXCEPT ![bet[r]] = answer[r].ver] /\ behind' = behind
  BY DEF Settle, SetBalance
<1>3. answer[r].balance \in Nat /\ answer[r].ver \in Nat /\ bet[r] \in Modes
  BY DEF ScreenInv, TypeOK, Replied, Results
<1>4. TypeOK'
  BY <1>1, <1>2, <1>3 DEF ScreenInv, TypeOK, serverVars
<1>5. /\ round'[r] = "settled"
      /\ \A q \in Rounds \ {r} : round'[q] = round[q] /\ round[q] \notin Unresolved
      /\ \A q \in Rounds : answer'[q] = answer[q] /\ Replied(q)' = Replied(q)
      /\ shownVer'[bet[r]] = answer[r].ver /\ shown'[bet[r]] = answer[r].balance
      /\ \A m \in Modes \ {bet[r]} : shownVer'[m] = shownVer[m] /\ shown'[m] = shown[m]
  BY <1>1, <1>2, <1>3, Alone DEF ScreenInv, TypeOK, Replied, serverVars
<1>6. PhaseInv' /\ OneBetAtATime'
  BY <1>1, <1>5 DEF PhaseInv, OneBetAtATime, Unresolved
<1>7. ShownIsTheWallet' /\ \A m \in Modes : shownVer'[m] <= ver'[m]
  <2>1. /\ answer[r].ver <= ver[bet[r]]
        /\ answer[r].ver = ver[bet[r]] => answer[r].balance = wallet[bet[r]]
    BY DEF ScreenInv, VersionInv
  <2>2. ver' = ver /\ wallet' = wallet
    BY DEF serverVars
  <2> QED
    BY <1>5, <2>1, <2>2 DEF ScreenInv, ShownIsTheWallet, VersionInv
<1>8. VersionInv'
  BY <1>1, <1>5, <1>7 DEF ScreenInv, VersionInv, serverVars
<1>9. OrderInv'
  BY <1>1, <1>5 DEF OrderInv, Unresolved
<1>10. SettledRoundsCount'
  <2> SUFFICES ASSUME NEW q \in Rounds, round'[q] = "settled", ~behind'
               PROVE  \/ shownVer'[bet'[q]] >= answer'[q].ver
                      \/ \E s \in Rounds : round'[s] \in {"turning", "stuck"}
                                          /\ bet'[s] = bet'[q]
    BY DEF SettledRoundsCount
  <2>1. CASE q = r
    BY <1>1, <1>3, <1>5, <2>1
  <2>2. CASE q # r /\ bet[q] = bet[r]
    <3>1. answer[q].ver <= answer[r].ver
      BY <1>5, <2>2 DEF ScreenInv, OrderInv
    <3>2. answer[q].ver \in Nat
      BY <1>5, <2>2 DEF ScreenInv, VersionInv, TypeOK, Replied, Results
    <3> QED
      BY <1>1, <1>3, <1>5, <2>2, <3>1, <3>2
  <2>3. CASE bet[q] # bet[r]
    <3>1. q # r /\ round[q] = "settled" /\ bet[q] \in Modes \ {bet[r]}
      BY <1>5, <2>3 DEF ScreenInv, TypeOK
    <3>2. CASE shownVer[bet[q]] >= answer[q].ver
      BY <1>1, <1>5, <3>1, <3>2
    <3>3. CASE \E s \in Rounds : round[s] \in {"turning", "stuck"} /\ bet[s] = bet[q]
      BY <1>1, <1>5, <2>3, <3>3
    <3> QED
      BY <1>2, <3>1, <3>2, <3>3 DEF ScreenInv, SettledRoundsCount
  <2> QED
    BY <2>1, <2>2, <2>3
<1> QED
  BY <1>4, <1>6, <1>7, <1>8, <1>9, <1>10 DEF ScreenInv

(* Every step of a round.                                                  *)
LEMMA RoundKeeps ==
  ASSUME ScreenInv, NEW r \in Rounds,
         Answered(r) \/ Breaks(r) \/ TimesOut(r) \/ Recover(r) \/ WheelStops(r)
  PROVE  ScreenInv'
<1>1. UNCHANGED <<serverVars, read>>
  BY DEF Answered, Breaks, TimesOut, Recover, WheelStops
<1>2. CASE round[r] \in {"sent", "checking", "found"} /\ GiveUp(r)
  BY <1>1, <1>2, EndKeeps DEF GiveUp
<1>3. CASE TimesOut(r)
  BY <1>1, <1>3, EndKeeps DEF TimesOut
<1>4. CASE round[r] \in {"sent", "found"} /\ Show(r)
  <2>1. CASE Settle(r)
    BY <1>1, <1>4, <2>1, SettleKeeps DEF Show, Unresolved
  <2>2. CASE ~Settle(r)
    BY <1>1, <1>4, <2>2, TurnKeeps DEF Show
  <2> QED
    BY <2>1, <2>2
<1>5. CASE WheelStops(r)
  <2>1. Replied(r) /\ round[r] \in Unresolved /\ Settle(r)
    BY <1>5 DEF WheelStops, ScreenInv, VersionInv, Unresolved
  <2> QED
    BY <1>1, <2>1, SettleKeeps
<1> QED
  BY <1>2, <1>3, <1>4, <1>5 DEF Answered, Breaks, Recover

(* A screen that goes away stops its wheel and nothing else.               *)
LEMMA UnmountKeeps ==
  ASSUME ScreenInv, Unmount, signedIn' \in BOOLEAN, UNCHANGED <<serverVars, mode, read>>,
         \/ UNCHANGED balanceVars
         \/ /\ shown' = [m \in Modes |-> 0] /\ shownVer' = [m \in Modes |-> 0]
            /\ behind' = TRUE
  PROVE  ScreenInv'
<1>1. /\ bet' = bet /\ phase' = phase /\ disabled' /\ disabled' = TRUE /\ mounted' = FALSE
      /\ here' = {}
  BY DEF Unmount
<1>2. /\ round' \in [Rounds -> Unresolved \cup {"unpressed", "told", "settled", "stuck"}]
      /\ \A q \in Rounds : \/ round'[q] = round[q]
                           \/ round[q] = "turning" /\ round'[q] = "stuck"
  BY DEF Unmount, ScreenInv, TypeOK
<1>3. \A q \in Rounds : answer'[q] = answer[q] /\ Replied(q)' = Replied(q)
  BY DEF serverVars, Replied
<1>4. \A m \in Modes : /\ shownVer'[m] \in Nat /\ shown'[m] \in Int /\ ver'[m] = ver[m]
                       /\ shownVer'[m] = 0 \/ UNCHANGED <<shownVer, shown, behind>>
  BY DEF ScreenInv, TypeOK, balanceVars, serverVars
<1>5. TypeOK'
  <2>1. CASE UNCHANGED balanceVars
    BY <1>1, <1>2, <2>1 DEF ScreenInv, TypeOK, serverVars, balanceVars
  <2>2. CASE /\ shown' = [m \in Modes |-> 0] /\ shownVer' = [m \in Modes |-> 0]
             /\ behind' = TRUE
    <3>1. shown' \in [Modes -> Int] /\ shownVer' \in [Modes -> Nat] /\ behind' \in BOOLEAN
      BY <2>2
    <3> QED
      BY <1>1, <1>2, <3>1 DEF ScreenInv, TypeOK, serverVars
  <2> QED
    BY <2>1, <2>2
<1>6. PhaseInv' /\ OneBetAtATime'
  BY <1>1, <1>2 DEF ScreenInv, PhaseInv, OneBetAtATime, Unresolved
<1>7. ShownIsTheWallet'
  BY <1>4 DEF ScreenInv, ShownIsTheWallet, TypeOK, serverVars
<1>8. VersionInv'
  <2>1. \A m \in Modes : shownVer'[m] <= ver'[m]
    BY <1>4 DEF ScreenInv, VersionInv, TypeOK
  <2> QED
    BY <1>1, <1>2, <1>3, <2>1 DEF ScreenInv, VersionInv, serverVars
<1>9. OrderInv'
  BY <1>1, <1>2, <1>3 DEF ScreenInv, OrderInv, Unresolved
<1>10. SettledRoundsCount'
  <2>1. CASE UNCHANGED balanceVars
    <3>1. \A q \in Rounds : round[q] \in {"turning", "stuck"} => round'[q] \in {"turning", "stuck"}
      BY <1>2
    <3> QED
      BY <1>1, <1>2, <1>3, <2>1, <3>1 DEF ScreenInv, SettledRoundsCount, balanceVars
  <2>2. CASE behind' = TRUE
    BY <2>2 DEF SettledRoundsCount
  <2> QED
    BY <2>1, <2>2
<1> QED
  BY <1>5, <1>6, <1>7, <1>8, <1>9, <1>10 DEF ScreenInv

(* A screen that is mounted is painted by the phase it finds.              *)
LEMMA MountKeeps ==
  ASSUME ScreenInv, signedIn' \in BOOLEAN, mode' \in Modes,
         UNCHANGED <<serverVars, roundVars, balanceVars>>,
         read' \in [Reads -> NoAnswers \cup Snapshots],
         \A i \in Reads : read'[i] = read[i] \/ read'[i] \in NoAnswers,
         Mount \/ UNCHANGED <<mounted, disabled>>
  PROVE  ScreenInv'
<1>1. mounted' \in BOOLEAN /\ disabled' \in BOOLEAN
  <2>1. CASE Mount
    BY <2>1, Zenon DEF Mount, Painted
  <2> QED
    BY <2>1 DEF ScreenInv, TypeOK
<1>2. ~disabled' => mounted' /\ phase' = "idle"
  <2>1. CASE Mount
    <3>1. mounted' /\ (~disabled' => ~Busy(phase))
      BY <2>1, Zenon DEF Mount, Painted
    <3> QED
      BY <3>1 DEF ScreenInv, TypeOK, Busy, roundVars
  <2> QED
    BY <2>1 DEF ScreenInv, PhaseInv, roundVars
<1>3. TypeOK'
  BY <1>1 DEF ScreenInv, TypeOK, serverVars, roundVars, balanceVars
<1>4. PhaseInv'
  BY <1>2 DEF ScreenInv, PhaseInv, roundVars
<1>5. VersionInv'
  BY DEF ScreenInv, VersionInv, Replied, serverVars, roundVars, balanceVars
<1>6. OrderInv' /\ OneBetAtATime' /\ ShownIsTheWallet' /\ SettledRoundsCount'
  BY DEF ScreenInv, OrderInv, OneBetAtATime, ShownIsTheWallet, SettledRoundsCount, Replied,
     serverVars, roundVars, balanceVars
<1> QED
  BY <1>3, <1>4, <1>5, <1>6 DEF ScreenInv

(* A read shows the wallets of the instant the server answered it.         *)
LEMMA ReadKeeps ==
  ASSUME ScreenInv, NEW i \in Reads, ServeRead(i) \/ ReadReturns(i)
  PROVE  ScreenInv'
<1>1. CASE ServeRead(i)
  <2>1. UNCHANGED <<serverVars, roundVars, balanceVars, screenVars>>
    BY <1>1 DEF ServeRead
  <2>2. /\ read' \in [Reads -> NoAnswers \cup Snapshots]
        /\ \A j \in Reads : \/ read'[j] = read[j]
                            \/ read'[j].bal = wallet /\ read'[j].ver = ver
    BY <1>1 DEF ServeRead, ScreenInv, TypeOK, Snapshots
  <2>3. TypeOK' /\ PhaseInv' /\ OrderInv' /\ OneBetAtATime' /\ ShownIsTheWallet'
        /\ SettledRoundsCount'
    BY <2>1, <2>2 DEF ScreenInv, TypeOK, PhaseInv, OrderInv, OneBetAtATime, ShownIsTheWallet,
       SettledRoundsCount, Replied, serverVars, roundVars, balanceVars, screenVars
  <2>4. VersionInv'
    BY <2>1, <2>2 DEF ScreenInv, TypeOK, VersionInv, Replied, serverVars, roundVars, balanceVars
  <2> QED
    BY <2>3, <2>4 DEF ScreenInv
<1>2. CASE ReadReturns(i)
  <2>1. UNCHANGED <<serverVars, roundVars, screenVars>>
    BY <1>2 DEF ReadReturns
  <2>2. read[i] \in Snapshots /\ read[i] \notin NoAnswers
    BY <1>2 DEF ReadReturns, ScreenInv, TypeOK
  <2>3. /\ read' \in [Reads -> NoAnswers \cup Snapshots]
        /\ \A j \in Reads : read'[j] = read[j] \/ read'[j] \in NoAnswers
    BY <1>2 DEF ReadReturns, ScreenInv, TypeOK, NoAnswers
  <2>4. shown' = read[i].bal /\ shownVer' = read[i].ver /\ behind' = Older(read[i])
    BY <1>2 DEF ReadReturns
  <2>5. TypeOK'
    <3>1. shown' \in [Modes -> Int] /\ shownVer' \in [Modes -> Nat]
      BY <2>2, <2>4 DEF Snapshots
    <3>2. behind' \in BOOLEAN
      BY <2>4, Zenon DEF Older
    <3> QED
      BY <2>1, <2>3, <3>1, <3>2 DEF ScreenInv, TypeOK, serverVars, roundVars, screenVars
  <2>6. PhaseInv' /\ OrderInv' /\ OneBetAtATime'
    BY <2>1 DEF ScreenInv, PhaseInv, OrderInv, OneBetAtATime, Replied, serverVars, roundVars,
       screenVars
  <2>7. ShownIsTheWallet' /\ VersionInv'
    BY <2>1, <2>2, <2>3, <2>4 DEF ScreenInv, ShownIsTheWallet, VersionInv, Replied, serverVars,
       roundVars
  <2>8. SettledRoundsCount'
    <3> SUFFICES ASSUME NEW q \in Rounds, round[q] = "settled", ~Older(read[i])
                 PROVE  shownVer'[bet[q]] >= answer[q].ver
      BY <2>1, <2>4 DEF SettledRoundsCount, serverVars, roundVars
    <3>1. ~(read[i].ver[bet[q]] < answer[q].ver)
      BY DEF Older
    <3>2. read[i].ver[bet[q]] \in Nat /\ answer[q].ver \in Nat
      BY <2>2 DEF ScreenInv, VersionInv, TypeOK, Replied, Results, Snapshots
    <3> QED
      BY <2>4, <3>1, <3>2
  <2> QED
    BY <2>5, <2>6, <2>7, <2>8 DEF ScreenInv
<1> QED
  BY <1>1, <1>2

(* Every step keeps the invariant.                                         *)
LEMMA StepKeeps ==
  ASSUME ScreenInv, [Next]_vars
  PROVE  ScreenInv'
<1>1. ASSUME NEW r \in Rounds, PressSpin(r) \/ Play(r) \/ LookUp(r) PROVE ScreenInv'
  BY <1>1, PressKeeps, PlayKeeps, LookUpKeeps
<1>2. ASSUME NEW r \in Rounds,
             Answered(r) \/ Breaks(r) \/ TimesOut(r) \/ Recover(r) \/ WheelStops(r)
      PROVE  ScreenInv'
  BY <1>2, RoundKeeps
<1>3. ASSUME NEW m \in Modes, Credit(m) PROVE ScreenInv'
  BY <1>3, CreditKeeps
<1>4. ASSUME NEW m \in Modes, SwitchMode(m) PROVE ScreenInv'
  BY <1>4, MountKeeps DEF SwitchMode, ScreenInv, TypeOK
<1>5. ASSUME LeaveTab \/ Logout \/ AuthLost PROVE ScreenInv'
  <2>1. signedIn' \in BOOLEAN
    BY <1>5 DEF LeaveTab, Logout, AuthLost, SignOut, ScreenInv, TypeOK
  <2> QED
    BY <1>5, <2>1, UnmountKeeps DEF LeaveTab, Logout, AuthLost, SignOut
<1>6. ASSUME OpenTab PROVE ScreenInv'
  BY <1>6, MountKeeps DEF OpenTab, ScreenInv, TypeOK
<1>7. ASSUME NEW i \in Reads, Login(i) \/ Refresh(i) \/ ReadFails(i) PROVE ScreenInv'
  <2>1. /\ read' \in [Reads -> NoAnswers \cup Snapshots]
        /\ \A j \in Reads : read'[j] = read[j] \/ read'[j] \in NoAnswers
    BY <1>7 DEF Login, Refresh, ReadFails, Ask, ScreenInv, TypeOK, NoAnswers
  <2>2. /\ signedIn' \in BOOLEAN /\ mode' \in Modes
        /\ UNCHANGED <<serverVars, roundVars, balanceVars>>
        /\ Mount \/ UNCHANGED <<mounted, disabled>>
    BY <1>7 DEF Login, Refresh, ReadFails, ScreenInv, TypeOK, screenVars
  <2> QED
    BY <2>1, <2>2, MountKeeps
<1>8. ASSUME NEW i \in Reads, ServeRead(i) \/ ReadReturns(i) PROVE ScreenInv'
  BY <1>8, ReadKeeps
<1>9. CASE UNCHANGED vars
  BY <1>9, MountKeeps DEF vars, screenVars, ScreenInv, TypeOK
<1> QED
  BY <1>1, <1>2, <1>3, <1>4, <1>5, <1>6, <1>7, <1>8, <1>9 DEF Next

(* The invariant of a run: what a round, a read and a screen may rely on.  *)
THEOREM ScreenInvariance == Spec => []ScreenInv
BY InitHolds, StepKeeps, PTL DEF Spec

(* Types: in particular, no balance of the wallet is ever negative.        *)
THEOREM TypeCorrect == Spec => []TypeOK
<1>1. ScreenInv => TypeOK
  BY DEF ScreenInv
<1> QED
  BY <1>1, ScreenInvariance, PTL

(* No bet is placed while another is unresolved, however many presses,     *)
(* tabs and sessions there are.                                            *)
THEOREM NoSecondBet == Spec => []OneBetAtATime
<1>1. ScreenInv => OneBetAtATime
  BY DEF ScreenInv
<1> QED
  BY <1>1, ScreenInvariance, PTL

(* A balance on the screen that claims to be the wallet's is.              *)
THEOREM ShownIsTrue == Spec => []ShownIsTheWallet
<1>1. ScreenInv => ShownIsTheWallet
  BY DEF ScreenInv
<1> QED
  BY <1>1, ScreenInvariance, PTL

(* A wheel that has stopped leaves its round counted in, unless a read it  *)
(* overtook comes back or the player logs out.                             *)
THEOREM RoundsCountInOrder == Spec => []SettledRoundsCount
<1>1. ScreenInv => SettledRoundsCount
  BY DEF ScreenInv
<1> QED
  BY <1>1, ScreenInvariance, PTL
=============================================================================
