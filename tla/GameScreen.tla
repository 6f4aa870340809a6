----------------------------- MODULE GameScreen -----------------------------
(***************************************************************************)
(* The game as a player sees it: the Spin button, the wheel, and the       *)
(* balance on the screen, while rounds, reads of the balance, tabs, modes  *)
(* and sessions come and go in any order.                                  *)
(*                                                                         *)
(* Each press of Spin runs a handler of its own, and each visit of the     *)
(* Spin tab mounts a wheel of its own; what they share is the Store.  A    *)
(* step runs from one await to the next.  The server moves the wallets of  *)
(* one account and numbers the states of each; the numbers are history,    *)
(* and tell which state a balance on the screen was read from.             *)
(***************************************************************************)
EXTENDS Integers, FiniteSets

CONSTANTS
    Rounds,         \* presses of Spin: a bound
    Reads,          \* GET /v1/me or /v1/wallet under way at a time
    Payouts,        \* what a round can pay
    Opening,        \* what each wallet opens with
    MaxCredits,     \* commissions and top-ups from elsewhere: a bound
    Waiting, Nothing    \* no answer yet, and none to come

Modes == {"demo", "real"}

Stake == 1          \* MIN_STAKE_CENTS

ASSUME PayoutsAreCents == Payouts \subseteq Nat
ASSUME CreditsAreCounted == MaxCredits \in Nat
ASSUME OpeningIsTyped  == Opening \in [Modes -> Nat]

VARIABLES
    wallet,         \* server: the wallets
    ver,            \* history: the number of each wallet's state
    credits,        \* history: how many credits there were
    answer,         \* server: what it makes of each round
    round,          \* where the handler of each press is
    bet,            \* the mode it was pressed in
    here,           \* presses of the screen that is mounted
    phase,          \* Store.spin
    shown,          \* Store.balances
    shownVer,       \* history: the state it shows, 0 for none
    behind,         \* history: a logout or an overtaken read since the last good one
    mode,           \* Store.realMode
    signedIn,       \* Store.auth
    mounted,        \* the Spin screen is
    disabled,       \* spinBtn.disabled, TRUE without a screen
    read            \* the reads: none, asked, or what the server answered

serverVars == <<wallet, ver, credits, answer>>
roundVars == <<round, bet, here, phase>>
balanceVars == <<shown, shownVer, behind>>
screenVars == <<mode, signedIn, mounted, disabled>>
vars == <<serverVars, roundVars, balanceVars, screenVars, read>>

Snapshots == [bal : [Modes -> Nat], ver : [Modes -> Nat]]
Results == [balance : Nat, payout : Nat, ver : Nat]
NoAnswers == {Waiting, Nothing}

ASSUME AnswersAreOther == NoAnswers \cap Results = {}

Unresolved == {"sent", "checking", "found", "turning"}

TypeOK ==
    /\ wallet \in [Modes -> Nat] /\ ver \in [Modes -> Nat \ {0}]
    /\ credits \in 0..MaxCredits
    /\ answer \in [Rounds -> NoAnswers \cup Results]
    /\ round \in [Rounds -> Unresolved \cup {"unpressed", "told", "settled", "stuck"}]
    /\ bet \in [Rounds -> Modes]
    /\ here \subseteq Rounds
    /\ phase \in {"idle", "requesting", "checking", "spinning"}
    /\ shown \in [Modes -> Int] /\ shownVer \in [Modes -> Nat]
    /\ behind \in BOOLEAN /\ signedIn \in BOOLEAN
    /\ mounted \in BOOLEAN /\ disabled \in BOOLEAN
    /\ mode \in Modes
    /\ read \in [Reads -> NoAnswers \cup Snapshots]

(* The client has booted: with a session it has read, or without one.      *)
Init ==
    /\ wallet = Opening /\ ver = [m \in Modes |-> 1] /\ credits = 0
    /\ answer = [r \in Rounds |-> Waiting]
    /\ round = [r \in Rounds |-> "unpressed"]
    /\ bet = [r \in Rounds |-> "demo"]
    /\ here = {}
    /\ phase = "idle"
    /\ signedIn \in BOOLEAN
    /\ mounted = signedIn
    /\ mode = "demo"
    /\ IF signedIn THEN shown = wallet /\ shownVer = ver
                   ELSE shown = [m \in Modes |-> 0] /\ shownVer = [m \in Modes |-> 0]
    /\ behind = ~signedIn
    /\ disabled = (mounted => shown[mode] < Stake)
    /\ read = [i \in Reads |-> Nothing]
-----------------------------------------------------------------------------
(* The server. *)

Moved(m, balance) ==
    /\ wallet' = [wallet EXCEPT ![m] = balance]
    /\ ver' = [ver EXCEPT ![m] = @ + 1]

Replied(r) == answer[r] \notin NoAnswers

(* The bet reaches the server, which may be after the client gave it up.   *)
Play(r) ==
    /\ round[r] # "unpressed"
    /\ answer[r] = Waiting
    /\ LET m == bet[r]
       IN \/ /\ answer' = [answer EXCEPT ![r] = Nothing]
             /\ UNCHANGED <<wallet, ver>>
          \/ /\ wallet[m] >= Stake
             /\ \E payout \in Payouts :
                   LET balance == wallet[m] - Stake + payout
                   IN /\ Moved(m, balance)
                      /\ answer' = [answer EXCEPT ![r] =
                            [balance |-> balance, payout |-> payout, ver |-> ver[m] + 1]]
    /\ UNCHANGED <<credits, roundVars, balanceVars, screenVars, read>>

(* FindByClientRef: the round as it was played, but the balance as it is.  *)
LookUp(r) ==
    /\ round[r] = "checking"
    /\ Replied(r)
    /\ answer' = [answer EXCEPT ![r].balance = wallet[bet[r]], ![r].ver = ver[bet[r]]]
    /\ round' = [round EXCEPT ![r] = "found"]
    /\ UNCHANGED <<wallet, ver, credits, bet, here, phase, balanceVars, screenVars, read>>

(* A referee plays, or the player tops up on another device.               *)
Credit(m) ==
    /\ credits < MaxCredits
    /\ credits' = credits + 1
    /\ Moved(m, wallet[m] + 1)
    /\ UNCHANGED <<answer, roundVars, balanceVars, screenVars, read>>
-----------------------------------------------------------------------------
(* The button.  It is painted by each change of the phase and when the     *)
(* screen is mounted; a change of the balance or of the mode leaves it.    *)

\* Mutant: the label changes, and the button works, while a bet is looked up.
BusyUnlessChecking(ph) == ph \in {"requesting", "spinning"}

Busy(ph) == ph \in {"requesting", "checking", "spinning"}

Painted(ph, balances) == Busy(ph) \/ balances[mode] < Stake

PhaseTo(ph, balances) ==
    /\ phase' = ph
    /\ disabled' = (mounted => Painted(ph, balances))
    /\ UNCHANGED <<mode, signedIn, mounted>>

\* Of a round that was looked up it may be a balance there never was, even a
\* negative one: the wallet has moved on since.
BalanceAfterStake(final, payout) == final - payout

\* Mutant: the balance of the mode on the screen.
SetBalanceOnScreen(r, cents, version) ==
    /\ shown' = [shown EXCEPT ![mode] = cents]
    /\ shownVer' = [shownVer EXCEPT ![mode] = version]
    /\ UNCHANGED behind

\* #setBalance: the balance of the mode the bet was placed in.
SetBalance(r, cents, version) ==
    /\ shown' = [shown EXCEPT ![bet[r]] = cents]
    /\ shownVer' = [shownVer EXCEPT ![bet[r]] = version]
    /\ UNCHANGED behind

RoundTo(r, where) == round' = [round EXCEPT ![r] = where] /\ UNCHANGED <<bet, here>>

PressSpin(r) ==
    /\ round[r] = "unpressed"
    /\ signedIn /\ mounted /\ ~disabled
    /\ \A q \in here : round[q] # "turning"         \* wheel.spinning
    /\ round' = [round EXCEPT ![r] = "sent"]
    /\ bet' = [bet EXCEPT ![r] = mode]
    /\ here' = here \cup {r}
    /\ PhaseTo("requesting", shown)
    /\ UNCHANGED <<serverVars, balanceVars, read>>

(* settleSpin, the result, clearSpin.                                      *)
Settle(r) ==
    /\ RoundTo(r, "settled")
    /\ SetBalance(r, answer[r].balance, answer[r].ver)
    /\ PhaseTo("idle", shown')

(* The outcome is known: the stake leaves and the wheel turns.  It settles *)
(* at once with reduced motion, without segments, or, in the app, when the *)
(* screen has gone meanwhile.                                              *)
Show(r) ==
    /\ Replied(r)
    /\ \/ /\ RoundTo(r, "turning")
          /\ SetBalance(r, BalanceAfterStake(answer[r].balance, answer[r].payout), 0)
          /\ PhaseTo("spinning", shown')
       \/ Settle(r)

\* placeSpin throws: offline, refused, or not found out.
GiveUp(r) == RoundTo(r, "told") /\ PhaseTo("idle", shown) /\ UNCHANGED balanceVars

Answered(r) ==
    /\ round[r] = "sent"
    /\ Show(r) \/ (answer[r] = Nothing /\ GiveUp(r))
    /\ UNCHANGED <<serverVars, read>>

Breaks(r) ==
    /\ round[r] = "sent"
    /\ GiveUp(r)
    /\ UNCHANGED <<serverVars, read>>

TimesOut(r) ==
    /\ round[r] = "sent"
    /\ RoundTo(r, "checking")
    /\ PhaseTo("checking", shown)
    /\ UNCHANGED <<serverVars, balanceVars, read>>

\* recoverSpin: found, or not found out, if only because the answer was lost.
Recover(r) ==
    /\ round[r] \in {"checking", "found"}
    /\ (round[r] = "found" /\ Show(r)) \/ GiveUp(r)
    /\ UNCHANGED <<serverVars, read>>

WheelStops(r) ==
    /\ round[r] = "turning"
    /\ Settle(r)
    /\ UNCHANGED <<serverVars, read>>
-----------------------------------------------------------------------------
(* Screens. *)

(* The screen goes, and with it the frames of its wheel: the promise of    *)
(* spinTo is never kept, and its handler waits for ever.                   *)
Unmount ==
    /\ round' = [r \in Rounds |->
          IF r \in here /\ round[r] = "turning" THEN "stuck" ELSE round[r]]
    /\ here' = {}
    /\ mounted' = FALSE /\ disabled' = TRUE
    /\ UNCHANGED <<bet, phase>>

Mount == mounted' = TRUE /\ disabled' = Painted(phase, shown)

LeaveTab ==
    /\ signedIn /\ mounted
    /\ Unmount
    /\ UNCHANGED <<serverVars, balanceVars, mode, signedIn, read>>

OpenTab ==
    /\ signedIn /\ ~mounted
    /\ Mount
    /\ UNCHANGED <<serverVars, roundVars, balanceVars, mode, signedIn, read>>

\* Real money asks for a balance first.
SwitchMode(m) ==
    /\ signedIn /\ mounted
    /\ m # mode
    /\ m = "real" => shown["real"] > 0
    /\ mode' = m
    /\ UNCHANGED <<serverVars, roundVars, balanceVars, signedIn, mounted, disabled, read>>

SignOut ==
    /\ signedIn
    /\ signedIn' = FALSE
    /\ Unmount
    /\ UNCHANGED <<serverVars, mode, read>>

Logout ==
    /\ SignOut
    /\ shown' = [m \in Modes |-> 0]
    /\ shownVer' = [m \in Modes |-> 0]
    /\ behind' = TRUE

\* onAuthLost leaves the balances.
AuthLost == SignOut /\ UNCHANGED balanceVars

Ask(i) == read[i] = Nothing /\ read' = [read EXCEPT ![i] = Waiting]

(* adoptSession shows the app before refreshMe has an answer.              *)
Login(i) ==
    /\ ~signedIn
    /\ signedIn' = TRUE
    /\ Mount \/ UNCHANGED <<mounted, disabled>>
    /\ Ask(i)
    /\ UNCHANGED <<serverVars, roundVars, balanceVars, mode>>
-----------------------------------------------------------------------------
(* refreshMe and refreshBalances. *)

\* The tab or app comes to the front, or a top-up is over.
Refresh(i) ==
    /\ signedIn
    /\ Ask(i)
    /\ UNCHANGED <<serverVars, roundVars, balanceVars, screenVars>>

ServeRead(i) ==
    /\ read[i] = Waiting
    /\ read' = [read EXCEPT ![i] = [bal |-> wallet, ver |-> ver]]
    /\ UNCHANGED <<serverVars, roundVars, balanceVars, screenVars>>

Older(snapshot) ==
    \E r \in Rounds : round[r] = "settled" /\ snapshot.ver[bet[r]] < answer[r].ver

ReadReturns(i) ==
    /\ read[i] \notin NoAnswers
    /\ shown' = read[i].bal
    /\ shownVer' = read[i].ver
    /\ behind' = Older(read[i])
    /\ read' = [read EXCEPT ![i] = Nothing]
    /\ UNCHANGED <<serverVars, roundVars, screenVars>>

ReadFails(i) ==
    /\ read[i] # Nothing
    /\ read' = [read EXCEPT ![i] = Nothing]
    /\ UNCHANGED <<serverVars, roundVars, balanceVars, screenVars>>

Next ==
    \/ \E r \in Rounds :
          \/ PressSpin(r) \/ Play(r) \/ Answered(r) \/ Breaks(r) \/ TimesOut(r)
          \/ LookUp(r) \/ Recover(r) \/ WheelStops(r)
    \/ \E m \in Modes : Credit(m) \/ SwitchMode(m)
    \/ LeaveTab \/ OpenTab \/ Logout \/ AuthLost
    \/ \E i \in Reads :
          Login(i) \/ Refresh(i) \/ ServeRead(i) \/ ReadReturns(i) \/ ReadFails(i)

Spec == Init /\ [][Next]_vars
-----------------------------------------------------------------------------
(* Properties. *)

(* However the player moves between tabs, modes and sessions, no bet is    *)
(* placed while another is not resolved.                                   *)
OneBetAtATime ==
    \A q, r \in Rounds : round[q] \in Unresolved /\ round[r] \in Unresolved => q = r

(* A number on the screen that claims to be a wallet is that wallet: of    *)
(* its own mode, at the state it was read from, payout included.           *)
ShownIsTheWallet ==
    \A m \in Modes : shownVer[m] = ver[m] => shown[m] = wallet[m]

(* Once the wheel has stopped, the balance on the screen counts the round  *)
(* in, and every round before it: no answer puts back one that an earlier  *)
(* round left.  A read that was overtaken by a round, and a sign-out, can. *)
SettledRoundsCount ==
    \A r \in Rounds :
        round[r] = "settled" /\ ~behind =>
            \/ shownVer[bet[r]] >= answer[r].ver
            \/ \E q \in Rounds : round[q] \in {"turning", "stuck"} /\ bet[q] = bet[r]

(* wheel-view.ts:105: spinTo resolves when the wheel comes to rest.  Not   *)
(* when its screen goes first: the phase stays spinning with no wheel to   *)
(* end it, and the button of every later screen stays disabled.            *)
SpinningWheelTurns == phase = "spinning" => \E r \in Rounds : round[r] = "turning"
-----------------------------------------------------------------------------
(* The inductive invariant.                                                *)

\* The phase is that of the one round under way.
PhaseInv ==
    /\ \A r \in Rounds :
          /\ round[r] = "sent" => phase = "requesting"
          /\ round[r] \in {"checking", "found"} => phase = "checking"
          /\ round[r] = "turning" => phase = "spinning"
    /\ ~disabled => mounted /\ phase = "idle"

\* Results and reads are of states the wallets have had.
VersionInv ==
    /\ \A m \in Modes : shownVer[m] <= ver[m]
    /\ \A r \in Rounds :
          /\ round[r] = "unpressed" => answer[r] = Waiting
          /\ round[r] \in {"found", "turning", "settled"} => Replied(r)
          /\ Replied(r) => /\ answer[r].ver <= ver[bet[r]]
                           /\ answer[r].ver = ver[bet[r]] => answer[r].balance = wallet[bet[r]]
    /\ \A i \in Reads : read[i] \notin NoAnswers =>
          \A m \in Modes : /\ read[i].ver[m] <= ver[m]
                           /\ read[i].ver[m] = ver[m] => read[i].bal[m] = wallet[m]

\* The server played the round under way after all that are settled.
OrderInv ==
    \A q, r \in Rounds :
        round[q] = "settled" /\ round[r] \in Unresolved /\ Replied(r) /\ bet[q] = bet[r] =>
            answer[q].ver <= answer[r].ver

ScreenInv ==
    /\ TypeOK /\ PhaseInv /\ VersionInv /\ OrderInv
    /\ OneBetAtATime /\ ShownIsTheWallet /\ SettledRoundsCount
=============================================================================
