--------------------------- MODULE ClientSession ----------------------------
(***************************************************************************)
(* The session of one running client: the requests that meet a 401, the    *)
(* one refresh they share, login, logout, and the page or app that goes    *)
(* away under them.                                                        *)
(*                                                                         *)
(* A step runs from one await to the next: what JavaScript or Dart does    *)
(* in between, all the callers a promise resumes included, is one action.  *)
(* The server is that of Sessions, as a client sees it: pairs of tokens,   *)
(* the refresh token of which it honours once.                             *)
(***************************************************************************)
EXTENDS Naturals

CONSTANTS
    Sends,          \* requests the client has under way at a time
    MaxTokens,      \* pairs ever minted: a bound
    None

Pairs == 1..MaxTokens

ASSUME PairsToStartWith == MaxTokens \in Nat \ {0}
ASSUME NoneIsNone       == None \notin Pairs /\ None \notin Sends

VARIABLES
    minted,         \* server: how many pairs it has minted
    live,           \* server: refresh tokens it honours
    fresh,          \* server: access tokens it accepts
    rotated,        \* history: refresh tokens that were exchanged
    access, refresh,        \* TokenStore
    refreshing,     \* Api.#refreshing, and how far the shared refresh is
    presented,      \* the refresh token it presents
    granted,        \* the pair it is answered with, None for a refusal
    pc,             \* where each call of Api.#send is
    bearer,         \* the access token it carries
    auth,           \* Store.auth
    booting,        \* the call Store.boot waits for
    leaving,        \* the token Store.logout has posted, None when it has not
    stray,          \* requests for a refresh nobody waits for any more
    cutOff          \* history: tokens that were presented when the page went away

serverVars == <<minted, live, fresh, rotated>>
storeVars == <<access, refresh>>
flightVars == <<refreshing, presented, granted>>
sendVars == <<pc, bearer>>
historyVars == <<stray, cutOff>>
vars == <<serverVars, storeVars, flightVars, sendVars, historyVars, auth, booting, leaving>>

InFlight == {"sent", "served"}

TypeOK ==
    /\ minted \in 0..MaxTokens
    /\ live \subseteq 1..minted /\ fresh \subseteq 1..minted /\ rotated \subseteq 1..minted
    /\ live \cap rotated = {}
    /\ {access, refresh, presented, granted, leaving} \subseteq 1..minted \cup {None}
    /\ refreshing \in InFlight \cup {"no", "left"}
    /\ refreshing \in InFlight <=> presented # None
    /\ pc \in [Sends -> {"idle", "sent", "denied", "waiting", "resent"}]
    /\ bearer \in [Sends -> 1..minted \cup {None}]
    /\ auth \in {"boot", "signed-in", "signed-out"}
    /\ booting \in Sends \cup {None}
    /\ stray \subseteq 1..minted /\ cutOff \subseteq 1..minted

(* The first visit, or a later one with a refresh token in storage.        *)
Init ==
    /\ minted \in {0, 1}
    /\ live = 1..minted
    /\ fresh = {} /\ rotated = {}
    /\ access = None
    /\ refresh = IF minted = 1 THEN 1 ELSE None
    /\ refreshing = "no" /\ presented = None /\ granted = None
    /\ pc = [s \in Sends |-> "idle"]
    /\ bearer = [s \in Sends |-> None]
    /\ auth = IF minted = 1 THEN "boot" ELSE "signed-out"
    /\ booting = None
    /\ leaving = None
    /\ stray = {} /\ cutOff = {}
-----------------------------------------------------------------------------
(* Helpers. *)

Clear == access' = None /\ refresh' = None

Adopt(pair) == access' = pair /\ refresh' = pair

Waiting == {s \in Sends : pc[s] = "waiting"}

\* The calls of S end.
Ended(S) ==
    /\ pc' = [s \in Sends |-> IF s \in S THEN "idle" ELSE pc[s]]
    /\ bearer' = [s \in Sends |-> IF s \in S THEN None ELSE bearer[s]]

\* Mutant: the tokens go and nobody is told.
GiveUpSilently(S) ==
    /\ Ended(S)
    /\ IF S = {} THEN UNCHANGED storeVars ELSE Clear
    /\ booting' = IF booting \in S THEN None ELSE booting
    /\ UNCHANGED auth

(* No refresh to be had: the tokens go, onAuthLost signs out, the calls    *)
(* throw their 401.                                                        *)
GiveUp(S) ==
    /\ Ended(S)
    /\ IF S = {} THEN UNCHANGED <<storeVars, auth>>
                 ELSE Clear /\ auth' = "signed-out"
    /\ booting' = IF booting \in S THEN None ELSE booting

NoFlight == refreshing' = "no" /\ presented' = None /\ granted' = None

\* The server exchanges a refresh token for the next pair.
Rotate(j) ==
    /\ minted < MaxTokens
    /\ minted' = minted + 1
    /\ live' = (live \ {j}) \cup {minted + 1}
    /\ fresh' = fresh \cup {minted + 1}
    /\ rotated' = rotated \cup {j}
-----------------------------------------------------------------------------
(* Api.send. *)

Send(s) ==
    /\ pc[s] = "idle"
    /\ \/ auth = "signed-in" /\ UNCHANGED booting
       \/ auth = "boot" /\ booting = None /\ booting' = s      \* Store.boot
    /\ pc' = [pc EXCEPT ![s] = "sent"]
    /\ bearer' = [bearer EXCEPT ![s] = access]
    /\ UNCHANGED <<serverVars, storeVars, flightVars, historyVars, auth, leaving>>

Succeed(s) ==
    /\ pc[s] \in {"sent", "resent"}
    /\ bearer[s] \in fresh
    /\ Ended({s})
    /\ IF booting = s THEN booting' = None /\ auth' = "signed-in"
                      ELSE UNCHANGED <<booting, auth>>
    /\ UNCHANGED <<serverVars, storeVars, flightVars, historyVars, leaving>>

(* A time-out, no network, any other status, or a 401 for the replay.      *)
(* Store.boot takes every failure for the end of the session.              *)
Fail(s) ==
    /\ pc[s] \in {"sent", "resent"}
    /\ Ended({s})
    /\ IF booting = s THEN booting' = None /\ auth' = "signed-out" /\ Clear
                      ELSE UNCHANGED <<booting, auth, storeVars>>
    /\ UNCHANGED <<serverVars, flightVars, historyVars, leaving>>

\* RequireAuth answers 401; the answer is on its way.
Deny(s) ==
    /\ pc[s] = "sent"
    /\ bearer[s] \notin fresh
    /\ pc' = [pc EXCEPT ![s] = "denied"]
    /\ UNCHANGED <<serverVars, storeVars, flightVars, historyVars, bearer, auth, booting,
                   leaving>>

\* Mutant: every call that meets a 401 starts a refresh of its own.
RefreshEach(s) ==
    /\ pc[s] = "denied"
    /\ refresh # None
    /\ refreshing' = "sent" /\ presented' = refresh /\ granted' = None
    /\ pc' = [pc EXCEPT ![s] = "waiting"]
    /\ stray' = stray \cup IF refreshing = "sent" THEN {presented} ELSE {}
    /\ UNCHANGED <<serverVars, storeVars, cutOff, bearer, auth, booting, leaving>>

(* refreshOnce: join the refresh in flight, or start one.  Without a       *)
(* refresh token it returns before its try, so the finally that takes the  *)
(* promise away never runs: "left" stands for a promise of false that      *)
(* every later caller is given.                                            *)
RefreshOnce(s) ==
    /\ pc[s] = "denied"
    /\ \/ /\ refreshing \in InFlight
          /\ pc' = [pc EXCEPT ![s] = "waiting"]
          /\ UNCHANGED <<flightVars, bearer, storeVars, auth, booting>>
       \/ /\ refreshing = "no" /\ refresh # None
          /\ refreshing' = "sent" /\ presented' = refresh
          /\ pc' = [pc EXCEPT ![s] = "waiting"]
          /\ UNCHANGED <<granted, bearer, storeVars, auth, booting>>
       \/ /\ refreshing = "no" /\ refresh = None
          /\ refreshing' = "left"
          /\ GiveUp({s})
          /\ UNCHANGED <<presented, granted>>
       \/ /\ refreshing = "left"
          /\ GiveUp({s})
          /\ UNCHANGED flightVars
    /\ UNCHANGED <<serverVars, historyVars, leaving>>

ServeRefresh ==
    /\ refreshing = "sent"
    /\ refreshing' = "served"
    /\ \/ presented \in live /\ Rotate(presented) /\ granted' = minted + 1
       \/ presented \notin live /\ granted' = None /\ UNCHANGED serverVars
    /\ UNCHANGED <<storeVars, presented, sendVars, historyVars, auth, booting, leaving>>

\* Mutant: the callers are resumed before the new pair is stored.
RefreshReturnsLate ==
    /\ refreshing = "served" /\ granted # None
    /\ pc' = [s \in Sends |-> IF s \in Waiting THEN "resent" ELSE pc[s]]
    /\ bearer' = [s \in Sends |-> IF s \in Waiting THEN access ELSE bearer[s]]
    /\ Adopt(granted)
    /\ NoFlight
    /\ UNCHANGED <<serverVars, historyVars, auth, booting, leaving>>

(* The answer: the pair is stored, whatever became of the session          *)
(* meanwhile, and every caller replays its request with it.                *)
RefreshReturns ==
    /\ refreshing = "served"
    /\ \/ /\ granted # None
          /\ Adopt(granted)
          /\ pc' = [s \in Sends |-> IF s \in Waiting THEN "resent" ELSE pc[s]]
          /\ bearer' = [s \in Sends |-> IF s \in Waiting THEN granted ELSE bearer[s]]
          /\ UNCHANGED <<auth, booting>>
       \/ granted = None /\ GiveUp(Waiting)
    /\ NoFlight
    /\ UNCHANGED <<serverVars, historyVars, leaving>>

\* The refresh is lost, before or after the server saw it.
RefreshFails ==
    /\ refreshing \in InFlight
    /\ GiveUp(Waiting)
    /\ stray' = IF refreshing = "sent" THEN stray \cup {presented} ELSE stray
    /\ NoFlight
    /\ UNCHANGED <<serverVars, cutOff, leaving>>
-----------------------------------------------------------------------------
(* Store. *)

Login ==
    /\ auth = "signed-out"
    /\ minted < MaxTokens
    /\ minted' = minted + 1
    /\ live' = live \cup {minted + 1}
    /\ fresh' = fresh \cup {minted + 1}
    /\ Adopt(minted + 1)
    /\ auth' = "signed-in"
    /\ UNCHANGED <<rotated, flightVars, sendVars, historyVars, booting, leaving>>

\* logout reads the refresh token and posts it.
Logout ==
    /\ auth = "signed-in"
    /\ leaving = None /\ refresh # None
    /\ leaving' = refresh
    /\ UNCHANGED <<serverVars, storeVars, flightVars, sendVars, historyVars, auth, booting>>

(* The server revokes the token, or the request fails; both are the same   *)
(* to the client, which clears what it has by then.                        *)
LogoutEnds ==
    /\ leaving # None
    /\ live' \in {live, live \ {leaving}}
    /\ Clear
    /\ auth' = "signed-out"
    /\ leaving' = None
    /\ UNCHANGED <<minted, fresh, rotated, flightVars, sendVars, historyVars, booting>>

(* The page is reloaded or the app killed: the refresh token stays.        *)
Reload ==
    /\ Ended(Sends)
    /\ access' = None
    /\ NoFlight
    /\ auth' = IF refresh = None THEN "signed-out" ELSE "boot"
    /\ booting' = None
    /\ leaving' = None
    /\ stray' = IF refreshing = "sent" THEN stray \cup {presented} ELSE stray
    /\ cutOff' = IF refreshing \in InFlight THEN cutOff \cup {presented} ELSE cutOff
    /\ UNCHANGED <<serverVars, refresh>>
-----------------------------------------------------------------------------
(* The server's own. *)

\* A request for a refresh that was given up arrives all the same.
StrayRefresh(j) ==
    /\ j \in stray
    /\ stray' = stray \ {j}
    /\ \/ j \in live /\ Rotate(j)
       \/ j \notin live /\ UNCHANGED serverVars
    /\ UNCHANGED <<storeVars, flightVars, sendVars, cutOff, auth, booting, leaving>>

AccessExpires(j) ==
    /\ j \in fresh
    /\ fresh' = fresh \ {j}
    /\ UNCHANGED <<minted, live, rotated, storeVars, flightVars, sendVars, historyVars, auth,
                   booting, leaving>>

RefreshExpires(j) ==
    /\ j \in live
    /\ live' = live \ {j}
    /\ UNCHANGED <<minted, fresh, rotated, storeVars, flightVars, sendVars, historyVars, auth,
                   booting, leaving>>

Next ==
    \/ \E s \in Sends : Send(s) \/ Succeed(s) \/ Fail(s) \/ Deny(s) \/ RefreshOnce(s)
    \/ ServeRefresh \/ RefreshReturns \/ RefreshFails
    \/ Login \/ Logout \/ LogoutEnds \/ Reload
    \/ \E j \in Pairs : StrayRefresh(j) \/ AccessExpires(j) \/ RefreshExpires(j)

Spec == Init /\ [][Next]_vars
-----------------------------------------------------------------------------
(* Properties. *)

(* Single flight: the client never stores, and never presents, a refresh   *)
(* token that was exchanged already, however many requests meet a 401 at   *)
(* once or late.  The one way to: the page went away while a refresh was   *)
(* under way.                                                              *)
SingleFlight ==
    /\ refresh \in rotated =>
          refresh \in cutOff \/ (refreshing = "served" /\ presented = refresh)
    /\ refreshing = "sent" /\ presented \in rotated => presented \in cutOff

(* A replay never carries the token its request was refused for: a 401     *)
(* that a refresh answers is not met again for the same reason.            *)
ReplayIsNew ==
    [][\A s \in Sends :
          pc[s] = "waiting" /\ pc'[s] = "resent" => bearer'[s] # bearer[s]]_vars

(* Whoever is shown as signed in has a session to refresh.                 *)
SignedInHasToken == auth = "signed-in" => refresh # None

(* api.ts:163: the next 401 starts a fresh refresh.  Not after one that    *)
(* found no refresh token: its promise is left, and a session signed in    *)
(* to afterwards ends at its first 401.                                    *)
NextRefreshIsFresh == refresh # None => refreshing # "left"
-----------------------------------------------------------------------------
(* The inductive invariant. *)

\* Where the client's own tokens are, beside those that were spent.
FlightInv ==
    /\ refreshing \in InFlight => Waiting # {}
    /\ refreshing # "served" => granted = None
    /\ granted # None => granted \notin rotated \cup stray \cup {presented}
    /\ refresh \in stray => refresh \in cutOff
    /\ refreshing = "sent" /\ presented \in stray => presented \in cutOff

\* While Store.boot waits there is a token, and nothing else is under way.
BootInv ==
    /\ booting # None => auth = "boot"
    /\ auth = "boot" =>
          /\ refresh # None /\ leaving = None
          /\ \A s \in Sends : pc[s] # "idle" => s = booting

ClientInv == TypeOK /\ FlightInv /\ BootInv /\ SingleFlight /\ SignedInHasToken
=============================================================================
