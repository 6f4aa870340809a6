------------------------ MODULE ClientSessionProofs -------------------------
(***************************************************************************)
(* Proofs about ClientSession, for any number of calls and of pairs.  The  *)
(* argument for the single flight: a token is spent only by the refresh in *)
(* flight, which replaces it or takes it out of the store before anything  *)
(* else can present it, or by a request the page left behind.              *)
(***************************************************************************)
EXTENDS ClientSession, TLAPS

(* A new pair is none of those there are.                                  *)
LEMMA RotateMints ==
  ASSUME TypeOK, NEW j \in 1..minted, j \in live, Rotate(j)
  PROVE  /\ minted' \in 0..MaxTokens /\ minted' = minted + 1
         /\ minted + 1 \in 1..minted' /\ minted + 1 \notin 1..minted
         /\ 1..minted \subseteq 1..minted'
         /\ live' \subseteq 1..minted' /\ fresh' \subseteq 1..minted'
         /\ rotated' = rotated \cup {j} /\ rotated' \subseteq 1..minted'
         /\ live' \cap rotated' = {}
  BY PairsToStartWith DEF TypeOK, Rotate

(* None is no pair that was minted.                                        *)
LEMMA NoneIsNoPair ==
  ASSUME TypeOK
  PROVE  None \notin 1..minted /\ 1..minted \subseteq Pairs /\ None \notin Sends
  BY PairsToStartWith, NoneIsNone DEF TypeOK, Pairs

(* The calls of the client keep the invariant.                             *)
LEMMA SendKeeps ==
  ASSUME ClientInv, NEW s \in Sends, Send(s) \/ Succeed(s) \/ Fail(s) \/ Deny(s)
  PROVE  ClientInv'
<1>1. UNCHANGED <<serverVars, flightVars, historyVars, leaving>>
  BY DEF Send, Succeed, Fail, Deny
<1>2. CASE Send(s)
  <2>1. TypeOK'
    BY <1>1, <1>2 DEF ClientInv, TypeOK, Send, serverVars, storeVars, flightVars, historyVars
  <2>2. Waiting' = Waiting
    BY <1>2 DEF Send, Waiting, ClientInv, TypeOK
  <2>3. FlightInv' /\ SingleFlight' /\ SignedInHasToken'
    BY <1>1, <1>2, <2>2 DEF ClientInv, FlightInv, SingleFlight, SignedInHasToken, Send,
       serverVars, storeVars, flightVars, historyVars
  <2>4. BootInv'
    BY <1>1, <1>2, NoneIsNoPair DEF ClientInv, BootInv, Send, storeVars, TypeOK
  <2> QED
    BY <2>1, <2>3, <2>4 DEF ClientInv
<1>3. CASE Succeed(s)
  <2>1. TypeOK'
    BY <1>1, <1>3 DEF ClientInv, TypeOK, Succeed, Ended, serverVars, storeVars, flightVars,
       historyVars
  <2>2. Waiting' = Waiting
    BY <1>3 DEF Succeed, Ended, Waiting, ClientInv, TypeOK
  <2>3. FlightInv' /\ SingleFlight'
    BY <1>1, <1>3, <2>2 DEF ClientInv, FlightInv, SingleFlight, Succeed,
       serverVars, storeVars, flightVars, historyVars
  <2>4. BootInv' /\ SignedInHasToken'
    BY <1>1, <1>3, NoneIsNoPair DEF ClientInv, BootInv, SignedInHasToken, Succeed, Ended,
       storeVars, TypeOK
  <2> QED
    BY <2>1, <2>3, <2>4 DEF ClientInv
<1>4. CASE Fail(s)
  <2>1. TypeOK'
    BY <1>1, <1>4 DEF ClientInv, TypeOK, Fail, Clear, Ended, serverVars, storeVars, flightVars,
       historyVars
  <2>2. Waiting' = Waiting
    BY <1>4 DEF Fail, Ended, Waiting, ClientInv, TypeOK
  <2>3. refresh' = refresh \/ refresh' = None
    BY <1>4 DEF Fail, Clear, storeVars
  <2>4. FlightInv' /\ SingleFlight'
    BY <1>1, <2>2, <2>3, NoneIsNoPair DEF ClientInv, TypeOK, FlightInv, SingleFlight,
       serverVars, flightVars, historyVars
  <2>5. BootInv' /\ SignedInHasToken'
    BY <1>1, <1>4, NoneIsNoPair DEF ClientInv, BootInv, SignedInHasToken, Fail, Clear, Ended,
       storeVars, TypeOK
  <2> QED
    BY <2>1, <2>4, <2>5 DEF ClientInv
<1>5. CASE Deny(s)
  <2>1. TypeOK'
    BY <1>1, <1>5 DEF ClientInv, TypeOK, Deny, serverVars, storeVars, flightVars, historyVars
  <2>2. Waiting' = Waiting
    BY <1>5 DEF Deny, Waiting, ClientInv, TypeOK
  <2>3. FlightInv' /\ SingleFlight' /\ SignedInHasToken'
    BY <1>1, <1>5, <2>2 DEF ClientInv, FlightInv, SingleFlight, SignedInHasToken, Deny,
       serverVars, storeVars, flightVars, historyVars
  <2>4. BootInv'
    BY <1>1, <1>5 DEF ClientInv, BootInv, Deny, storeVars, TypeOK
  <2> QED
    BY <2>1, <2>3, <2>4 DEF ClientInv
<1> QED
  BY <1>2, <1>3, <1>4, <1>5

(* Giving up empties the store, for a call that waits no longer.           *)
LEMMA GiveUpDoes ==
  ASSUME ClientInv, NEW S \in SUBSET Sends, S # {}, GiveUp(S)
  PROVE  /\ access' = None /\ refresh' = None /\ auth' = "signed-out"
         /\ pc' \in [Sends -> {"idle", "sent", "denied", "waiting", "resent"}]
         /\ bearer' \in [Sends -> 1..minted \cup {None}]
         /\ booting' \in Sends \cup {None}
         /\ Waiting' = Waiting \ S
         /\ (\A s \in S : pc[s] # "idle") => booting' = None
<1>1. /\ access' = None /\ refresh' = None /\ auth' = "signed-out"
      /\ pc' = [s \in Sends |-> IF s \in S THEN "idle" ELSE pc[s]]
      /\ bearer' = [s \in Sends |-> IF s \in S THEN None ELSE bearer[s]]
      /\ booting' = IF booting \in S THEN None ELSE booting
  BY DEF GiveUp, Ended, Clear
<1>2. Waiting' = Waiting \ S
  BY <1>1 DEF Waiting
<1>3. ASSUME \A s \in S : pc[s] # "idle" PROVE booting' = None
  BY <1>1, <1>3 DEF ClientInv, BootInv
<1> QED
  BY <1>1, <1>2, <1>3 DEF ClientInv, TypeOK

(* refreshOnce presents what is stored, which is unspent but for a reload. *)
LEMMA RefreshOnceKeeps ==
  ASSUME ClientInv, NEW s \in Sends, RefreshOnce(s)
  PROVE  ClientInv'
<1>1. UNCHANGED <<serverVars, historyVars, leaving>> /\ pc[s] = "denied"
  BY DEF RefreshOnce
<1>2. CASE refreshing \in InFlight
  <2>1. /\ pc' = [pc EXCEPT ![s] = "waiting"]
        /\ UNCHANGED <<flightVars, bearer, storeVars, auth, booting>>
    BY <1>2 DEF RefreshOnce, InFlight
  <2>2. TypeOK'
    BY <1>1, <2>1 DEF ClientInv, TypeOK, serverVars, storeVars, flightVars, historyVars
  <2>3. s \in Waiting'
    BY <2>1 DEF Waiting, ClientInv, TypeOK
  <2>4. FlightInv' /\ SingleFlight' /\ SignedInHasToken'
    BY <1>1, <2>1, <2>3 DEF ClientInv, FlightInv, SingleFlight, SignedInHasToken, serverVars,
       storeVars, flightVars, historyVars
  <2>5. BootInv'
    BY <1>1, <2>1 DEF ClientInv, BootInv, TypeOK, storeVars
  <2> QED
    BY <2>2, <2>4, <2>5 DEF ClientInv
<1>3. CASE refreshing = "no" /\ refresh # None
  <2>1. /\ pc' = [pc EXCEPT ![s] = "waiting"]
        /\ refreshing' = "sent" /\ presented' = refresh
        /\ UNCHANGED <<granted, bearer, storeVars, auth, booting>>
    BY <1>3 DEF RefreshOnce, InFlight
  <2>2. TypeOK'
    BY <1>1, <1>3, <2>1 DEF ClientInv, TypeOK, InFlight, serverVars, storeVars, historyVars
  <2>3. s \in Waiting'
    BY <2>1 DEF Waiting, ClientInv, TypeOK
  <2>4. FlightInv' /\ SingleFlight' /\ SignedInHasToken'
    BY <1>1, <1>3, <2>1, <2>3 DEF ClientInv, FlightInv, SingleFlight, SignedInHasToken,
       serverVars, storeVars, historyVars
  <2>5. BootInv'
    BY <1>1, <2>1 DEF ClientInv, BootInv, TypeOK, storeVars
  <2> QED
    BY <2>2, <2>4, <2>5 DEF ClientInv
<1>4. CASE refreshing = "left" \/ (refreshing = "no" /\ refresh = None)
  <2>1. /\ GiveUp({s}) /\ UNCHANGED <<presented, granted>>
        /\ refreshing' = "left"
    BY <1>4 DEF RefreshOnce, InFlight, flightVars
  <2>2. /\ access' = None /\ refresh' = None /\ auth' = "signed-out" /\ booting' = None
        /\ pc' \in [Sends -> {"idle", "sent", "denied", "waiting", "resent"}]
        /\ bearer' \in [Sends -> 1..minted \cup {None}]
    BY <1>1, <2>1, GiveUpDoes
  <2>3. TypeOK'
    BY <1>1, <1>4, <2>1, <2>2 DEF ClientInv, TypeOK, InFlight, serverVars, historyVars
  <2>4. FlightInv' /\ SingleFlight' /\ SignedInHasToken' /\ BootInv'
    BY <1>1, <1>4, <2>1, <2>2, NoneIsNoPair DEF ClientInv, TypeOK, FlightInv, SingleFlight,
       SignedInHasToken, BootInv, InFlight, serverVars, historyVars
  <2> QED
    BY <2>3, <2>4 DEF ClientInv
<1> QED
  BY <1>2, <1>3, <1>4 DEF ClientInv, TypeOK

(* The exchange spends the token that is presented, and grants a pair that *)
(* nobody has presented yet.                                               *)
LEMMA ServeKeeps ==
  ASSUME ClientInv, ServeRefresh
  PROVE  ClientInv'
<1>1. /\ refreshing = "sent" /\ refreshing' = "served"
      /\ UNCHANGED <<storeVars, presented, sendVars, historyVars, auth, booting, leaving>>
  BY DEF ServeRefresh
<1>2. Waiting' = Waiting
  BY <1>1 DEF Waiting, sendVars
<1>3. presented \in 1..minted
  BY <1>1 DEF ClientInv, TypeOK, InFlight
<1>4. CASE presented \in live /\ Rotate(presented) /\ granted' = minted + 1
  <2>1. /\ minted' \in 0..MaxTokens /\ minted' = minted + 1
        /\ minted + 1 \in 1..minted' /\ minted + 1 \notin 1..minted
        /\ 1..minted \subseteq 1..minted'
        /\ live' \subseteq 1..minted' /\ fresh' \subseteq 1..minted'
        /\ rotated' = rotated \cup {presented} /\ rotated' \subseteq 1..minted'
        /\ live' \cap rotated' = {}
    BY <1>3, <1>4, RotateMints DEF ClientInv
  <2>2. TypeOK'
    BY <1>1, <1>4, <2>1 DEF ClientInv, TypeOK, InFlight, storeVars, sendVars, historyVars
  <2>3. FlightInv'
    BY <1>1, <1>2, <1>3, <1>4, <2>1 DEF ClientInv, TypeOK, FlightInv, InFlight, storeVars,
       historyVars
  <2>4. SingleFlight'
    BY <1>1, <2>1 DEF ClientInv, SingleFlight, storeVars, historyVars
  <2>5. BootInv' /\ SignedInHasToken'
    BY <1>1 DEF ClientInv, BootInv, SignedInHasToken, storeVars, sendVars
  <2> QED
    BY <2>2, <2>3, <2>4, <2>5 DEF ClientInv
<1>5. CASE granted' = None /\ UNCHANGED serverVars
  <2>1. TypeOK'
    BY <1>1, <1>5 DEF ClientInv, TypeOK, InFlight, storeVars, sendVars, historyVars, serverVars
  <2>2. FlightInv' /\ SingleFlight'
    BY <1>1, <1>2, <1>5 DEF ClientInv, FlightInv, SingleFlight, InFlight, storeVars,
       historyVars, serverVars
  <2>3. BootInv' /\ SignedInHasToken'
    BY <1>1 DEF ClientInv, BootInv, SignedInHasToken, storeVars, sendVars
  <2> QED
    BY <2>1, <2>2, <2>3 DEF ClientInv
<1> QED
  BY <1>4, <1>5 DEF ServeRefresh

(* The end of a refresh takes every waiting call with it, and leaves in    *)
(* the store the pair that was granted, or nothing.                        *)
LEMMA RefreshEndsKeeps ==
  ASSUME ClientInv, RefreshReturns \/ RefreshFails
  PROVE  ClientInv'
<1>1. /\ refreshing \in InFlight /\ Waiting # {} /\ Waiting \in SUBSET Sends
      /\ NoFlight
      /\ UNCHANGED <<serverVars, cutOff, leaving>>
      /\ stray' \in {stray, stray \cup {presented}} /\ presented \in 1..minted
  BY DEF RefreshReturns, RefreshFails, InFlight, historyVars, ClientInv, FlightInv, TypeOK,
         Waiting
<1>2. CASE GiveUp(Waiting)
  <2>1. \A s \in Waiting : pc[s] # "idle"
    BY DEF Waiting
  <2>2. /\ access' = None /\ refresh' = None /\ auth' = "signed-out" /\ booting' = None
        /\ pc' \in [Sends -> {"idle", "sent", "denied", "waiting", "resent"}]
        /\ bearer' \in [Sends -> 1..minted \cup {None}]
    BY <1>1, <1>2, <2>1, GiveUpDoes
  <2>3. TypeOK'
    BY <1>1, <2>2 DEF ClientInv, TypeOK, NoFlight, InFlight, serverVars
  <2>4. FlightInv' /\ SingleFlight' /\ SignedInHasToken' /\ BootInv'
    BY <1>1, <2>2, NoneIsNoPair DEF ClientInv, TypeOK, FlightInv, SingleFlight,
       SignedInHasToken, BootInv, NoFlight, InFlight, serverVars
  <2> QED
    BY <2>3, <2>4 DEF ClientInv
<1>3. CASE RefreshReturns /\ granted # None
  <2>1. /\ access' = granted /\ refresh' = granted
        /\ pc' = [s \in Sends |-> IF s \in Waiting THEN "resent" ELSE pc[s]]
        /\ bearer' = [s \in Sends |-> IF s \in Waiting THEN granted ELSE bearer[s]]
        /\ UNCHANGED <<stray, auth, booting>>
    BY <1>3 DEF RefreshReturns, Adopt, historyVars
  <2>2. TypeOK'
    BY <1>1, <2>1 DEF ClientInv, TypeOK, NoFlight, InFlight, serverVars
  <2>3. FlightInv' /\ SingleFlight' /\ SignedInHasToken'
    BY <1>1, <1>3, <2>1 DEF ClientInv, FlightInv, SingleFlight, SignedInHasToken, NoFlight,
       InFlight, serverVars
  <2>4. BootInv'
    BY <1>1, <1>3, <2>1 DEF ClientInv, BootInv, Waiting
  <2> QED
    BY <2>2, <2>3, <2>4 DEF ClientInv
<1> QED
  BY <1>2, <1>3 DEF RefreshReturns, RefreshFails

(* Signing in and out.                                                     *)
LEMMA StoreKeeps ==
  ASSUME ClientInv, Login \/ Logout \/ LogoutEnds
  PROVE  ClientInv'
<1>1. UNCHANGED <<rotated, flightVars, sendVars, historyVars, booting>>
  BY DEF Login, Logout, LogoutEnds, serverVars
<1>2. Waiting' = Waiting
  BY <1>1 DEF Waiting, sendVars
<1>3. CASE Login
  <2>1. /\ minted < MaxTokens /\ minted' = minted + 1
        /\ live' = live \cup {minted + 1} /\ fresh' = fresh \cup {minted + 1}
        /\ access' = minted + 1 /\ refresh' = minted + 1
        /\ auth = "signed-out" /\ auth' = "signed-in"
        /\ UNCHANGED leaving
    BY <1>3, Zenon DEF Login, Adopt
  <2>2. /\ minted' \in 0..MaxTokens /\ minted + 1 \in 1..minted'
        /\ minted + 1 \notin 1..minted /\ 1..minted \subseteq 1..minted'
    BY <2>1, PairsToStartWith DEF ClientInv, TypeOK
  <2>3. TypeOK'
    BY <1>1, <2>1, <2>2 DEF ClientInv, TypeOK, flightVars, sendVars, historyVars
  <2>4. FlightInv' /\ SingleFlight' /\ SignedInHasToken'
    BY <1>1, <1>2, <2>1, <2>2, <2>3, NoneIsNone, PairsToStartWith
       DEF ClientInv, TypeOK, FlightInv, SingleFlight, SignedInHasToken, flightVars,
           historyVars, Pairs
  <2>5. BootInv'
    BY <1>1, <2>1 DEF ClientInv, BootInv
  <2> QED
    BY <2>3, <2>4, <2>5 DEF ClientInv
<1>4. CASE Logout
  <2>1. /\ auth = "signed-in" /\ leaving' = refresh
        /\ UNCHANGED <<serverVars, storeVars, auth>>
    BY <1>4 DEF Logout
  <2>2. TypeOK'
    BY <1>1, <2>1 DEF ClientInv, TypeOK, flightVars, sendVars, historyVars, serverVars,
       storeVars
  <2>3. FlightInv' /\ SingleFlight' /\ SignedInHasToken' /\ BootInv'
    BY <1>1, <1>2, <2>1 DEF ClientInv, FlightInv, SingleFlight, SignedInHasToken, BootInv,
       flightVars, sendVars, historyVars, serverVars, storeVars
  <2> QED
    BY <2>2, <2>3 DEF ClientInv
<1>5. CASE LogoutEnds
  <2>1. /\ live' \subseteq live /\ access' = None /\ refresh' = None
        /\ auth' = "signed-out" /\ leaving # None /\ leaving' = None
        /\ UNCHANGED <<minted, fresh>>
    BY <1>5, Zenon DEF LogoutEnds, Clear
  <2>2. booting' = None
    BY <1>1, <2>1 DEF ClientInv, BootInv
  <2>3. TypeOK'
    BY <1>1, <2>1 DEF ClientInv, TypeOK, flightVars, sendVars, historyVars
  <2>4. FlightInv' /\ SingleFlight' /\ SignedInHasToken' /\ BootInv'
    BY <1>1, <1>2, <2>1, <2>2, NoneIsNoPair DEF ClientInv, TypeOK, FlightInv, SingleFlight,
       SignedInHasToken, BootInv, flightVars, historyVars
  <2> QED
    BY <2>3, <2>4 DEF ClientInv
<1> QED
  BY <1>3, <1>4, <1>5

(* A page that goes away leaves its refresh behind, and its token with a   *)
(* mark.                                                                   *)
LEMMA ReloadKeeps ==
  ASSUME ClientInv, Reload
  PROVE  ClientInv'
<1>1. /\ pc' = [s \in Sends |-> "idle"]
      /\ bearer' = [s \in Sends |-> None]
      /\ access' = None /\ booting' = None /\ leaving' = None
      /\ refreshing' = "no" /\ presented' = None /\ granted' = None
      /\ auth' = IF refresh = None THEN "signed-out" ELSE "boot"
      /\ stray' = IF refreshing = "sent" THEN stray \cup {presented} ELSE stray
      /\ cutOff' = IF refreshing \in InFlight THEN cutOff \cup {presented} ELSE cutOff
      /\ UNCHANGED <<serverVars, refresh>>
  BY DEF Reload, Ended, NoFlight
<1>2. TypeOK'
  BY <1>1 DEF ClientInv, TypeOK, InFlight, serverVars
<1>3. FlightInv' /\ SingleFlight'
  BY <1>1 DEF ClientInv, FlightInv, SingleFlight, InFlight, serverVars
<1>4. SignedInHasToken' /\ BootInv'
  BY <1>1 DEF SignedInHasToken, BootInv
<1> QED
  BY <1>2, <1>3, <1>4 DEF ClientInv

(* The server and its clock.                                               *)
LEMMA ServerKeeps ==
  ASSUME ClientInv, NEW j \in Pairs, StrayRefresh(j) \/ AccessExpires(j) \/ RefreshExpires(j)
  PROVE  ClientInv'
<1>1. /\ UNCHANGED <<storeVars, flightVars, sendVars, cutOff, auth, booting, leaving>>
      /\ stray' \subseteq stray
  BY DEF StrayRefresh, AccessExpires, RefreshExpires, historyVars
<1>2. Waiting' = Waiting
  BY <1>1 DEF Waiting, sendVars
<1>3. BootInv' /\ SignedInHasToken'
  BY <1>1 DEF ClientInv, BootInv, SignedInHasToken, storeVars, sendVars
<1>4. CASE /\ live' \subseteq live /\ fresh' \subseteq fresh /\ UNCHANGED <<minted, rotated>>
  <2>1. TypeOK'
    BY <1>1, <1>4 DEF ClientInv, TypeOK, InFlight, storeVars, flightVars, sendVars
  <2>2. FlightInv' /\ SingleFlight'
    BY <1>1, <1>2, <1>4 DEF ClientInv, FlightInv, SingleFlight, storeVars, flightVars
  <2> QED
    BY <1>3, <2>1, <2>2 DEF ClientInv
<1>5. CASE j \in stray /\ j \in live /\ Rotate(j)
  <2>1. j \in 1..minted
    BY <1>5 DEF ClientInv, TypeOK
  <2>2. /\ minted' \in 0..MaxTokens /\ minted' = minted + 1
        /\ 1..minted \subseteq 1..minted'
        /\ live' \subseteq 1..minted' /\ fresh' \subseteq 1..minted'
        /\ rotated' = rotated \cup {j} /\ rotated' \subseteq 1..minted'
        /\ live' \cap rotated' = {}
    BY <1>5, <2>1, RotateMints DEF ClientInv
  <2>3. TypeOK'
    BY <1>1, <2>2 DEF ClientInv, TypeOK, InFlight, storeVars, flightVars, sendVars
  <2>4. FlightInv' /\ SingleFlight'
    BY <1>1, <1>2, <1>5, <2>2 DEF ClientInv, FlightInv, SingleFlight, storeVars, flightVars
  <2> QED
    BY <1>3, <2>3, <2>4 DEF ClientInv
<1> QED
  BY <1>4, <1>5 DEF StrayRefresh, AccessExpires, RefreshExpires, serverVars
-----------------------------------------------------------------------------
(* The invariant holds in every reachable state of the client.             *)
THEOREM ClientIsSound == Spec => []ClientInv
<1>1. Init => ClientInv
  <2> SUFFICES ASSUME Init PROVE ClientInv
    OBVIOUS
  <2>2. /\ minted \in {0, 1} /\ live = 1..minted /\ fresh = {} /\ rotated = {}
        /\ access = None /\ refresh = IF minted = 1 THEN 1 ELSE None
        /\ refreshing = "no" /\ presented = None /\ granted = None
        /\ pc = [s \in Sends |-> "idle"] /\ bearer = [s \in Sends |-> None]
        /\ auth = IF minted = 1 THEN "boot" ELSE "signed-out"
        /\ booting = None /\ leaving = None /\ stray = {} /\ cutOff = {}
    BY Zenon DEF Init
  <2>3. TypeOK
    BY <2>2, PairsToStartWith DEF TypeOK, InFlight
  <2>4. None # 1
    BY PairsToStartWith, NoneIsNone DEF Pairs
  <2>5. FlightInv /\ BootInv /\ SingleFlight /\ SignedInHasToken
    BY <2>2, <2>4 DEF FlightInv, BootInv, SingleFlight, SignedInHasToken, InFlight
  <2> QED
    BY <2>3, <2>5 DEF ClientInv
<1>2. ClientInv /\ [Next]_vars => ClientInv'
  <2> SUFFICES ASSUME ClientInv, [Next]_vars PROVE ClientInv'
    OBVIOUS
  <2>1. CASE UNCHANGED vars
    BY <2>1 DEF ClientInv, TypeOK, FlightInv, BootInv, SingleFlight, SignedInHasToken, Waiting,
       vars, serverVars, storeVars, flightVars, sendVars, historyVars
  <2>2. CASE Next
    BY <2>2, SendKeeps, RefreshOnceKeeps, ServeKeeps, RefreshEndsKeeps, StoreKeeps,
       ReloadKeeps, ServerKeeps DEF Next
  <2> QED
    BY <2>1, <2>2
<1> QED
  BY <1>1, <1>2, PTL DEF Spec

(* Every variable keeps its type; a token is never live and exchanged.     *)
THEOREM TypeCorrect == Spec => []TypeOK
<1>1. ClientInv => TypeOK
  BY DEF ClientInv
<1> QED
  BY <1>1, ClientIsSound, PTL

(* However many calls meet a 401, the client presents each refresh token   *)
(* to the server once, unless it went away while one was under way: what   *)
(* api.ts calls required for correctness.                                  *)
THEOREM EachTokenPresentedOnce == Spec => []SingleFlight
<1>1. ClientInv => SingleFlight
  BY DEF ClientInv
<1> QED
  BY <1>1, ClientIsSound, PTL

(* Nobody is shown as signed in without a session to refresh.              *)
THEOREM SignedInMeansSession == Spec => []SignedInHasToken
<1>1. ClientInv => SignedInHasToken
  BY DEF ClientInv
<1> QED
  BY <1>1, ClientIsSound, PTL
-----------------------------------------------------------------------------
(* The pair a refresh is answered with is nobody's before it is stored.    *)
GrantIsNew ==
    granted # None => access # granted /\ \A s \in Sends : bearer[s] # granted

LEMMA StepKeepsGrant == TypeOK /\ GrantIsNew /\ [Next]_vars => GrantIsNew'
<1> SUFFICES ASSUME TypeOK, GrantIsNew, [Next]_vars, granted' # None
             PROVE  access' # granted' /\ \A s \in Sends : bearer'[s] # granted'
  BY DEF GrantIsNew
<1>1. None \notin 1..minted /\ None \notin Sends
  BY NoneIsNoPair
<1>2. minted \in Nat /\ minted + 1 \notin 1..minted
  BY DEF TypeOK
<1>3. access \in 1..minted \cup {None} /\ bearer \in [Sends -> 1..minted \cup {None}]
      /\ granted \in 1..minted \cup {None}
  BY DEF TypeOK
<1>4. CASE ServeRefresh
  <2>1. granted' = minted + 1 /\ UNCHANGED <<access, bearer>>
    BY <1>4 DEF ServeRefresh, storeVars, sendVars
  <2>2. minted + 1 # None
    BY <1>4 DEF ServeRefresh
  <2> QED
    BY <1>2, <1>3, <2>1, <2>2
<1>5. CASE RefreshReturns \/ RefreshFails \/ Reload
  BY <1>5 DEF RefreshReturns, RefreshFails, Reload, NoFlight
<1>6. CASE Login
  <2>1. granted' = granted /\ bearer' = bearer /\ access' = minted + 1
    BY <1>6 DEF Login, Adopt, flightVars, sendVars
  <2> QED
    BY <1>2, <1>3, <2>1 DEF GrantIsNew
<1>7. ASSUME NEW s \in Sends, Send(s)
      PROVE  access' # granted' /\ \A q \in Sends : bearer'[q] # granted'
  BY <1>3, <1>7 DEF Send, GrantIsNew, flightVars, storeVars
<1>8. CASE /\ granted' = granted /\ access' \in {access, None}
           /\ \A s \in Sends : bearer'[s] \in {bearer[s], None}
  BY <1>8 DEF GrantIsNew
<1>9. ASSUME NEW s \in Sends, Succeed(s) \/ Fail(s) \/ Deny(s) \/ RefreshOnce(s)
      PROVE  granted' = granted /\ access' \in {access, None}
             /\ \A q \in Sends : bearer'[q] \in {bearer[q], None}
  <2>1. \A S \in SUBSET Sends : Ended(S) => \A q \in Sends : bearer'[q] \in {bearer[q], None}
    BY DEF Ended
  <2> QED
    BY <1>9, <2>1 DEF Succeed, Fail, Deny, RefreshOnce, GiveUp, Clear, flightVars, storeVars
<1>10. CASE Logout \/ LogoutEnds \/ UNCHANGED vars
  BY <1>8, <1>10 DEF Logout, LogoutEnds, Clear, vars, flightVars, storeVars, sendVars
<1>11. ASSUME NEW j \in Pairs, StrayRefresh(j) \/ AccessExpires(j) \/ RefreshExpires(j)
       PROVE  UNCHANGED <<flightVars, storeVars, sendVars>>
  BY <1>11 DEF StrayRefresh, AccessExpires, RefreshExpires
<1> QED
  BY <1>4, <1>5, <1>6, <1>7, <1>8, <1>9, <1>10, <1>11
  DEF Next, flightVars, storeVars, sendVars

(* A call that waits is resumed with the pair that was granted.            *)
LEMMA ReplayCarriesGrant ==
  ASSUME TypeOK, GrantIsNew, [Next]_vars, NEW s \in Sends,
         pc[s] = "waiting", pc'[s] = "resent"
  PROVE  bearer'[s] # bearer[s]
<1>1. CASE RefreshReturns
  <2>1. CASE granted # None
    <3>1. s \in Waiting
      BY DEF Waiting
    <3>2. bearer'[s] = granted
      BY <1>1, <2>1, <3>1 DEF RefreshReturns
    <3> QED
      BY <2>1, <3>2 DEF GrantIsNew
  <2>2. CASE granted = None
    BY <1>1, <2>2 DEF RefreshReturns, GiveUp, Ended
  <2> QED
    BY <2>1, <2>2
<1>2. ASSUME NEW q \in Sends, Send(q) \/ Succeed(q) \/ Fail(q) \/ Deny(q) \/ RefreshOnce(q)
      PROVE  FALSE
  BY <1>2 DEF Send, Succeed, Fail, Deny, RefreshOnce, GiveUp, Ended, TypeOK
<1>3. CASE RefreshFails \/ Reload
  BY <1>3 DEF RefreshFails, Reload, GiveUp, Ended
<1>4. CASE UNCHANGED sendVars
  BY <1>4 DEF sendVars
<1>5. ServeRefresh \/ Login \/ Logout \/ LogoutEnds \/ UNCHANGED vars => UNCHANGED sendVars
  BY DEF ServeRefresh, Login, Logout, LogoutEnds, vars, sendVars
<1>6. ASSUME NEW j \in Pairs, StrayRefresh(j) \/ AccessExpires(j) \/ RefreshExpires(j)
      PROVE  UNCHANGED sendVars
  BY <1>6 DEF StrayRefresh, AccessExpires, RefreshExpires
<1> QED
  BY <1>1, <1>2, <1>3, <1>4, <1>5, <1>6 DEF Next

(* A replay carries a token its request was never refused for.             *)
THEOREM ReplaysAreNew == Spec => ReplayIsNew
<1>1. Init => GrantIsNew
  BY DEF Init, GrantIsNew
<1>2. TypeOK /\ GrantIsNew /\ [Next]_vars =>
         [\A s \in Sends :
             pc[s] = "waiting" /\ pc'[s] = "resent" => bearer'[s] # bearer[s]]_vars
  BY ReplayCarriesGrant
<1> QED
  BY <1>1, <1>2, TypeCorrect, StepKeepsGrant, PTL DEF Spec, ReplayIsNew
=============================================================================
