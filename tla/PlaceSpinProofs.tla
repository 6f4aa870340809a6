-------------------------- MODULE PlaceSpinProofs ---------------------------
(***************************************************************************)
(* Proofs about SpinHandler and PlaceSpin.  What is stored in Redis or     *)
(* about to be answered is the outcome in table spins: with that, every    *)
(* step of the handlers plays a round once, tells a round, or does nothing *)
(* the promise of Rounds speaks of.                                        *)
(***************************************************************************)
EXTENDS PlaceSpin, TLAPS

(* Nothing is played, claimed or answered when the server first starts.    *)
LEMMA HandlerInitEstablishes == HandlerInit => HandlerInv
  BY ValuesAreDistinct
  DEF HandlerInit, HandlerInv, HandlerTypeOK, ClaimExclusive, Playing, PCs, Replies

(* A request arrives at an idle handler, which has claimed nothing yet.    *)
LEMMA ArriveKeeps ==
  ASSUME HandlerInv, NEW h \in Handlers, NEW r \in Refs, Arrive(h, r)
  PROVE  HandlerInv'
  BY ValuesAreDistinct
  DEF HandlerInv, Arrive, Goto, HandlerTypeOK, ClaimExclusive, Playing, PCs, Replies, Served

(* SETNX succeeds only when no handler holds a claim that is still known.  *)
LEMMA ClaimKeeps ==
  ASSUME HandlerInv, NEW h \in Handlers, Claim(h) \/ ClaimFails(h)
  PROVE  HandlerInv'
  BY ValuesAreDistinct
  DEF HandlerInv, Claim, ClaimFails, Answering, Goto, HandlerTypeOK, ClaimExclusive,
      Playing, PCs, Replies

(* What a loser replays is what was stored.                                *)
LEMMA ReadKeeps ==
  ASSUME HandlerInv, NEW h \in Handlers, Read(h)
  PROVE  HandlerInv'
  BY ValuesAreDistinct
  DEF HandlerInv, Read, Answering, Goto, HandlerTypeOK, ClaimExclusive, Playing, PCs, Replies

(* A commit finds the client_ref unplayed, so it contradicts no outcome    *)
(* stored, held or told before it.                                         *)
LEMMA SpinKeeps ==
  ASSUME HandlerInv, NEW h \in Handlers, Spin(h)
  PROVE  HandlerInv'
  BY ValuesAreDistinct
  DEF HandlerInv, Spin, Refused, Goto, HandlerTypeOK, ClaimExclusive, Playing, PCs, Replies

(* A handler stores the outcome it holds, and releases its own claim.      *)
LEMMA StoreKeeps ==
  ASSUME HandlerInv, NEW h \in Handlers, Store(h) \/ Release(h)
  PROVE  HandlerInv'
<1> DEFINE r == serving[h]
<1>1. pc[h] \in {"store", "release"} /\ r \in Refs /\ Playing(h)
  BY DEF Store, Release, HandlerInv, HandlerTypeOK, Playing
<1>2. UNCHANGED <<played, serving, result, told, lost, late>>
      /\ pc' = [pc EXCEPT ![h] = "reply"]
  BY DEF Store, Release, Answering, Goto
<1>3. CASE Store(h)
  <2>1. result[h] \in Outcomes /\ played[r] = result[h]
    BY <1>3 DEF Store, HandlerInv
  <2>2. key' = key \/ key' = [key EXCEPT ![r] = result[h]]
    BY <1>3 DEF Store
  <2>3. reply' = [reply EXCEPT ![h] = "outcome"]
    BY <1>3 DEF Store, Answering
  <2> QED
    BY <1>1, <1>2, <2>1, <2>2, <2>3, ValuesAreDistinct
    DEF HandlerInv, HandlerTypeOK, ClaimExclusive, Playing, PCs, Replies
<1>4. CASE Release(h)
  <2>1. key' = key \/ key' = [key EXCEPT ![r] = NoKey]
    BY <1>4 DEF Release
  <2>2. UNCHANGED reply /\ pc[h] = "release" /\ reply[h] # "outcome"
    BY <1>4 DEF Release, HandlerInv
  <2> QED
    BY <1>1, <1>2, <2>1, <2>2, ValuesAreDistinct
    DEF HandlerInv, HandlerTypeOK, ClaimExclusive, Playing, PCs, Replies
<1> QED
  BY <1>3, <1>4

(* Handlers that have returned hold nothing: what the others hold stands   *)
(* as long as the spins and the keys do.                                   *)
LEMMA GoneKeeps ==
  ASSUME HandlerInv, NEW H, Gone(H), UNCHANGED <<played, key, lost>>,
         told' \in [Refs -> SUBSET Outcomes],
         \A r \in Refs : told'[r] \subseteq {played[r]}
  PROVE  HandlerInv'
<1>1. /\ pc' = [h \in Handlers |-> IF h \in H THEN "idle" ELSE pc[h]]
      /\ serving' = [h \in Handlers |-> IF h \in H THEN NoRef ELSE serving[h]]
      /\ result' = [h \in Handlers |-> IF h \in H THEN Unplayed ELSE result[h]]
      /\ reply' = [h \in Handlers |-> IF h \in H THEN "error" ELSE reply[h]]
      /\ late' = [h \in Handlers |-> IF h \in H THEN FALSE ELSE late[h]]
  BY DEF Gone
<1>2. \A h \in Handlers : pc'[h] # "idle" =>
          /\ pc'[h] = pc[h] /\ serving'[h] = serving[h]
          /\ result'[h] = result[h] /\ reply'[h] = reply[h]
  BY <1>1
<1>3. late' \in [Handlers -> BOOLEAN]
  <2>1. \A h \in Handlers : late'[h] \in BOOLEAN
    BY <1>1, Zenon DEF HandlerInv, HandlerTypeOK
  <2> QED
    BY <1>1, <2>1, Zenon
<1>4. /\ pc' \in [Handlers -> PCs]
      /\ serving' \in [Handlers -> Refs \cup {NoRef}]
      /\ result' \in [Handlers -> Outcomes \cup {Unplayed}]
      /\ reply' \in [Handlers -> Replies]
      /\ \A h \in Handlers : pc'[h] = "idle" <=> serving'[h] = NoRef
  BY <1>1 DEF HandlerInv, HandlerTypeOK, PCs, Replies
<1>5. HandlerTypeOK'
  BY <1>3, <1>4 DEF HandlerInv, HandlerTypeOK
<1>6. /\ (\A r \in Refs : key[r] \in Outcomes => played[r] = key[r])'
      /\ (\A r \in Refs : told[r] \subseteq {played[r]})'
  BY DEF HandlerInv
<1>7. /\ ClaimExclusive'
      /\ (\A h \in Handlers : Playing(h) /\ serving[h] \notin lost => key[serving[h]] = Claimed)'
  BY <1>2 DEF HandlerInv, ClaimExclusive, Playing
<1>8. \A h \in Handlers :
          /\ pc'[h] = "store" \/ (pc'[h] = "reply" /\ reply'[h] = "outcome") =>
                result'[h] \in Outcomes /\ played'[serving'[h]] = result'[h]
          /\ pc'[h] = "release" => reply'[h] # "outcome"
  BY <1>2 DEF HandlerInv
<1> QED
  BY <1>5, <1>6, <1>7, <1>8 DEF HandlerInv

(* An answer tells the outcome its handler holds.                          *)
LEMMA AnswerKeeps ==
  ASSUME HandlerInv, NEW h \in Handlers, Answer(h)
  PROVE  HandlerInv'
<1> DEFINE r == serving[h]
<1>1. pc[h] = "reply" /\ r \in Refs /\ UNCHANGED <<played, key, lost>>
  BY DEF Answer, HandlerInv, HandlerTypeOK
<1>2. /\ told' \in [Refs -> SUBSET Outcomes]
      /\ \A q \in Refs : told'[q] \subseteq {played[q]}
  <2>1. CASE reply[h] = "outcome"
    <3>1. result[h] \in Outcomes /\ result[h] = played[r]
      BY <1>1, <2>1 DEF HandlerInv
    <3>2. told' = [told EXCEPT ![r] = @ \cup {result[h]}]
      BY <2>1 DEF Answer
    <3> QED
      BY <1>1, <3>1, <3>2 DEF HandlerInv, HandlerTypeOK
  <2>2. CASE reply[h] # "outcome"
    BY <2>2 DEF Answer, HandlerInv, HandlerTypeOK
  <2> QED
    BY <2>1, <2>2
<1>3. Gone({h})
  BY DEF Answer
<1> QED
  BY <1>1, <1>2, <1>3, GoneKeeps, Zenon

(* by-ref tells what table spins holds.                                    *)
LEMMA FindKeeps ==
  ASSUME HandlerInv, NEW r \in Refs, FindByClientRef(r)
  PROVE  HandlerInv'
  BY ValuesAreDistinct
  DEF HandlerInv, FindByClientRef, HandlerTypeOK, ClaimExclusive, Playing, PCs, Replies

(* A crash, a Redis restart and an expiry forget, and forge nothing.       *)
LEMMA EnvironmentKeeps ==
  ASSUME HandlerInv, Crash \/ Redis
  PROVE  HandlerInv'
<1>1. CASE Crash
  BY <1>1, GoneKeeps DEF Crash, HandlerInv, HandlerTypeOK
<1>2. CASE RedisRestart
  BY <1>2, ValuesAreDistinct
  DEF HandlerInv, RedisRestart, HandlerTypeOK, ClaimExclusive, Playing
<1>3. ASSUME NEW r \in Refs, KeyExpires(r)
      PROVE  HandlerInv'
  BY <1>3, ValuesAreDistinct
  DEF HandlerInv, KeyExpires, Served, HandlerTypeOK, ClaimExclusive, Playing
<1> QED
  BY <1>1, <1>2, <1>3 DEF Redis

(* HandlerInv is inductive.                                                *)
LEMMA HandlerNextKeeps == HandlerInv /\ [HandlerNext]_handlerVars => HandlerInv'
<1>1. ASSUME HandlerInv, HandlerNext PROVE HandlerInv'
  BY <1>1, ArriveKeeps, ClaimKeeps, ReadKeeps, SpinKeeps, StoreKeeps, AnswerKeeps, FindKeeps,
     EnvironmentKeeps DEF HandlerNext, Work
<1>2. ASSUME HandlerInv, UNCHANGED handlerVars PROVE HandlerInv'
  BY <1>2 DEF HandlerInv, handlerVars, HandlerTypeOK, ClaimExclusive, Playing
<1> QED
  BY <1>1, <1>2

(* HandlerInv holds in every reachable state of the handlers.              *)
THEOREM HandlersKeepClaims == HandlerSpec => []HandlerInv
  BY HandlerInitEstablishes, HandlerNextKeeps, PTL DEF HandlerSpec
-----------------------------------------------------------------------------
(* Every step of the handlers is one of Rounds or leaves it alone.         *)
LEMMA StepKeepsPromise ==
  HandlerInv /\ HandlerInv' /\ [HandlerNext]_handlerVars
      => [Promise!Next]_<<played, told>>
<1> SUFFICES ASSUME HandlerInv, HandlerInv', [HandlerNext]_handlerVars
             PROVE  Promise!Next \/ UNCHANGED <<played, told>>
  OBVIOUS
<1>1. ASSUME NEW h \in Handlers, Work(h)
      PROVE  Promise!Next \/ UNCHANGED <<played, told>>
  <2>1. CASE Spin(h)
    <3>1. pc[h] = "spin" /\ serving[h] \in Refs
      BY <2>1 DEF Spin, HandlerInv, HandlerTypeOK
    <3>2. UNCHANGED played \/ Promise!Play(serving[h])
      BY <2>1 DEF Spin, Refused, Promise!Play
    <3> QED
      BY <2>1, <3>1, <3>2 DEF Spin, Promise!Next
  <2>2. CASE ~Spin(h)
    BY <1>1, <2>2 DEF Work, Claim, ClaimFails, Read, Store, Release
  <2> QED
    BY <2>1, <2>2
<1>2. ASSUME NEW h \in Handlers, Answer(h)
      PROVE  Promise!Next \/ UNCHANGED <<played, told>>
  <2> DEFINE r == serving[h]
  <2>1. pc[h] = "reply" /\ r \in Refs
    BY <1>2 DEF Answer, HandlerInv, HandlerTypeOK
  <2>2. CASE reply[h] # "outcome"
    BY <1>2, <2>2 DEF Answer
  <2>3. CASE reply[h] = "outcome"
    <3>1. result[h] = played[r] /\ played[r] # Unplayed
      BY <2>1, <2>3, ValuesAreDistinct DEF HandlerInv
    <3>2. told' = [told EXCEPT ![r] = {played[r]}] /\ UNCHANGED played
      BY <1>2, <2>1, <2>3, <3>1 DEF Answer, HandlerInv, HandlerTypeOK
    <3> QED
      BY <2>1, <3>1, <3>2 DEF Promise!Next, Promise!Tell
  <2> QED
    BY <2>2, <2>3
<1>3. ASSUME NEW r \in Refs, FindByClientRef(r)
      PROVE  Promise!Next \/ UNCHANGED <<played, told>>
  <2>1. told' = [told EXCEPT ![r] = {played[r]}] /\ UNCHANGED played
    BY <1>3 DEF FindByClientRef, HandlerInv, HandlerTypeOK
  <2> QED
    BY <1>3, <2>1 DEF FindByClientRef, Promise!Next, Promise!Tell
<1>4. ASSUME NEW h \in Handlers, NEW r \in Refs, Arrive(h, r)
      PROVE  UNCHANGED <<played, told>>
  BY <1>4 DEF Arrive
<1>5. ASSUME Crash \/ Redis
      PROVE  UNCHANGED <<played, told>>
  BY <1>5 DEF Crash, Redis, RedisRestart, KeyExpires
<1>6. CASE UNCHANGED handlerVars
  BY <1>6 DEF handlerVars
<1> QED
  BY <1>1, <1>2, <1>3, <1>4, <1>5, <1>6 DEF HandlerNext

(* The handlers keep the promise of Rounds.                                *)
THEOREM HandlersKeepPromise == HandlerSpec => RoundsSpec
<1>1. HandlerInit => Promise!Init
  BY DEF HandlerInit, Promise!Init
<1> QED
  BY <1>1, HandlersKeepClaims, StepKeepsPromise, PTL
  DEF HandlerSpec, RoundsSpec, Promise!RoundsSpec
-----------------------------------------------------------------------------
(* The client and the network only make the handlers' own steps happen.    *)
LEMMA StepIsHandlerStep == TypeOK /\ [Next]_vars => [HandlerNext]_handlerVars
<1> SUFFICES ASSUME TypeOK, [Next]_vars
             PROVE  HandlerNext \/ UNCHANGED handlerVars
  OBVIOUS
<1>1. ASSUME Client PROVE HandlerNext \/ UNCHANGED handlerVars
  <2>1. CASE Recover
    <3>1. current \in Refs
      BY <2>1 DEF Recover, TypeOK
    <3>2. FindByClientRef(current) \/ UNCHANGED handlerVars
      BY <2>1 DEF Recover
    <3> QED
      BY <3>1, <3>2 DEF HandlerNext
  <2>2. CASE ~Recover
    BY <1>1, <2>2 DEF Client, PressSpin, ConnectionBreaks, TimesOut, Settle
  <2> QED
    BY <2>1, <2>2
<1>2. ASSUME Server PROVE HandlerNext
  BY <1>2 DEF Server, ServerCrashes, HandlerNext
<1>3. ASSUME NEW h \in Handlers,
             PostArrives(h) \/ GetAnswer(h) \/ AnswerLost(h)
                 \/ \E r \in Refs : ArrivesLateOrAgain(h, r)
      PROVE  HandlerNext
  <2>1. CASE PostArrives(h)
    <3>1. current \in Refs /\ Arrive(h, current)
      BY <2>1 DEF PostArrives, TypeOK
    <3> QED
      BY <3>1 DEF HandlerNext
  <2>2. CASE GetAnswer(h) \/ AnswerLost(h)
    <3>1. Answer(h)
      BY <2>2 DEF GetAnswer, AnswerLost
    <3> QED
      BY <3>1 DEF HandlerNext
  <2>3. ASSUME NEW r \in Refs, ArrivesLateOrAgain(h, r)
        PROVE  HandlerNext
    <3>1. Arrive(h, r)
      BY <2>3 DEF ArrivesLateOrAgain
    <3> QED
      BY <3>1 DEF HandlerNext
  <2> QED
    BY <1>3, <2>1, <2>2, <2>3
<1>4. CASE UNCHANGED vars
  BY <1>4 DEF vars
<1> QED
  BY <1>1, <1>2, <1>3, <1>4 DEF Next, Network

(* The variables of the client keep their types, whatever happens.         *)
ClientTypeOK ==
    /\ phase \in Phases
    /\ current \in Refs \cup {NoRef}
    /\ sent \subseteq Refs
    /\ waiter \in Handlers \cup {NoHandler}
    /\ attempt \in 0..MaxAttempts - 1
    /\ verdict \in [Refs -> Verdicts]
    /\ repeated \subseteq arrived /\ arrived \subseteq sent
    /\ phase \in {"requesting", "checking"} => current \in sent
    /\ phase # "requesting" => waiter = NoHandler

(* placeSpin ends with a verdict, and nobody is waited for any more.       *)
LEMMA FinishKeepsTypes ==
  ASSUME ClientTypeOK, NEW toPhase \in {"idle", "spinning"}, NEW toldAs \in Verdicts,
         Finish(toPhase, toldAs)
  PROVE  ClientTypeOK'
<1>1. verdict' \in [Refs -> Verdicts]
  BY DEF Finish, ClientTypeOK
<1>2. phase' \in Phases /\ phase' \notin {"requesting", "checking"} /\ waiter' = NoHandler
  BY DEF Finish, Phases
<1>3. attempt' \in 0..MaxAttempts - 1
  BY MaxAttemptsIsPositive DEF Finish
<1>4. UNCHANGED <<current, sent, arrived, repeated>>
  BY DEF Finish, historyVars
<1> QED
  BY <1>1, <1>2, <1>3, <1>4 DEF ClientTypeOK

(* Every step of the composition keeps them.                               *)
LEMMA ClientStepKeepsTypes == ClientTypeOK /\ [Next]_vars => ClientTypeOK'
<1> SUFFICES ASSUME ClientTypeOK, [Next]_vars PROVE ClientTypeOK'
  OBVIOUS
<1>1. ASSUME NEW r \in Refs, PressSpin(r) PROVE ClientTypeOK'
  BY <1>1 DEF PressSpin, ClientTypeOK, Phases, historyVars
<1>2. CASE ConnectionBreaks
  BY <1>2, FinishKeepsTypes DEF ConnectionBreaks, Verdicts
<1>3. CASE TimesOut \/ Settle
  BY <1>3 DEF TimesOut, Settle, ClientTypeOK, Phases, historyVars
<1>4. CASE Recover
  <2>1. CASE attempt + 1 < MaxAttempts /\ attempt' = attempt + 1
               /\ UNCHANGED <<phase, current, sent, waiter, verdict, historyVars>>
    BY <2>1, MaxAttemptsIsPositive DEF ClientTypeOK, historyVars
  <2>2. CASE Finish("spinning", "outcome") \/ Finish("idle", "unknown")
    BY <2>2, FinishKeepsTypes DEF Verdicts
  <2> QED
    BY <1>4, <2>1, <2>2 DEF Recover
<1>5. CASE Server
  BY <1>5 DEF Server, ServerCrashes, clientVars, ClientTypeOK, historyVars
<1>6. ASSUME NEW h \in Handlers, PostArrives(h) PROVE ClientTypeOK'
  BY <1>6 DEF PostArrives, ClientTypeOK
<1>7. ASSUME NEW h \in Handlers, GetAnswer(h) PROVE ClientTypeOK'
  BY <1>7, FinishKeepsTypes DEF GetAnswer, VerdictOf, Verdicts
<1>8. ASSUME NEW h \in Handlers, AnswerLost(h) PROVE ClientTypeOK'
  BY <1>8 DEF AnswerLost, ClientTypeOK, historyVars
<1>9. ASSUME NEW h \in Handlers, NEW r \in Refs, ArrivesLateOrAgain(h, r)
      PROVE  ClientTypeOK'
  BY <1>9 DEF ArrivesLateOrAgain, ClientTypeOK
<1>10. CASE UNCHANGED vars
  BY <1>10 DEF vars, clientVars, ClientTypeOK, historyVars
<1> QED
  BY <1>1, <1>2, <1>3, <1>4, <1>5, <1>6, <1>7, <1>8, <1>9, <1>10 DEF Next, Client, Network

(* TypeOK is the handlers' part and the client's.                          *)
LEMMA TypeOKParts == TypeOK <=> HandlerTypeOK /\ ClientTypeOK
  BY DEF TypeOK, ClientTypeOK

(* Types and claims hold in every reachable state of clients and server.   *)
LEMMA ComposedInvariance == Spec => [](TypeOK /\ HandlerInv)
<1>1. Init => TypeOK /\ HandlerInv
  <2>1. Init => HandlerInv
    BY HandlerInitEstablishes DEF Init
  <2>2. Init => ClientTypeOK
    BY MaxAttemptsIsPositive DEF Init, ClientTypeOK, Phases, Verdicts
  <2> QED
    BY <2>1, <2>2, TypeOKParts DEF HandlerInv
<1>2. TypeOK /\ HandlerInv /\ [Next]_vars => (TypeOK /\ HandlerInv)'
  <2> SUFFICES ASSUME TypeOK, HandlerInv, [Next]_vars PROVE TypeOK' /\ HandlerInv'
    OBVIOUS
  <2>1. HandlerInv'
    BY StepIsHandlerStep, HandlerNextKeeps
  <2>2. ClientTypeOK'
    BY TypeOKParts, ClientStepKeepsTypes
  <2>3. HandlerTypeOK'
    BY <2>1 DEF HandlerInv
  <2> QED
    BY <2>1, <2>2, <2>3 DEF TypeOK, ClientTypeOK
<1> QED
  BY <1>1, <1>2, PTL DEF Spec

(* Every variable of clients, handlers, Redis and spins keeps its type.    *)
THEOREM TypeCorrect == Spec => []TypeOK
  BY ComposedInvariance, PTL

(* Claims stay exclusive and stored responses true under every client and  *)
(* network the composition allows.                                         *)
THEOREM ClaimsHold == Spec => []HandlerInv
  BY ComposedInvariance, PTL

(* The promise of Rounds survives late, lost and repeated requests, server *)
(* crashes and Redis restarts: one round per client_ref, one truth told.   *)
THEOREM PromiseKept == Spec => RoundsSpec
<1>1. Init => HandlerInit
  BY DEF Init
<1>2. Spec => HandlerSpec
  BY <1>1, ComposedInvariance, StepIsHandlerStep, PTL DEF Spec, HandlerSpec
<1> QED
  BY <1>2, HandlersKeepPromise, PTL
-----------------------------------------------------------------------------
(* A response of table idem goes when its hours are over or Redis loses    *)
(* it: the handler that could overwrite or release it holds a claim, and   *)
(* a claim that is still known is no response.                             *)
LEMMA StoredStaysInStep ==
  ASSUME HandlerInv, [HandlerNext]_handlerVars, NEW r \in Refs,
         key[r] \in Outcomes, key'[r] # key[r]
  PROVE  ~Served(r) \/ r \in lost'
<1>1. key[r] # NoKey /\ key[r] # Claimed
  BY ValuesAreDistinct
<1>2. ASSUME NEW h \in Handlers, Claim(h) \/ ClaimFails(h)
      PROVE  FALSE
  BY <1>1, <1>2 DEF Claim, ClaimFails, Answering, HandlerInv, HandlerTypeOK
<1>3. ASSUME NEW h \in Handlers, Store(h) \/ Release(h)
      PROVE  r \in lost'
  <2>1. Playing(h) /\ UNCHANGED lost
    BY <1>3 DEF Store, Release, Playing
  <2>2. serving[h] = r
    BY <1>3 DEF Store, Release, HandlerInv, HandlerTypeOK
  <2> QED
    BY <1>1, <2>1, <2>2 DEF HandlerInv
<1>4. ASSUME NEW h \in Handlers,
             Read(h) \/ Spin(h) \/ Answer(h) \/ \E q \in Refs : Arrive(h, q)
      PROVE  FALSE
  BY <1>4 DEF Read, Spin, Answer, Arrive
<1>5. CASE RedisRestart
  BY <1>1, <1>5 DEF RedisRestart
<1>6. ASSUME NEW q \in Refs, KeyExpires(q)
      PROVE  ~Served(r)
  BY <1>6 DEF KeyExpires, HandlerInv, HandlerTypeOK
<1>7. ASSUME NEW q \in Refs, FindByClientRef(q)
      PROVE  FALSE
  BY <1>7 DEF FindByClientRef
<1>8. CASE Crash \/ UNCHANGED handlerVars
  BY <1>8 DEF Crash, handlerVars
<1> QED
  BY <1>2, <1>3, <1>4, <1>5, <1>6, <1>7, <1>8 DEF HandlerNext, Work, Redis

(* What a retry will replay stays where it is while anybody asks for it:   *)
(* no failed, refused or second handler removes the response of another.   *)
THEOREM StoredResponsesStay == Spec => StoredStays
<1>1. HandlerInv /\ [HandlerNext]_handlerVars =>
         [\A r \in Refs :
             key[r] \in Outcomes /\ key'[r] # key[r] => ~Served(r) \/ r \in lost']_handlerVars
  BY StoredStaysInStep
<1> QED
  BY <1>1, ComposedInvariance, StepIsHandlerStep, PTL DEF Spec, StoredStays
-----------------------------------------------------------------------------
(* The life of a bet that reached the server once: one handler serves it,  *)
(* finds no claim and no round, and until its INSERT there is none.        *)

Denied(h) == pc[h] \in {"release", "reply"} /\ reply[h] \notin {"outcome", "error"}

WaiterServes == waiter # NoHandler => phase = "requesting" /\ serving[waiter] = current

UnreachedUnplayed ==
    \A r \in Refs \ arrived : played[r] = Unplayed /\ key[r] = NoKey /\ ~Served(r)

ServedOnce ==
    \A g, h \in Handlers :
        g # h /\ serving[g] = serving[h] => serving[g] \in repeated \cup {NoRef}

FirstMeetsNobody ==
    \A h \in Handlers : serving[h] \in arrived \ repeated =>
        /\ pc[h] # "read"
        /\ pc[h] = "claim" => key[serving[h]] = NoKey
        /\ pc[h] \in {"claim", "spin"} \/ Denied(h) => played[serving[h]] = Unplayed

RejectionStands ==
    \A r \in Refs \ repeated : verdict[r] = "rejected" =>
        r \in arrived /\ ~Served(r) /\ played[r] = Unplayed

SingleInv ==
    /\ WaiterServes /\ UnreachedUnplayed /\ ServedOnce
    /\ FirstMeetsNobody /\ RejectionStands

LEMMA WorkKeepsSingle ==
  ASSUME TypeOK, HandlerInv, SingleInv, NEW h \in Handlers, Work(h), UNCHANGED clientVars
  PROVE  SingleInv'
<1> DEFINE r == serving[h]
<1>1. /\ UNCHANGED <<serving, phase, current, sent, waiter, verdict, arrived, repeated>>
      /\ \A g \in Handlers \ {h} : pc'[g] = pc[g] /\ reply'[g] = reply[g]
  BY DEF Work, Claim, ClaimFails, Read, Spin, Refused, Store, Release, Answering, Goto,
         clientVars, historyVars, TypeOK, HandlerTypeOK
<1>2. pc[h] # "idle" /\ r \in arrived
  <2>1. pc[h] # "idle"
    BY DEF Work, Claim, ClaimFails, Read, Spin, Store, Release
  <2>2. r \in Refs
    BY <2>1 DEF TypeOK, HandlerTypeOK
  <2> QED
    BY <2>1, <2>2 DEF SingleInv, UnreachedUnplayed, Served
<1>3. \A q \in Refs \ {r} : played'[q] = played[q] /\ key'[q] = key[q]
  BY DEF Work, Claim, ClaimFails, Read, Spin, Refused, Store, Release, TypeOK, HandlerTypeOK
<1>4. WaiterServes' /\ UnreachedUnplayed' /\ ServedOnce' /\ RejectionStands'
  BY <1>1, <1>2, <1>3
  DEF SingleInv, WaiterServes, UnreachedUnplayed, ServedOnce, RejectionStands, Served
<1>5. ASSUME NEW g \in Handlers \ {h}, serving'[g] \in (arrived \ repeated)'
      PROVE  /\ pc'[g] # "read"
             /\ pc'[g] = "claim" => key'[serving'[g]] = NoKey
             /\ pc'[g] \in {"claim", "spin"} \/ Denied(g)' => played'[serving'[g]] = Unplayed
  <2>1. serving[g] # r /\ serving[g] \in Refs
    BY <1>1, <1>2, <1>5, ValuesAreDistinct DEF SingleInv, ServedOnce, TypeOK
  <2> QED
    BY <1>1, <1>3, <1>5, <2>1 DEF SingleInv, FirstMeetsNobody, Denied
<1>6. ASSUME serving'[h] \in (arrived \ repeated)'
      PROVE  /\ pc'[h] # "read"
             /\ pc'[h] = "claim" => key'[serving'[h]] = NoKey
             /\ pc'[h] \in {"claim", "spin"} \/ Denied(h)' => played'[serving'[h]] = Unplayed
  <2>1. /\ r \in arrived \ repeated /\ serving'[h] = r
        /\ pc[h] # "read"
        /\ pc[h] = "claim" => key[r] = NoKey
        /\ pc[h] \in {"claim", "spin"} \/ Denied(h) => played[r] = Unplayed
    BY <1>1, <1>6 DEF SingleInv, FirstMeetsNobody
  <2> QED
    BY <2>1 DEF Work, Claim, ClaimFails, Read, Spin, Refused, Store, Release, Answering, Goto,
         Denied, TypeOK, HandlerTypeOK
<1> QED
  BY <1>4, <1>5, <1>6 DEF SingleInv, FirstMeetsNobody

(* A request arrives: what has not arrived before meets nobody and nothing.*)
LEMMA ArrivalKeepsSingle ==
  ASSUME TypeOK, SingleInv, NEW h \in Handlers, NEW r \in sent, Arrive(h, r),
         arrived' = arrived \cup {r}, repeated' = repeated \cup ({r} \cap arrived),
         waiter' = waiter \/ (waiter' = h /\ phase = "requesting" /\ current = r),
         UNCHANGED <<phase, current, verdict>>
  PROVE  SingleInv'
<1>1. /\ r \in Refs /\ pc[h] = "idle" /\ serving[h] = NoRef
      /\ serving' = [serving EXCEPT ![h] = r] /\ pc' = [pc EXCEPT ![h] = "claim"]
      /\ UNCHANGED <<played, key, reply>>
  BY DEF Arrive, Goto, TypeOK, HandlerTypeOK
<1>2. serving'[h] = r /\ pc'[h] = "claim"
  BY <1>1 DEF TypeOK, HandlerTypeOK
<1>3. \A g \in Handlers \ {h} : serving'[g] = serving[g] /\ pc'[g] = pc[g]
  BY <1>1 DEF TypeOK, HandlerTypeOK
<1>4. WaiterServes'
  <2>1. CASE waiter' = waiter
    <3>1. waiter # NoHandler => waiter \in Handlers /\ waiter # h
      <4>1. ASSUME waiter = h PROVE FALSE
        <5>1. phase = "requesting" /\ current = NoRef
          BY <4>1, <1>1, NoHandlerIsNone DEF SingleInv, WaiterServes
        <5> QED
          BY <5>1, ValuesAreDistinct DEF TypeOK
      <4> QED
        BY <4>1 DEF TypeOK
    <3> QED
      BY <1>3, <2>1, <3>1 DEF SingleInv, WaiterServes
  <2>2. CASE waiter' = h /\ phase = "requesting" /\ current = r
    BY <1>2, <2>2 DEF WaiterServes
  <2> QED
    BY <2>1, <2>2
<1>5. UnreachedUnplayed'
  BY <1>1, <1>2, <1>3 DEF SingleInv, UnreachedUnplayed, Served
<1>6. ServedOnce'
  <2>1. ASSUME NEW g \in Handlers \ {h}, serving[g] = r
        PROVE  r \in repeated'
    BY <2>1, <1>1 DEF SingleInv, UnreachedUnplayed, Served
  <2> QED
    BY <1>2, <1>3, <2>1 DEF SingleInv, ServedOnce
<1>7. FirstMeetsNobody'
  <2>1. r \in (arrived \ repeated)' => played[r] = Unplayed /\ key[r] = NoKey
    BY <1>1 DEF SingleInv, UnreachedUnplayed
  <2>2. \A g \in Handlers \ {h} :
            serving[g] \in (arrived \ repeated)' => serving[g] \in arrived \ repeated
    BY <1>1 DEF SingleInv, UnreachedUnplayed, Served
  <2> QED
    BY <1>1, <1>2, <1>3, <2>1, <2>2 DEF SingleInv, FirstMeetsNobody, Denied
<1>8. RejectionStands'
  BY <1>1, <1>2, <1>3 DEF SingleInv, RejectionStands, Served
<1> QED
  BY <1>4, <1>5, <1>6, <1>7, <1>8 DEF SingleInv

(* Handlers that have returned serve nothing, and the rest is as it was.   *)
LEMMA ReturnKeepsSingle ==
  ASSUME TypeOK, SingleInv, NEW H \in SUBSET Handlers, Gone(H),
         waiter' \in {waiter, NoHandler}, waiter' \notin H,
         UNCHANGED <<played, key, current, arrived, repeated>>,
         waiter' # NoHandler => phase' = phase,
         \A r \in Refs : verdict'[r] # verdict[r] /\ verdict'[r] = "rejected" =>
            \E h \in H : serving[h] = r /\ pc[h] = "reply" /\ Denied(h)
  PROVE  SingleInv'
<1>1. \A h \in Handlers : IF h \in H THEN pc'[h] = "idle" /\ serving'[h] = NoRef
                          ELSE /\ pc'[h] = pc[h] /\ serving'[h] = serving[h]
                               /\ reply'[h] = reply[h]
  BY DEF Gone
<1>2. WaiterServes'
  BY <1>1 DEF SingleInv, WaiterServes, TypeOK
<1>3. UnreachedUnplayed' /\ ServedOnce'
  BY <1>1, ValuesAreDistinct DEF SingleInv, UnreachedUnplayed, ServedOnce, Served
<1>4. FirstMeetsNobody'
  <2>1. NoRef \notin arrived
    BY ValuesAreDistinct DEF TypeOK
  <2> QED
    BY <1>1, <2>1 DEF SingleInv, FirstMeetsNobody, Denied
<1>5. RejectionStands'
  <2>1. ASSUME NEW r \in Refs \ repeated, verdict'[r] = "rejected"
        PROVE  r \in arrived /\ ~Served(r)' /\ played[r] = Unplayed
    <3>1. CASE verdict[r] = "rejected"
      BY <1>1, <3>1, ValuesAreDistinct DEF SingleInv, RejectionStands, Served
    <3>2. CASE verdict[r] # "rejected"
      <4>1. PICK h \in H : serving[h] = r /\ pc[h] = "reply" /\ Denied(h)
        BY <2>1, <3>2
      <4>2. r \in arrived
        BY <4>1 DEF SingleInv, UnreachedUnplayed, Served
      <4>3. played[r] = Unplayed
        BY <4>1, <4>2 DEF SingleInv, FirstMeetsNobody
      <4>4. \A g \in Handlers : serving[g] = r => g = h
        BY <4>1, ValuesAreDistinct DEF SingleInv, ServedOnce
      <4> QED
        BY <1>1, <4>1, <4>2, <4>3, <4>4, ValuesAreDistinct DEF Served
    <3> QED
      BY <3>1, <3>2
  <2> QED
    BY <2>1 DEF RejectionStands
<1> QED
  BY <1>2, <1>3, <1>4, <1>5 DEF SingleInv

(* The client decides nothing of what the handlers do.                     *)
LEMMA ClientKeepsSingle ==
  ASSUME TypeOK, SingleInv, Client
  PROVE  SingleInv'
<1>1. /\ UNCHANGED <<played, key, pc, serving, reply, arrived, repeated>>
      /\ waiter' # NoHandler => UNCHANGED <<waiter, phase, current>>
      /\ \A r \in Refs : verdict'[r] = "rejected" => verdict[r] = "rejected"
  <2>1. ASSUME NEW r \in Refs, PressSpin(r)
        PROVE  /\ UNCHANGED <<handlerVars, arrived, repeated, verdict>>
               /\ waiter' = NoHandler
    BY <2>1 DEF PressSpin, TypeOK, historyVars
  <2>2. ASSUME NEW ended \in Phases, NEW toldAs \in Verdicts \ {"rejected"},
               Finish(ended, toldAs)
        PROVE  /\ UNCHANGED <<arrived, repeated>> /\ waiter' = NoHandler
               /\ \A r \in Refs : verdict'[r] = "rejected" => verdict[r] = "rejected"
    BY <2>2 DEF Finish, TypeOK, historyVars
  <2>3. CASE ConnectionBreaks
    BY <2>2, <2>3 DEF ConnectionBreaks, Phases, Verdicts, handlerVars
  <2>4. CASE TimesOut \/ Settle
    BY <2>4 DEF TimesOut, Settle, TypeOK, historyVars, handlerVars
  <2>5. CASE Recover
    <3>1. \/ Finish("spinning", "outcome") \/ Finish("idle", "unknown")
          \/ UNCHANGED <<phase, current, sent, waiter, verdict, historyVars>>
      BY <2>5 DEF Recover
    <3>2. UNCHANGED <<played, key, pc, serving, reply>>
      BY <2>5 DEF Recover, FindByClientRef, handlerVars
    <3>3. phase = "checking" /\ waiter = NoHandler
      BY <2>5 DEF Recover, TypeOK
    <3> QED
      BY <2>2, <3>1, <3>2, <3>3 DEF Phases, Verdicts, historyVars
  <2> QED
    BY <2>1, <2>3, <2>4, <2>5 DEF Client, handlerVars
<1> QED
  BY <1>1 DEF SingleInv, WaiterServes, UnreachedUnplayed, ServedOnce, FirstMeetsNobody,
              RejectionStands, Served, Denied

(* SingleInv is inductive, on top of the types and of HandlerInv.          *)
LEMMA StepKeepsSingle == TypeOK /\ HandlerInv /\ SingleInv /\ [Next]_vars => SingleInv'
<1> SUFFICES ASSUME TypeOK, HandlerInv, SingleInv, [Next]_vars PROVE SingleInv'
  OBVIOUS
<1>1. CASE Server
  <2>1. CASE ServerCrashes
    BY <2>1, ReturnKeepsSingle, NoHandlerIsNone DEF ServerCrashes, Crash, historyVars
  <2>2. CASE Redis /\ UNCHANGED clientVars
    <3>1. /\ UNCHANGED <<played, pc, serving, reply>> /\ UNCHANGED clientVars
          /\ \A r \in Refs : key'[r] \in {key[r], NoKey}
      BY <2>2 DEF Redis, RedisRestart, KeyExpires, TypeOK, HandlerTypeOK
    <3>2. arrived \subseteq Refs
      BY DEF TypeOK
    <3> QED
      BY <3>1, <3>2 DEF SingleInv, WaiterServes, UnreachedUnplayed, ServedOnce,
         FirstMeetsNobody, RejectionStands, Served, Denied, clientVars, historyVars
  <2> QED
    BY <1>1, <2>1, <2>2, WorkKeepsSingle DEF Server
<1>2. ASSUME NEW h \in Handlers, PostArrives(h)
      PROVE  SingleInv'
  <2>1. current \in sent /\ current \notin arrived /\ Arrive(h, current)
    BY <1>2 DEF PostArrives, TypeOK
  <2>2. /\ arrived' = arrived \cup {current} /\ repeated' = repeated \cup ({current} \cap arrived)
        /\ waiter' = h /\ phase = "requesting" /\ UNCHANGED <<phase, current, verdict>>
    BY <1>2, <2>1 DEF PostArrives
  <2> QED
    BY <2>1, <2>2, ArrivalKeepsSingle
<1>3. ASSUME NEW h \in Handlers, NEW r \in Refs, ArrivesLateOrAgain(h, r)
      PROVE  SingleInv'
  BY <1>3, ArrivalKeepsSingle DEF ArrivesLateOrAgain
<1>4. ASSUME NEW h \in Handlers, GetAnswer(h)
      PROVE  SingleInv'
  <2>1. /\ pc[h] = "reply" /\ Gone({h}) /\ UNCHANGED <<played, key>>
        /\ waiter = h /\ waiter' = NoHandler
        /\ verdict' = [verdict EXCEPT ![current] = VerdictOf(reply[h])]
        /\ UNCHANGED <<current, arrived, repeated>>
    BY <1>4 DEF GetAnswer, Answer, Finish, historyVars
  <2>2. serving[h] = current
    BY <2>1, NoHandlerIsNone DEF SingleInv, WaiterServes
  <2>3. VerdictOf(reply[h]) = "rejected" => Denied(h)
    BY <2>1 DEF VerdictOf, Denied
  <2>4. \A r \in Refs : verdict'[r] # verdict[r] /\ verdict'[r] = "rejected" =>
            serving[h] = r /\ pc[h] = "reply" /\ Denied(h)
    BY <2>1, <2>2, <2>3 DEF TypeOK
  <2> QED
    BY <2>1, <2>4, ReturnKeepsSingle, NoHandlerIsNone
<1>5. ASSUME NEW h \in Handlers, AnswerLost(h)
      PROVE  SingleInv'
  <2>1. /\ Gone({h}) /\ waiter' \in {waiter, NoHandler} /\ waiter' # h
        /\ UNCHANGED <<played, key, phase, current, arrived, repeated, verdict>>
    BY <1>5, NoHandlerIsNone DEF AnswerLost, Answer, historyVars
  <2> QED
    BY <2>1, ReturnKeepsSingle
<1>6. CASE UNCHANGED vars
  BY <1>6 DEF vars, handlerVars, clientVars, historyVars, SingleInv, WaiterServes,
     UnreachedUnplayed, ServedOnce, FirstMeetsNobody, RejectionStands, Served, Denied
<1> QED
  BY <1>1, <1>2, <1>3, <1>4, <1>5, <1>6, ClientKeepsSingle DEF Next, Network

(* A refusal the player was shown is the end of a bet sent once: no        *)
(* handler, running or to come, plays it.                                  *)
THEOREM RejectionsAreFinal == Spec => []RejectionIsFinal
<1>1. Init => SingleInv
  BY ValuesAreDistinct
  DEF Init, HandlerInit, SingleInv, WaiterServes, UnreachedUnplayed, ServedOnce,
      FirstMeetsNobody, RejectionStands, Served
<1>2. SingleInv => RejectionIsFinal
  BY DEF SingleInv, RejectionStands, RejectionIsFinal
<1> QED
  BY <1>1, <1>2, ComposedInvariance, StepKeepsSingle, PTL DEF Spec
=============================================================================
