--------------------------- MODULE SessionsProofs ---------------------------
(***************************************************************************)
(* Proofs about Sessions, for any number of requests and tokens and any    *)
(* lifetimes.  Three arguments: a session is a chain because GETDEL leaves *)
(* its family without a live token until the new one is put; a ban covers  *)
(* the tokens it finds because it outlasts them by the tick a request may  *)
(* live; a suspension is complete one access token's life after the last   *)
(* request that missed it.                                                 *)
(***************************************************************************)
EXTENDS Sessions, TLAPS

(* Time only ever takes ticks away, and stops at zero.                     *)
LEMMA ElapsedBounds ==
  ASSUME NEW ticks \in Nat
  PROVE  /\ Elapsed(ticks) \in Nat
         /\ Elapsed(ticks) <= ticks
         /\ \A bound \in Nat : ticks <= bound + 1 => Elapsed(ticks) <= bound
  BY DEF Elapsed

(* What Issue writes, by name.                                             *)
LEMMA IssueWrites ==
  ASSUME NEW p \in Procs, Issue(p)
  PROVE  \E j \in Jtis \ Minted :
            /\ live' = live \cup {j}
            /\ access' = [access EXCEPT ![j] = AccessTTL]
            /\ family' = [family EXCEPT ![j] = IF token[p] = NoJti THEN j ELSE family[token[p]]]
            /\ parent' = [parent EXCEPT ![j] = token[p]]
            /\ revoked' = IF p \in doomed THEN revoked \cup {j} ELSE revoked
  BY DEF Issue
-----------------------------------------------------------------------------
(* Types. *)

(* The steps of requests that touch the process variables only write       *)
(* values of their types.                                                  *)
LEMMA RequestKeepsTypes ==
  ASSUME TypeOK, NEW p \in Procs, Request(p) \/ Fails(p)
  PROVE  TypeOK'
  BY DEF TypeOK, Request, Fails, Login, Refresh, LogoutAll, Begin, Return, Minted, PCs,
         tokenVars, banVars

(* So do their calls to Redis and Postgres: a spent token was minted, so   *)
(* it has a family, and a minted pair takes its family from that.          *)
LEMMA StepKeepsTypes ==
  ASSUME TypeOK, ChainInv, NEW p \in Procs, Step(p)
  PROVE  TypeOK'
<1> USE TTLsArePositive DEF PCs
<1>1. CASE AllowAgain(p)
  <2>1. banLost' \in BOOLEAN
    BY <1>1, Zenon DEF AllowAgain
  <2>2. /\ ban' = 0 /\ revoked' = {} /\ doomed' = {}
        /\ pc' = [pc EXCEPT ![p] = "issue"]
        /\ UNCHANGED <<live, access, family, parent, token, age, active, suspendedFor>>
    BY <1>1, Zenon DEF AllowAgain, Goto, tokenVars
  <2> QED
    BY <2>1, <2>2 DEF TypeOK
<1>2. CASE Consume(p)
  <2>1. CASE token[p] \in live
    BY <1>2, <2>1 DEF TypeOK, Consume, Goto
  <2>2. CASE token[p] \notin live
    <3>1. family[token[p]] \in Jtis
      BY <1>2 DEF TypeOK, Consume, ChainInv, Minted, Presented
    <3> QED
      BY <1>2, <2>2, <3>1 DEF TypeOK, Consume, Return
  <2> QED
    BY <2>1, <2>2
<1>3. CASE CheckBan(p) \/ Lookup(p)
  BY <1>3 DEF TypeOK, CheckBan, Lookup, Goto, Return, tokenVars
<1>4. CASE Issue(p)
  <2>1. PICK j \in Jtis \ Minted :
            /\ live' = live \cup {j}
            /\ access' = [access EXCEPT ![j] = AccessTTL]
            /\ family' = [family EXCEPT ![j] = IF token[p] = NoJti THEN j ELSE family[token[p]]]
            /\ parent' = [parent EXCEPT ![j] = token[p]]
            /\ revoked' = IF p \in doomed THEN revoked \cup {j} ELSE revoked
    BY <1>4, IssueWrites
  <2>2. access' \in [Jtis -> 0..AccessTTL]
    BY <2>1 DEF TypeOK
  <2>3. family' \in [Jtis -> Jtis \cup {NoJti}] /\ parent' \in [Jtis -> Jtis \cup {NoJti}]
    BY <2>1 DEF TypeOK
  <2>4. live' \subseteq Jtis /\ revoked' \subseteq Jtis
    BY <2>1 DEF TypeOK
  <2> QED
    BY <1>4, <2>2, <2>3, <2>4 DEF TypeOK, Issue, Return
<1>5. CASE RevokeAll(p)
  <2>2. banLost' \in BOOLEAN
    BY <1>5, Zenon DEF RevokeAll
  <2>3. /\ ban' = AccessTTL + BanMargin
        /\ revoked' = Minted
        /\ doomed' = {q \in Procs \ {p} : pc[q] # "idle"}
        /\ Return(p)
        /\ UNCHANGED <<live, access, family, parent, active, suspendedFor>>
    BY <1>5, Zenon DEF RevokeAll, tokenVars
  <2> QED
    BY <2>2, <2>3 DEF TypeOK, Return, Minted
<1> QED
  BY <1>1, <1>2, <1>3, <1>4, <1>5 DEF Step

(* So does everything that is not a request's step: time, logouts, keys    *)
(* that expire, a restart of Redis, a suspension.                          *)
LEMMA AmbientKeepsTypes ==
  ASSUME TypeOK,
         \/ \E j \in Jtis : Logout(j) \/ RefreshExpires(j)
         \/ \E flag \in BOOLEAN : SetActive(flag)
         \/ RedisRestart \/ Tick \/ UNCHANGED vars
  PROVE  TypeOK'
<1> USE TTLsArePositive
<1>1. ASSUME NEW j \in Jtis, Logout(j) \/ RefreshExpires(j) PROVE TypeOK'
  BY <1>1 DEF TypeOK, Logout, RefreshExpires, procVars, banVars
<1>2. ASSUME NEW flag \in BOOLEAN, SetActive(flag) PROVE TypeOK'
  BY <1>2 DEF TypeOK, SetActive, procVars, banVars, tokenVars
<1>3. CASE RedisRestart
  <2>1. banLost' \in BOOLEAN
    BY <1>3 DEF RedisRestart
  <2> QED
    BY <1>3, <2>1 DEF TypeOK, RedisRestart, procVars
<1>4. CASE Tick
  <2>1. access' \in [Jtis -> 0..AccessTTL]
    <3>1. \A j \in Jtis : Elapsed(access[j]) \in 0..AccessTTL
      BY DEF TypeOK, Elapsed
    <3> QED
      BY <1>4, <3>1 DEF Tick
  <2>2. ban' \in 0..AccessTTL + BanMargin /\ suspendedFor' \in 0..AccessTTL + 1
    BY <1>4 DEF TypeOK, Tick, Elapsed
  <2>3. age' \in [Procs -> 0..1]
    BY <1>4 DEF Tick
  <2> QED
    BY <1>4, <2>1, <2>2, <2>3 DEF TypeOK, Tick
<1>5. CASE UNCHANGED vars
  BY <1>5 DEF TypeOK, vars, procVars, banVars, tokenVars
<1> QED
  BY <1>1, <1>2, <1>3, <1>4, <1>5
-----------------------------------------------------------------------------
(* Chains. *)

(* Everything that leaves the tokens alone, spends none and holds none it  *)
(* did not hold before keeps the chains.                                   *)
LEMMA QuietKeepsChains ==
  ASSUME ChainInv,
         live' \subseteq live, UNCHANGED <<family, parent>>,
         \A j \in Jtis \ Minted : access'[j] = 0,
         \A q \in Procs : Presented(q)',
         \A q \in Procs : Holding(q)' => Holding(q) /\ token'[q] = token[q]
  PROVE  ChainInv'
<1>1. Minted' = Minted
  BY DEF Minted
<1>2. /\ live' \subseteq Minted'
      /\ \A j \in Minted' : family'[j] \in Minted'
      /\ \A j \in Jtis \ Minted' : access'[j] = 0 /\ parent'[j] = NoJti
      /\ \A j \in Jtis : parent'[j] # NoJti => parent'[j] \in Minted' \ live'
      /\ \A q \in Procs : Presented(q)'
  BY <1>1 DEF ChainInv
<1>3. SessionsAreChains'
  BY <1>1 DEF ChainInv, SessionsAreChains
<1>4. \A q \in Procs :
          Holding(q)' =>
              /\ token'[q] \in Minted' \ live'
              /\ \A j \in live' : family'[j] # family'[token'[q]]
              /\ \A j \in Jtis : parent'[j] # token'[q]
              /\ \A r \in Procs \ {q} :
                    Holding(r)' => family'[token'[r]] # family'[token'[q]]
  BY <1>1 DEF ChainInv
<1> QED
  BY <1>2, <1>3, <1>4 DEF ChainInv

(* A request that has returned holds no token.                             *)
LEMMA ReturnHoldsLess ==
  ASSUME TypeOK, ChainInv, NEW p \in Procs, Return(p), UNCHANGED family
  PROVE  /\ \A q \in Procs : Presented(q)'
         /\ \A q \in Procs : Holding(q)' => Holding(q) /\ token'[q] = token[q]
  BY DEF TypeOK, ChainInv, Return, Holding, Presented, Minted

(* The redeemed token leaves its family without a live one.                *)
LEMMA ConsumeKeepsChains ==
  ASSUME TypeOK, ChainInv, NEW p \in Procs, Consume(p)
  PROVE  ChainInv'
<1>1. CASE token[p] \notin live
  BY <1>1, ReturnHoldsLess, QuietKeepsChains DEF Consume, ChainInv
<1>2. CASE token[p] \in live
  <2> DEFINE t == token[p]
  <2>1. /\ t \in live /\ t \in Minted /\ pc[p] = "consume" /\ t # NoJti
        /\ live' = live \ {t}
        /\ pc' = [pc EXCEPT ![p] = "check"]
        /\ UNCHANGED <<token, access, family, parent>>
    BY <1>2, NoJtiIsNone DEF Consume, ChainInv, Goto, Minted, Presented
  <2>2. Minted' = Minted
    BY <2>1 DEF Minted
  <2>3. \A q \in Procs : Holding(q)' <=> Holding(q) \/ q = p
    BY <2>1 DEF TypeOK, Holding
  <2>4. SessionsAreChains'
    BY <2>1, <2>2 DEF ChainInv, SessionsAreChains
  <2>5. \A j \in live' : family[j] # family[t]
    BY <2>1 DEF ChainInv, SessionsAreChains
  <2>6. \A q \in Procs : Holding(q) => q # p /\ family[token[q]] # family[t]
    BY <2>1 DEF ChainInv, Holding
  <2>7. \A j \in Jtis : parent[j] # t
    BY <2>1 DEF ChainInv
  <2>8. \A q \in Procs :
            Holding(q)' =>
              /\ token'[q] \in Minted' \ live'
              /\ \A j \in live' : family'[j] # family'[token'[q]]
              /\ \A j \in Jtis : parent'[j] # token'[q]
              /\ \A r \in Procs \ {q} :
                    Holding(r)' => family'[token'[r]] # family'[token'[q]]
    BY <2>1, <2>2, <2>3, <2>5, <2>6, <2>7 DEF ChainInv
  <2>9. /\ live' \subseteq Minted'
        /\ \A j \in Minted' : family'[j] \in Minted'
        /\ \A j \in Jtis \ Minted' : access'[j] = 0 /\ parent'[j] = NoJti
        /\ \A j \in Jtis : parent'[j] # NoJti => parent'[j] \in Minted' \ live'
        /\ \A q \in Procs : Presented(q)'
    BY <2>1, <2>2 DEF ChainInv, TypeOK, Presented
  <2> QED
    BY <2>4, <2>8, <2>9 DEF ChainInv
<1> QED
  BY <1>1, <1>2

(* The new token is the only live one of its family, and the only one      *)
(* rotated from the token its request held.                                *)
LEMMA IssueKeepsChains ==
  ASSUME TypeOK, ChainInv, NEW p \in Procs, Issue(p)
  PROVE  ChainInv'
<1> DEFINE t == token[p]
<1>1. PICK j \in Jtis \ Minted :
          /\ live' = live \cup {j}
          /\ access' = [access EXCEPT ![j] = AccessTTL]
          /\ family' = [family EXCEPT ![j] = IF t = NoJti THEN j ELSE family[t]]
          /\ parent' = [parent EXCEPT ![j] = t]
          /\ revoked' = IF p \in doomed THEN revoked \cup {j} ELSE revoked
  BY IssueWrites
<1>2. pc[p] = "issue" /\ Return(p)
  BY DEF Issue
<1>3. t # NoJti => Holding(p) /\ t \in Minted /\ t \notin live /\ t # j
  BY <1>1, <1>2 DEF ChainInv, Holding
<1> DEFINE f == IF t = NoJti THEN j ELSE family[t]
<1>4. f \in Jtis /\ f # NoJti
  BY <1>1, <1>3, NoJtiIsNone DEF TypeOK, Minted
<1>5. /\ family'[j] = f /\ parent'[j] = t /\ access'[j] = AccessTTL
      /\ \A i \in Jtis \ {j} : /\ family'[i] = family[i] /\ parent'[i] = parent[i]
                               /\ access'[i] = access[i]
  BY <1>1 DEF TypeOK
<1>6. Minted' = Minted \cup {j}
  BY <1>1, <1>4, <1>5 DEF Minted
<1>7. \A i \in live : family[i] # f
  <2>1. CASE t = NoJti
    BY <1>1, <2>1 DEF ChainInv
  <2>2. CASE t # NoJti
    BY <1>3, <2>2 DEF ChainInv
  <2> QED
    BY <2>1, <2>2
<1>8. \A q \in Procs : Holding(q)' => /\ q # p /\ Holding(q) /\ token'[q] = token[q]
                                     /\ token[q] \in Minted /\ token[q] # j
                                     /\ family[token[q]] # f
  <2>1. \A q \in Procs : Holding(q)' => q # p /\ Holding(q) /\ token'[q] = token[q]
    BY <1>2 DEF TypeOK, Return, Holding
  <2>2. \A q \in Procs : Holding(q) => /\ token[q] \in Minted
                                      /\ family[token[q]] \in Minted
    BY DEF ChainInv
  <2>3. \A q \in Procs \ {p} : Holding(q) => family[token[q]] # f
    <3>1. CASE t = NoJti
      BY <1>1, <2>2, <3>1
    <3>2. CASE t # NoJti
      BY <1>3, <3>2 DEF ChainInv
    <3> QED
      BY <3>1, <3>2
  <2> QED
    BY <1>1, <2>1, <2>2, <2>3
<1>9. live' \subseteq Minted'
  BY <1>1, <1>6 DEF ChainInv
<1>10. \A i \in Minted' : family'[i] \in Minted'
  <2>1. f \in Minted'
    BY <1>3, <1>6 DEF ChainInv
  <2>2. \A i \in Minted : family'[i] \in Minted'
    BY <1>1, <1>5, <1>6 DEF ChainInv, Minted
  <2> QED
    BY <1>5, <1>6, <2>1, <2>2
<1>11. \A i \in Jtis \ Minted' : access'[i] = 0 /\ parent'[i] = NoJti
  BY <1>5, <1>6 DEF ChainInv
<1>12. \A i \in Jtis : parent'[i] # NoJti => parent'[i] \in Minted' \ live'
  BY <1>1, <1>3, <1>5, <1>6 DEF ChainInv
<1>13. \A q \in Procs : Presented(q)'
  BY <1>2, <1>6 DEF ChainInv, TypeOK, Return, Presented
<1>14. \A q \in Procs :
          Holding(q)' =>
              /\ token'[q] \in Minted' \ live'
              /\ \A i \in live' : family'[i] # family'[token'[q]]
              /\ \A i \in Jtis : parent'[i] # token'[q]
              /\ \A r \in Procs \ {q} :
                    Holding(r)' => family'[token'[r]] # family'[token'[q]]
  <2> SUFFICES ASSUME NEW q \in Procs, Holding(q)'
               PROVE  /\ token'[q] \in Minted' \ live'
                      /\ \A i \in live' : family'[i] # family'[token'[q]]
                      /\ \A i \in Jtis : parent'[i] # token'[q]
                      /\ \A r \in Procs \ {q} :
                            Holding(r)' => family'[token'[r]] # family'[token'[q]]
    OBVIOUS
  <2> DEFINE u == token[q]
  <2>1. q # p /\ Holding(q) /\ token'[q] = u /\ u \in Minted /\ u # j /\ family[u] # f
    BY <1>8
  <2>2. u \in Jtis /\ family'[u] = family[u]
    BY <1>5, <2>1 DEF Minted
  <2>3. u \in Minted' \ live'
    BY <1>1, <1>6, <2>1 DEF ChainInv
  <2>4. \A i \in live' : family'[i] # family[u]
    BY <1>1, <1>5, <2>1 DEF ChainInv, TypeOK
  <2>5. \A i \in Jtis : parent'[i] # u
    <3>1. t # u
      BY <1>3, <2>1 DEF ChainInv, Holding
    <3> QED
      BY <1>5, <2>1, <3>1 DEF ChainInv
  <2>6. \A r \in Procs \ {q} : Holding(r)' => family'[token'[r]] # family[u]
    <3> SUFFICES ASSUME NEW r \in Procs \ {q}, Holding(r)'
                 PROVE  family'[token'[r]] # family[u]
      OBVIOUS
    <3>1. Holding(r) /\ token'[r] = token[r] /\ token[r] \in Minted /\ token[r] # j
      BY <1>8
    <3>2. family'[token[r]] = family[token[r]]
      BY <1>5, <3>1 DEF Minted
    <3> QED
      BY <2>1, <3>1, <3>2 DEF ChainInv
  <2> QED
    BY <2>1, <2>2, <2>3, <2>4, <2>5, <2>6
<1>15. SessionsAreChains'
  <2>1. \A i, k \in live' : family'[i] = family'[k] => i = k
    BY <1>1, <1>5, <1>7 DEF ChainInv, SessionsAreChains, TypeOK
  <2>2. \A i \in Minted : parent'[i] = t => t = NoJti
    BY <1>1, <1>3, <1>5 DEF ChainInv, Minted
  <2>3. \A i, k \in Minted' : parent'[i] = parent'[k] /\ parent'[i] # NoJti => i = k
    BY <1>1, <1>5, <1>6, <2>2 DEF ChainInv, SessionsAreChains, Minted
  <2> QED
    BY <2>1, <2>3 DEF SessionsAreChains
<1> QED
  BY <1>9, <1>10, <1>11, <1>12, <1>13, <1>14, <1>15 DEF ChainInv

(* The other steps of requests hold no more than before.                   *)
LEMMA OtherRequestsKeepChains ==
  ASSUME TypeOK, ChainInv, NEW p \in Procs,
         \/ Request(p) \/ Fails(p) \/ AllowAgain(p) \/ CheckBan(p) \/ Lookup(p)
         \/ RevokeAll(p)
  PROVE  ChainInv'
<1>1. UNCHANGED <<live, access, family, parent>>
  BY Zenon DEF Request, Login, Refresh, LogoutAll, Fails, AllowAgain, CheckBan, Lookup,
               RevokeAll, tokenVars
<1>2. CASE Return(p)
  BY <1>1, <1>2, ReturnHoldsLess, QuietKeepsChains DEF ChainInv
<1>3. ASSUME NEW where \in {"consume", "login", "revoke"}, NEW j \in Jtis \cup {NoJti},
             Begin(p, where, j),
             where = "consume" => j \in Minted, where = "login" => j = NoJti
      PROVE  ChainInv'
  <2>1. /\ pc' = [pc EXCEPT ![p] = where] /\ token' = [token EXCEPT ![p] = j]
        /\ Minted' = Minted
    BY <1>1, <1>3 DEF Begin, Minted
  <2>2. \A q \in Procs : Presented(q)'
    BY <1>3, <2>1 DEF TypeOK, ChainInv, Presented
  <2>3. \A q \in Procs : Holding(q)' => Holding(q) /\ token'[q] = token[q]
    BY <2>1 DEF TypeOK, Holding
  <2> QED
    BY <1>1, <2>2, <2>3, QuietKeepsChains DEF ChainInv
<1>4. CASE \/ pc[p] = "login" /\ Goto(p, "issue") /\ token[p] = NoJti
           \/ pc[p] = "check" /\ Goto(p, "lookup")
           \/ pc[p] = "lookup" /\ Goto(p, "issue")
  <2>1. \A q \in Procs : Presented(q)'
    BY <1>1, <1>4 DEF TypeOK, ChainInv, Goto, Presented, Minted
  <2>2. \A q \in Procs : Holding(q)' => Holding(q) /\ token'[q] = token[q]
    BY <1>4 DEF TypeOK, Goto, Holding
  <2> QED
    BY <1>1, <2>1, <2>2, QuietKeepsChains DEF ChainInv
<1>5. CASE Request(p)
  <2>1. CASE Login(p)
    BY <1>3, <2>1 DEF Login
  <2>2. CASE \E j \in Jtis : Refresh(p, j)
    BY <1>3, <2>2 DEF Refresh
  <2>3. CASE \E j \in Jtis : LogoutAll(p, j)
    BY <1>3, <2>3 DEF LogoutAll
  <2> QED
    BY <1>5, <2>1, <2>2, <2>3 DEF Request
<1>6. CASE AllowAgain(p)
  BY <1>4, <1>6 DEF AllowAgain, ChainInv, Presented
<1> QED
  BY <1>2, <1>4, <1>5, <1>6, Zenon DEF Fails, CheckBan, Lookup, RevokeAll

(* Nor does anything that is no request's step: at most, keys go.          *)
LEMMA AmbientKeepsChains ==
  ASSUME TypeOK, ChainInv,
         \/ \E j \in Jtis : Logout(j) \/ RefreshExpires(j)
         \/ \E flag \in BOOLEAN : SetActive(flag)
         \/ RedisRestart \/ Tick \/ UNCHANGED vars
  PROVE  ChainInv'
<1>1. live' \subseteq live /\ UNCHANGED <<family, parent, pc, token>>
  BY Zenon DEF Logout, RefreshExpires, SetActive, RedisRestart, Tick, vars, tokenVars, procVars
<1>2. Minted' = Minted
  BY <1>1 DEF Minted
<1>3. \A j \in Jtis \ Minted : access'[j] = 0
  <2>1. \/ UNCHANGED access
        \/ access' = [j \in Jtis |-> Elapsed(access[j])]
    BY Zenon DEF Logout, RefreshExpires, SetActive, RedisRestart, Tick, vars, tokenVars
  <2> QED
    BY <2>1 DEF ChainInv, Elapsed
<1>4. \A q \in Procs : Presented(q)'
  BY <1>1, <1>2 DEF ChainInv, Presented
<1>5. \A q \in Procs : Holding(q)' => Holding(q) /\ token'[q] = token[q]
  BY <1>1 DEF Holding
<1> QED
  BY <1>1, <1>3, <1>4, <1>5, QuietKeepsChains
-----------------------------------------------------------------------------
(* The ban. *)

(* What leaves the ban, its tokens and the requests it waits for alone     *)
(* leaves the ban long enough.                                             *)
LEMMA QuietKeepsBan ==
  ASSUME TypeOK, BanInv, UNCHANGED <<ban, banLost, revoked>>,
         Minted \subseteq Minted',
         \A j \in revoked : access'[j] = access[j],
         \A q \in doomed' : q \in doomed /\ pc'[q] # "idle" /\ age'[q] = age[q]
  PROVE  BanInv'
  BY DEF BanInv

(* A request that is under way at a logout-all has a tick to live, and the *)
(* ban a tick more than the token the request may still mint.              *)
LEMMA IssueKeepsBan ==
  ASSUME TypeOK, ChainInv, BanInv, NEW p \in Procs, Issue(p)
  PROVE  BanInv'
<1>1. PICK j \in Jtis \ Minted :
          /\ live' = live \cup {j}
          /\ access' = [access EXCEPT ![j] = AccessTTL]
          /\ family' = [family EXCEPT ![j] = IF token[p] = NoJti THEN j ELSE family[token[p]]]
          /\ parent' = [parent EXCEPT ![j] = token[p]]
          /\ revoked' = IF p \in doomed THEN revoked \cup {j} ELSE revoked
  BY IssueWrites
<1>2. Return(p) /\ doomed' = doomed \ {p} /\ UNCHANGED <<ban, banLost>>
  BY DEF Issue
<1>3. revoked' \subseteq Minted'
  <2>1. j \in Minted'
    BY <1>1, IssueKeepsChains DEF ChainInv
  <2>2. \A i \in Minted : i \in Minted'
    <3> SUFFICES ASSUME NEW i \in Minted PROVE i \in Minted'
      OBVIOUS
    <3>1. i \in Jtis /\ i # j /\ family'[i] = family[i]
      BY <1>1 DEF Minted, TypeOK
    <3> QED
      BY <3>1 DEF Minted
  <2> QED
    BY <1>1, <2>1, <2>2 DEF BanInv
<1>4. \A i \in revoked : i # j /\ access'[i] = access[i]
  BY <1>1 DEF BanInv, TypeOK
<1>5. p \in doomed /\ ~banLost => AccessTTL <= ban
  BY TTLsArePositive DEF BanInv, TypeOK
<1>6. ~banLost' => \A i \in revoked' : access'[i] <= ban'
  BY <1>1, <1>2, <1>4, <1>5, TTLsArePositive DEF BanInv, TypeOK
<1>7. \A q \in doomed' : q \in doomed /\ pc'[q] # "idle" /\ age'[q] = age[q]
  BY <1>2 DEF BanInv, TypeOK, Return
<1>8. ~banLost' => \A q \in doomed' : AccessTTL + 1 - age'[q] <= ban'
  BY <1>2, <1>7 DEF BanInv
<1> QED
  BY <1>3, <1>6, <1>7, <1>8 DEF BanInv

(* The ban that is set outlasts by a tick every token there is.            *)
LEMMA RevokeAllKeepsBan ==
  ASSUME TypeOK, NEW p \in Procs, RevokeAll(p)
  PROVE  BanInv'
<1>1. /\ ban' = AccessTTL + BanMargin
      /\ revoked' = Minted
      /\ doomed' = {q \in Procs \ {p} : pc[q] # "idle"}
      /\ Return(p)
      /\ UNCHANGED <<access, family>>
  BY Zenon DEF RevokeAll, tokenVars
<1>2. revoked' \subseteq Minted'
  BY <1>1 DEF Minted
<1>3. \A q \in doomed' : pc'[q] # "idle" /\ age'[q] \in 0..1
  BY <1>1 DEF TypeOK, Return
<1>4. \A j \in revoked' : access'[j] <= ban'
  BY <1>1, TTLsArePositive DEF TypeOK, Minted
<1>5. \A q \in doomed' : AccessTTL + 1 - age'[q] <= ban'
  BY <1>1, <1>3, TTLsArePositive
<1> QED
  BY <1>2, <1>3, <1>4, <1>5 DEF BanInv

(* Every other step of a request.                                          *)
LEMMA OtherRequestsKeepBan ==
  ASSUME TypeOK, BanInv, NEW p \in Procs,
         \/ Request(p) \/ Fails(p) \/ AllowAgain(p) \/ Consume(p) \/ CheckBan(p)
         \/ Lookup(p)
  PROVE  BanInv'
<1>1. CASE AllowAgain(p)
  <2>1. revoked' = {} /\ doomed' = {}
    BY <1>1, Zenon DEF AllowAgain
  <2> QED
    BY <2>1 DEF BanInv
<1>2. CASE Request(p)
  <2>1. /\ UNCHANGED <<ban, banLost, revoked, doomed, access, family, age>>
        /\ pc[p] = "idle" /\ \A q \in Procs \ {p} : pc'[q] = pc[q]
    BY <1>2 DEF Request, Login, Refresh, LogoutAll, Begin, tokenVars, banVars, TypeOK
  <2> QED
    BY <2>1, QuietKeepsBan DEF BanInv, Minted, TypeOK
<1>3. CASE Fails(p) \/ Consume(p) \/ CheckBan(p) \/ Lookup(p)
  <2>1. /\ UNCHANGED <<ban, banLost, revoked, access, family>>
        /\ \/ doomed' = doomed /\ \E where \in PCs \ {"idle"} : Goto(p, where)
           \/ doomed' = doomed \ {p} /\ Return(p)
    BY <1>3 DEF Fails, Consume, CheckBan, Lookup, tokenVars, PCs
  <2>2. \A q \in doomed' : q \in doomed /\ pc'[q] # "idle" /\ age'[q] = age[q]
    BY <2>1 DEF BanInv, TypeOK, Goto, Return
  <2> QED
    BY <2>1, <2>2, QuietKeepsBan DEF Minted
<1> QED
  BY <1>1, <1>2, <1>3

(* Time takes a tick from the ban whenever it takes one from a token or    *)
(* from a request; a restart that takes more is remembered in banLost.     *)
LEMMA AmbientKeepsBan ==
  ASSUME TypeOK, BanInv,
         \/ \E j \in Jtis : Logout(j) \/ RefreshExpires(j)
         \/ \E flag \in BOOLEAN : SetActive(flag)
         \/ RedisRestart \/ Tick \/ UNCHANGED vars
  PROVE  BanInv'
<1>1. CASE UNCHANGED <<access, family, pc, age, ban, banLost, revoked, doomed>>
  BY <1>1, QuietKeepsBan DEF BanInv, Minted
<1>2. CASE RedisRestart
  <2>1. /\ ban' = 0
        /\ banLost' = (banLost \/ ban > 0)
        /\ UNCHANGED <<access, family, pc, age, revoked, doomed>>
    BY <1>2, Zenon DEF RedisRestart, procVars
  <2>2. ~banLost' => ~banLost /\ ~(ban > 0)
    BY <2>1, Zenon
  <2>3. ~(ban > 0) => ban' = ban
    BY <2>1 DEF TypeOK
  <2> QED
    BY <2>1, <2>2, <2>3 DEF BanInv, Minted
<1>3. CASE Tick
  <2>1. /\ \A q \in Procs : age[q] = 0
        /\ age' = [q \in Procs |-> IF pc[q] = "idle" THEN 0 ELSE 1]
        /\ access' = [j \in Jtis |-> Elapsed(access[j])]
        /\ ban' = Elapsed(ban)
        /\ UNCHANGED <<family, pc, banLost, revoked, doomed>>
    BY <1>3 DEF Tick
  <2>2. ~banLost' => \A j \in revoked' : access'[j] <= ban'
    BY <2>1 DEF BanInv, TypeOK, Elapsed
  <2>3. ~banLost' => \A q \in doomed' : AccessTTL + 1 - age'[q] <= ban'
    BY <2>1, TTLsArePositive DEF BanInv, TypeOK, Elapsed
  <2> QED
    BY <2>1, <2>2, <2>3 DEF BanInv, Minted
<1> QED
  BY <1>1, <1>2, <1>3 DEF Logout, RefreshExpires, SetActive, vars, tokenVars, procVars, banVars
-----------------------------------------------------------------------------
(* A suspension. *)

(* A request that read the account before the suspension mints at most a   *)
(* tick after it; every other token was already ageing.                    *)
LEMMA RequestKeepsSuspension ==
  ASSUME TypeOK, SuspensionInv, NEW p \in Procs, Request(p) \/ Fails(p) \/ Step(p)
  PROVE  SuspensionInv'
<1>1. CASE Issue(p)
  <2>1. PICK j \in Jtis \ Minted :
            /\ live' = live \cup {j}
            /\ access' = [access EXCEPT ![j] = AccessTTL]
            /\ family' = [family EXCEPT ![j] = IF token[p] = NoJti THEN j ELSE family[token[p]]]
            /\ parent' = [parent EXCEPT ![j] = token[p]]
            /\ revoked' = IF p \in doomed THEN revoked \cup {j} ELSE revoked
    BY <1>1, IssueWrites
  <2>2. Return(p) /\ pc[p] = "issue" /\ UNCHANGED <<active, suspendedFor>>
    BY <1>1 DEF Issue
  <2>3. suspendedFor <= 1
    BY <2>2 DEF SuspensionInv, TypeOK
  <2>4. \A i \in Jtis : access'[i] + suspendedFor' <= AccessTTL + 1
    BY <2>1, <2>2, <2>3, TTLsArePositive DEF SuspensionInv, TypeOK
  <2>5. \A q \in Procs : pc'[q] \in {"login", "issue"} => suspendedFor' <= age'[q]
    BY <2>2 DEF SuspensionInv, TypeOK, Return
  <2> QED
    BY <2>2, <2>4, <2>5 DEF SuspensionInv
<1>2. CASE \/ Request(p) \/ Fails(p) \/ AllowAgain(p) \/ Consume(p) \/ CheckBan(p)
           \/ Lookup(p) \/ RevokeAll(p)
  <2>1. UNCHANGED <<access, active, suspendedFor>>
    BY <1>2, Zenon DEF Request, Login, Refresh, LogoutAll, Fails, AllowAgain, Consume,
                       CheckBan, Lookup, RevokeAll, tokenVars
  <2>2. \/ Return(p)
        \/ \E j \in Jtis \cup {NoJti} : Begin(p, "login", j) /\ active
        \/ \E j \in Jtis \cup {NoJti} : Begin(p, "consume", j) \/ Begin(p, "revoke", j)
        \/ Goto(p, "issue") /\ (pc[p] = "login" \/ active)
        \/ Goto(p, "check") \/ Goto(p, "lookup")
    BY <1>2, Zenon DEF Request, Login, Refresh, LogoutAll, Fails, AllowAgain, Consume,
                       CheckBan, Lookup, RevokeAll
  <2>3. \A q \in Procs : pc'[q] \in {"login", "issue"} => suspendedFor <= age'[q]
    BY <2>2 DEF SuspensionInv, TypeOK, Return, Begin, Goto
  <2> QED
    BY <2>1, <2>3 DEF SuspensionInv
<1> QED
  BY <1>1, <1>2 DEF Step

(* The clock of the suspension and the tokens' run together.               *)
LEMMA AmbientKeepsSuspension ==
  ASSUME TypeOK, SuspensionInv,
         \/ \E j \in Jtis : Logout(j) \/ RefreshExpires(j)
         \/ \E flag \in BOOLEAN : SetActive(flag)
         \/ RedisRestart \/ Tick \/ UNCHANGED vars
  PROVE  SuspensionInv'
<1>1. CASE UNCHANGED <<access, active, suspendedFor, pc, age>>
  BY <1>1 DEF SuspensionInv
<1>2. ASSUME NEW flag \in BOOLEAN, SetActive(flag) PROVE SuspensionInv'
  <2>1. active' => suspendedFor' = 0
    BY <1>2, Zenon DEF SetActive
  <2>2. suspendedFor' = 0 \/ suspendedFor' = suspendedFor
    BY <1>2, Zenon DEF SetActive
  <2>3. UNCHANGED <<access, pc, age>>
    BY <1>2, Zenon DEF SetActive, tokenVars, procVars
  <2>4. /\ \A j \in Jtis : access[j] \in Nat /\ access[j] + suspendedFor <= AccessTTL + 1
        /\ \A q \in Procs : age[q] \in Nat
        /\ \A q \in Procs : pc[q] \in {"login", "issue"} => suspendedFor <= age[q]
        /\ suspendedFor \in Nat
    BY TTLsArePositive DEF SuspensionInv, TypeOK
  <2>5. /\ \A j \in Jtis : access[j] + suspendedFor' <= AccessTTL + 1
        /\ \A q \in Procs : pc[q] \in {"login", "issue"} => suspendedFor' <= age[q]
    BY <2>2, <2>4, TTLsArePositive
  <2> QED
    BY <2>1, <2>3, <2>5, Zenon DEF SuspensionInv
<1>3. CASE Tick
  <2>1. \A j \in Jtis : access'[j] + suspendedFor' <= AccessTTL + 1
    BY <1>3, TTLsArePositive DEF Tick, SuspensionInv, TypeOK, Elapsed
  <2>2. \A q \in Procs : pc'[q] \in {"login", "issue"} => suspendedFor' <= age'[q]
    BY <1>3, TTLsArePositive DEF Tick, SuspensionInv, TypeOK
  <2> QED
    BY <1>3, <2>1, <2>2 DEF Tick, SuspensionInv
<1> QED
  BY <1>1, <1>2, <1>3 DEF Logout, RefreshExpires, RedisRestart, vars, tokenVars, procVars
-----------------------------------------------------------------------------
(* The theorems. *)

(* The invariant holds in every reachable state: there, whatever requests  *)
(* interleave, tokens rotate in chains, the ban covers what it was set     *)
(* for, and a suspension has a last token.                                 *)
THEOREM SessionsAreSound == Spec => []SessionInv
<1>1. Init => SessionInv
  <2> SUFFICES ASSUME Init PROVE SessionInv
    OBVIOUS
  <2> USE TTLsArePositive
  <2>1. TypeOK
    <3>1. active \in BOOLEAN /\ banLost \in BOOLEAN
      BY Zenon DEF Init
    <3>2. /\ live = {} /\ ban = 0 /\ access = [j \in Jtis |-> 0]
          /\ family = [j \in Jtis |-> NoJti] /\ parent = [j \in Jtis |-> NoJti]
          /\ pc = [p \in Procs |-> "idle"] /\ token = [p \in Procs |-> NoJti]
          /\ age = [p \in Procs |-> 0] /\ revoked = {} /\ doomed = {}
          /\ suspendedFor = 0
      BY Zenon DEF Init
    <3> QED
      BY <3>1, <3>2 DEF TypeOK, PCs
  <2>2. Minted = {}
    BY DEF Init, Minted
  <2>3. ChainInv
    BY <2>2 DEF Init, ChainInv, SessionsAreChains, Holding, Presented
  <2>4. BanInv /\ SuspensionInv
    BY <2>2 DEF Init, BanInv, SuspensionInv
  <2> QED
    BY <2>1, <2>3, <2>4 DEF SessionInv
<1>2. SessionInv /\ [Next]_vars => SessionInv'
  <2> SUFFICES ASSUME TypeOK, ChainInv, BanInv, SuspensionInv, [Next]_vars
               PROVE  TypeOK' /\ ChainInv' /\ BanInv' /\ SuspensionInv'
    BY DEF SessionInv
  <2>1. ASSUME NEW p \in Procs, Request(p) \/ Step(p) \/ Fails(p)
        PROVE  TypeOK' /\ ChainInv' /\ BanInv' /\ SuspensionInv'
    <3>1. TypeOK'
      BY <2>1, RequestKeepsTypes, StepKeepsTypes
    <3>2. ChainInv'
      BY <2>1, ConsumeKeepsChains, IssueKeepsChains, OtherRequestsKeepChains DEF Step
    <3>3. BanInv'
      BY <2>1, IssueKeepsBan, RevokeAllKeepsBan, OtherRequestsKeepBan DEF Step
    <3>4. SuspensionInv'
      BY <2>1, RequestKeepsSuspension
    <3> QED
      BY <3>1, <3>2, <3>3, <3>4
  <2>2. CASE \/ \E j \in Jtis : Logout(j) \/ RefreshExpires(j)
             \/ \E flag \in BOOLEAN : SetActive(flag)
             \/ RedisRestart \/ Tick \/ UNCHANGED vars
    BY <2>2, AmbientKeepsTypes, AmbientKeepsChains, AmbientKeepsBan, AmbientKeepsSuspension
  <2> QED
    BY <2>1, <2>2 DEF Next
<1> QED
  BY <1>1, <1>2, PTL DEF Spec

(* Every variable keeps its type.                                          *)
THEOREM TypeCorrect == Spec => []TypeOK
<1>1. SessionInv => TypeOK
  BY DEF SessionInv
<1> QED
  BY <1>1, SessionsAreSound, PTL

(* However many requests present a refresh token at once, one redeems it,  *)
(* and the session it belongs to has at most one live token: GETDEL in     *)
(* Consume is what the callers race for.                                   *)
THEOREM OneRedeemer == Spec => []SessionsAreChains
<1>1. SessionInv => SessionsAreChains
  BY DEF SessionInv, ChainInv
<1> QED
  BY <1>1, SessionsAreSound, PTL

(* After a logout-all and no later login, no access token minted before it *)
(* or by a request it found under way is accepted, unless Redis lost the   *)
(* ban: RevokeAll's margin outlasts a request's ten seconds.               *)
THEOREM LogoutAllHolds == Spec => []BanOutlivesTokens
<1>1. SessionInv => BanOutlivesTokens
  BY TTLsArePositive DEF SessionInv, BanInv, BanOutlivesTokens, Accepted, TypeOK
<1> QED
  BY <1>1, SessionsAreSound, PTL

(* A suspended account is out one access token's life after the last       *)
(* request that read it as active: login and refresh both read is_active.  *)
THEOREM SuspensionCompletes == Spec => []SuspensionTakesEffect
<1>1. SessionInv => SuspensionTakesEffect
  BY TTLsArePositive DEF SessionInv, SuspensionInv, SuspensionTakesEffect, TypeOK
<1> QED
  BY <1>1, SessionsAreSound, PTL

(* A refresh token that left Redis, spent, revoked or expired, is never    *)
(* put back: Issue only puts the one it mints.                             *)
THEOREM DeadTokensStayDead == Spec => RotatedStaysDead
<1>1. [Next]_vars => [\A j \in Minted \ live : j \notin live']_vars
  <2> SUFFICES ASSUME Next, NEW j \in Minted \ live PROVE j \notin live'
    BY DEF vars
  <2>1. ASSUME NEW p \in Procs, Issue(p) PROVE j \notin live'
    BY <2>1, IssueWrites
  <2>2. CASE live' \subseteq live
    BY <2>2
  <2>3. ASSUME NEW p \in Procs, Request(p) \/ Fails(p) \/ AllowAgain(p) \/ Consume(p)
                                 \/ CheckBan(p) \/ Lookup(p) \/ RevokeAll(p)
        PROVE  live' \subseteq live
    BY <2>3, Zenon DEF Request, Login, Refresh, LogoutAll, Fails, AllowAgain, Consume,
                       CheckBan, Lookup, RevokeAll, tokenVars
  <2>4. CASE \/ \E i \in Jtis : Logout(i) \/ RefreshExpires(i)
             \/ \E flag \in BOOLEAN : SetActive(flag)
             \/ RedisRestart \/ Tick
    BY <2>4, Zenon DEF Logout, RefreshExpires, SetActive, RedisRestart, Tick, tokenVars
  <2> QED
    BY <2>1, <2>2, <2>3, <2>4 DEF Next, Step
<1> QED
  BY <1>1, PTL DEF Spec, RotatedStaysDead
=============================================================================
