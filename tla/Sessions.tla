------------------------------ MODULE Sessions ------------------------------
(***************************************************************************)
(* The sessions of one user: refresh tokens that rotate, access tokens     *)
(* that nobody can recall, and the ban in Redis that logout-all puts in    *)
(* their way.                                                              *)
(*                                                                         *)
(* The pair minted with refresh token j is known by j.  Time is counted in *)
(* ticks of the minute by which a ban outlasts the access tokens; a        *)
(* request, which lives ten seconds, spans at most one tick.  A step is    *)
(* one call to Redis or Postgres, and a request may fail before any.       *)
(***************************************************************************)
EXTENDS Naturals, FiniteSets

CONSTANTS
    Procs,          \* requests served at a time
    MaxTokens,      \* refresh tokens ever minted: a bound
    AccessTTL,      \* ACCESS_TOKEN_TTL, in ticks
    BanMargin,      \* RevokeAll's time.Minute
    NoJti

Jtis == 1..MaxTokens

ASSUME TTLsArePositive ==
    MaxTokens \in Nat /\ AccessTTL \in Nat \ {0} /\ BanMargin \in Nat \ {0}
ASSUME NoJtiIsNone == NoJti \notin Jtis

VARIABLES
    live,           \* Redis rt:<jti>: refresh tokens that can be redeemed
    ban,            \* Redis uban:<user>: ticks until it expires, 0 without one
    active,         \* users.is_active
    access,         \* ticks until the access token of each pair expires
    family,         \* the family of each pair, NoJti before it is minted
    pc,             \* where each request is
    token,          \* the refresh token it presented
    age,            \* ticks it has lived
    parent,         \* history: the token each pair was rotated from
    revoked,        \* history: pairs a RevokeAll was meant for
    doomed,         \* history: requests under way at a RevokeAll
    banLost,        \* history: Redis lost the ban
    suspendedFor    \* history: ticks since SetActive(false)

tokenVars == <<live, access, family, parent>>
procVars == <<pc, token, age>>
banVars == <<ban, banLost, revoked, doomed>>
vars == <<tokenVars, procVars, banVars, active, suspendedFor>>

PCs == {"idle", "consume", "check", "lookup", "login", "issue", "revoke"}

TypeOK ==
    /\ live \subseteq Jtis
    /\ ban \in 0..AccessTTL + BanMargin
    /\ active \in BOOLEAN
    /\ access \in [Jtis -> 0..AccessTTL]
    /\ family \in [Jtis -> Jtis \cup {NoJti}]
    /\ pc \in [Procs -> PCs]
    /\ token \in [Procs -> Jtis \cup {NoJti}]
    /\ age \in [Procs -> 0..1]
    /\ parent \in [Jtis -> Jtis \cup {NoJti}]
    /\ revoked \subseteq Jtis
    /\ doomed \subseteq Procs
    /\ banLost \in BOOLEAN
    /\ suspendedFor \in 0..AccessTTL + 1

Init ==
    /\ live = {}
    /\ ban = 0
    /\ active = TRUE
    /\ access = [j \in Jtis |-> 0]
    /\ family = [j \in Jtis |-> NoJti]
    /\ pc = [p \in Procs |-> "idle"]
    /\ token = [p \in Procs |-> NoJti]
    /\ age = [p \in Procs |-> 0]
    /\ parent = [j \in Jtis |-> NoJti]
    /\ revoked = {}
    /\ doomed = {}
    /\ banLost = FALSE
    /\ suspendedFor = 0
-----------------------------------------------------------------------------
Minted == {j \in Jtis : family[j] # NoJti}

(* VerifyAccess: the signature is not expired and the user is not banned.  *)
Accepted(j) == access[j] > 0 /\ ban = 0

Goto(p, where) == pc' = [pc EXCEPT ![p] = where] /\ UNCHANGED <<token, age>>

Begin(p, where, j) ==
    /\ pc[p] = "idle"
    /\ pc' = [pc EXCEPT ![p] = where]
    /\ token' = [token EXCEPT ![p] = j]
    /\ UNCHANGED age

Return(p) ==
    /\ pc' = [pc EXCEPT ![p] = "idle"]
    /\ token' = [token EXCEPT ![p] = NoJti]
    /\ age' = [age EXCEPT ![p] = 0]

\* An error or the request's deadline.
Fails(p) ==
    /\ pc[p] # "idle"
    /\ Return(p)
    /\ doomed' = doomed \ {p}
    /\ UNCHANGED <<tokenVars, ban, banLost, revoked, active, suspendedFor>>
-----------------------------------------------------------------------------
(* Login reads is_active with the credentials; a suspended user gets a 403. *)
Login(p) ==
    /\ active
    /\ Begin(p, "login", NoJti)
    /\ UNCHANGED <<tokenVars, banVars, active, suspendedFor>>

(* AllowAgain: a login lifts the ban, and what it stood in the way of.     *)
AllowAgain(p) ==
    /\ pc[p] = "login"
    /\ Goto(p, "issue")
    /\ ban' = 0
    /\ banLost' = FALSE
    /\ revoked' = {}
    /\ doomed' = {}
    /\ UNCHANGED <<tokenVars, active, suspendedFor>>

Refresh(p, j) ==
    /\ j \in Minted
    /\ Begin(p, "consume", j)
    /\ UNCHANGED <<tokenVars, banVars, active, suspendedFor>>

\* Mutant: GET where the code says GETDEL.
ConsumeByGet(p) ==
    /\ pc[p] = "consume"
    /\ token[p] \in live
    /\ Goto(p, "check")
    /\ UNCHANGED <<tokenVars, banVars, active, suspendedFor>>

(* GETDEL: one caller redeems the token, and a second one is told it was   *)
(* used, which is all that becomes of it.                                  *)
Consume(p) ==
    /\ pc[p] = "consume"
    /\ \/ /\ token[p] \in live
          /\ live' = live \ {token[p]}
          /\ Goto(p, "check")
          /\ UNCHANGED doomed
       \/ /\ token[p] \notin live               \* ErrTokenReused
          /\ Return(p)
          /\ doomed' = doomed \ {p}
          /\ UNCHANGED live
    /\ UNCHANGED <<access, family, parent, ban, banLost, revoked, active, suspendedFor>>

(* Rotate's IsBanned; a banned user's token is spent all the same.         *)
CheckBan(p) ==
    /\ pc[p] = "check"
    /\ \/ ban = 0 /\ Goto(p, "lookup") /\ UNCHANGED doomed
       \/ ban > 0 /\ Return(p) /\ doomed' = doomed \ {p}
    /\ UNCHANGED <<tokenVars, ban, banLost, revoked, active, suspendedFor>>

\* Mutant: the flag is taken from the old token, and the account never read.
LookupNothing(p) ==
    /\ pc[p] = "lookup"
    /\ Goto(p, "issue")
    /\ UNCHANGED <<tokenVars, banVars, active, suspendedFor>>

(* lookupAdmin: a deactivated account does not refresh.                    *)
Lookup(p) ==
    /\ pc[p] = "lookup"
    /\ \/ active /\ Goto(p, "issue") /\ UNCHANGED doomed
       \/ ~active /\ Return(p) /\ doomed' = doomed \ {p}
    /\ UNCHANGED <<tokenVars, ban, banLost, revoked, active, suspendedFor>>

\* Mutant: a rotation puts the presented token back beside the new one.
IssueBeside(p) ==
    /\ pc[p] = "issue"
    /\ \E j \in Jtis \ Minted :
          /\ \A i \in Jtis \ Minted : j <= i
          /\ live' = live \cup {j} \cup ({token[p]} \ {NoJti})
          /\ access' = [access EXCEPT ![j] = AccessTTL]
          /\ family' = [family EXCEPT ![j] = IF token[p] = NoJti THEN j ELSE family[token[p]]]
          /\ parent' = [parent EXCEPT ![j] = token[p]]
    /\ Return(p)
    /\ UNCHANGED <<banVars, active, suspendedFor>>

(* issueWithFamily: a fresh pair, of the token's family or of its own.     *)
(* The answer may be lost; the pair is then nobody's, and lives all the    *)
(* same.                                                                   *)
Issue(p) ==
    /\ pc[p] = "issue"
    /\ \E j \in Jtis \ Minted :
          /\ \A i \in Jtis \ Minted : j <= i
          /\ live' = live \cup {j}
          /\ access' = [access EXCEPT ![j] = AccessTTL]
          /\ family' = [family EXCEPT ![j] = IF token[p] = NoJti THEN j ELSE family[token[p]]]
          /\ parent' = [parent EXCEPT ![j] = token[p]]
          /\ revoked' = IF p \in doomed THEN revoked \cup {j} ELSE revoked
    /\ Return(p)
    /\ doomed' = doomed \ {p}
    /\ UNCHANGED <<ban, banLost, active, suspendedFor>>

(* Logout revokes the refresh token it is given, dead or alive.            *)
Logout(j) ==
    /\ j \in Minted
    /\ live' = live \ {j}
    /\ UNCHANGED <<access, family, parent, procVars, banVars, active, suspendedFor>>

LogoutAll(p, j) ==
    /\ Accepted(j)
    /\ Begin(p, "revoke", NoJti)
    /\ UNCHANGED <<tokenVars, banVars, active, suspendedFor>>

\* Mutant: the ban ends when a token minted at this moment does.
RevokeAllNoMargin(p) ==
    /\ pc[p] = "revoke"
    /\ Return(p)
    /\ ban' = AccessTTL
    /\ banLost' = FALSE
    /\ revoked' = Minted
    /\ doomed' = {q \in Procs \ {p} : pc[q] # "idle"}
    /\ UNCHANGED <<tokenVars, active, suspendedFor>>

(* RevokeAll bans the user; it touches no refresh token.                   *)
RevokeAll(p) ==
    /\ pc[p] = "revoke"
    /\ Return(p)
    /\ ban' = AccessTTL + BanMargin
    /\ banLost' = FALSE
    /\ revoked' = Minted
    /\ doomed' = {q \in Procs \ {p} : pc[q] # "idle"}
    /\ UNCHANGED <<tokenVars, active, suspendedFor>>
-----------------------------------------------------------------------------
(* SetActive changes the account and no key.                               *)
SetActive(flag) ==
    /\ active' = flag
    /\ suspendedFor' = IF flag THEN 0 ELSE suspendedFor
    /\ UNCHANGED <<tokenVars, procVars, banVars>>

\* REFRESH_TOKEN_TTL.
RefreshExpires(j) ==
    /\ j \in live
    /\ live' = live \ {j}
    /\ UNCHANGED <<access, family, parent, procVars, banVars, active, suspendedFor>>

RedisRestart ==
    /\ live' = {}
    /\ ban' = 0
    /\ banLost' = (banLost \/ ban > 0)
    /\ UNCHANGED <<access, family, parent, procVars, revoked, doomed, active, suspendedFor>>

Elapsed(ticks) == IF ticks > 0 THEN ticks - 1 ELSE 0

(* A tick: keys and tokens age, and no request lives to see a second one.  *)
Tick ==
    /\ \A p \in Procs : age[p] = 0
    /\ age' = [p \in Procs |-> IF pc[p] = "idle" THEN 0 ELSE 1]
    /\ access' = [j \in Jtis |-> Elapsed(access[j])]
    /\ ban' = Elapsed(ban)
    /\ suspendedFor' = IF active \/ suspendedFor = AccessTTL + 1
                       THEN suspendedFor ELSE suspendedFor + 1
    /\ UNCHANGED <<live, family, parent, pc, token, banLost, revoked, doomed, active>>

Request(p) ==
    \/ Login(p)
    \/ \E j \in Jtis : Refresh(p, j) \/ LogoutAll(p, j)

Step(p) ==
    \/ AllowAgain(p) \/ Consume(p) \/ CheckBan(p) \/ Lookup(p) \/ Issue(p) \/ RevokeAll(p)

Next ==
    \/ \E p \in Procs : Request(p) \/ Step(p) \/ Fails(p)
    \/ \E j \in Jtis : Logout(j) \/ RefreshExpires(j)
    \/ \E flag \in BOOLEAN : SetActive(flag)
    \/ RedisRestart
    \/ Tick

Spec == Init /\ [][Next]_vars
-----------------------------------------------------------------------------
(* Properties. *)

(* A session is a chain: one live refresh token, each redeemed by one      *)
(* caller however many present it at once.                                 *)
SessionsAreChains ==
    /\ \A i, j \in live : family[i] = family[j] => i = j
    /\ \A i, j \in Minted : parent[i] = parent[j] /\ parent[i] # NoJti => i = j

(* Logout-all without a later login: no access token minted before it, or  *)
(* by a request it found under way, is accepted again, because the ban     *)
(* outlasts them all.  Only Redis can lose it.                             *)
BanOutlivesTokens ==
    banLost \/ \A j \in revoked : ~Accepted(j)

(* A refresh token that was spent, revoked or expired never works again.   *)
RotatedStaysDead ==
    [][\A j \in Minted \ live : j \notin live']_vars

(* A suspended account is out once the access tokens it may have are over, *)
(* requests under way included: it can neither refresh nor log in.         *)
SuspensionTakesEffect ==
    suspendedFor > AccessTTL => \A j \in Jtis : access[j] = 0

-----------------------------------------------------------------------------
(* The inductive invariant: of the chains, of the ban, of a suspension.    *)

\* The request has spent its token and not rotated it yet.
Holding(p) == pc[p] \in {"check", "lookup", "issue"} /\ token[p] # NoJti

\* A refresh presents a token that was minted, a login presents none.
Presented(p) ==
    /\ pc[p] = "consume" => token[p] \in Minted
    /\ pc[p] = "login" => token[p] = NoJti

ChainInv ==
    /\ live \subseteq Minted
    /\ \A j \in Minted : family[j] \in Minted
    /\ \A j \in Jtis \ Minted : access[j] = 0 /\ parent[j] = NoJti
    /\ \A j \in Jtis : parent[j] # NoJti => parent[j] \in Minted \ live
    /\ \A p \in Procs : Presented(p)
    /\ \A p \in Procs :
          Holding(p) =>
              /\ token[p] \in Minted \ live
              /\ \A j \in live : family[j] # family[token[p]]
              /\ \A j \in Jtis : parent[j] # token[p]
              /\ \A q \in Procs \ {p} : Holding(q) => family[token[q]] # family[token[p]]
    /\ SessionsAreChains

BanInv ==
    /\ revoked \subseteq Minted
    /\ \A p \in doomed : pc[p] # "idle"
    /\ ~banLost => /\ \A j \in revoked : access[j] <= ban
                   /\ \A p \in doomed : AccessTTL + 1 - age[p] <= ban

SuspensionInv ==
    /\ active => suspendedFor = 0
    /\ \A j \in Jtis : access[j] + suspendedFor <= AccessTTL + 1
    /\ \A p \in Procs : pc[p] \in {"login", "issue"} => suspendedFor <= age[p]

SessionInv == TypeOK /\ ChainInv /\ BanInv /\ SuspensionInv
=============================================================================
