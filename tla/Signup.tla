------------------------------- MODULE Signup -------------------------------
(***************************************************************************)
(* POST /v1/auth/register, as concurrent requests of one address: the rate *)
(* limit, the spelling of the number, and the transaction that creates the *)
(* account (internal/auth/phone.go, internal/api/auth.go,                  *)
(* internal/users/users.go).  A phone number is the sequence of its        *)
(* digits.  Tables users, wallets and transactions are what is committed;  *)
(* a request may fail wherever it is, as in MoneyTx.                       *)
(***************************************************************************)
EXTENDS RateLimit, SequencesExt

CONSTANTS
    Procs,          \* goroutines serving registrations
    Requests,       \* what callers send
    NoRequest,
    Codes, NoCode,  \* users.ref_code; a registration without one
    DemoGrant,      \* DEMO_GRANT_CENTS
    NationalLen,    \* 9: digits after the country code
    MinPasswordLength, MaxPasswordLength,
    MaxAttempts,    \* 5
    Suspendable,    \* the users that SetActive is called for, by code: a bound
    Seed            \* the accounts there are to begin with

CountryCode == <<2, 5, 4>>
Digits      == 0..9

ASSUME RequestsAreRecords ==
    /\ Requests \subseteq [raw : Seq(Digits), garbled : BOOLEAN, password : Nat,
                           ref : Codes \cup {NoCode}]
    /\ NoRequest \notin Requests /\ NoCode \notin Codes
ASSUME NumbersAreLong == NationalLen \in Nat /\ NationalLen > 1
ASSUME GrantIsMoney   == DemoGrant \in Nat /\ MaxAttempts \in Nat \ {0}

VARIABLES
    users,          \* table users
    granted,        \* the phones whose wallet and welcome bonus are there
    active,         \* the codes of the users with is_active
    pc,
    asked,          \* the request each process serves
    code,           \* the referral code it drew
    attempt,
    verdict         \* what it will answer

dbVars   == <<users, granted, active>>
procVars == <<pc, asked, code, attempt, verdict>>
vars     == <<limitVars, dbVars, procVars>>

InTransaction == {"phone", "code", "post"}
PCs == {"idle", "refused", "create", "issue", "answer"} \cup InTransaction
Verdicts == {"none", "invalid", "phone_taken", "unknown_referral_code", "created", "error"}
-----------------------------------------------------------------------------
(* auth.Normalise: the three spellings of a number.                        *)

Invalid == <<>>

Mobile(national) == IF national[1] \in {7, 1} THEN CountryCode \o national ELSE Invalid

Normalise(d) ==
    IF Len(d) = NationalLen + 3 /\ IsPrefix(CountryCode, d) THEN Mobile(SubSeq(d, 4, Len(d)))
    ELSE IF Len(d) = NationalLen + 1 /\ d[1] = 0 THEN Mobile(SubSeq(d, 2, Len(d)))
    ELSE IF Len(d) = NationalLen THEN Mobile(d)
    ELSE Invalid

ValidatePassword(length) == length \in MinPasswordLength..MaxPasswordLength

Valid(r) == ~r.garbled /\ Normalise(r.raw) # Invalid /\ ValidatePassword(r.password)

Phone(p) == Normalise(asked[p].raw)

Users == [phone : Seq(Digits), code : Codes, referrer : Codes \cup {NoCode}, by : Requests]

National(phone) == SubSeq(phone, 4, Len(phone))

ASSUME SeedIsRegistered ==
    Seed \subseteq {u \in Users : u.phone = CountryCode \o National(u.phone)}

TypeOK ==
    /\ LimitTypeOK
    /\ users \subseteq Users /\ Seed \subseteq users
    /\ granted \subseteq {u.phone : u \in users} /\ active \subseteq {u.code : u \in users}
    /\ pc \in [Procs -> PCs] /\ asked \in [Procs -> Requests \cup {NoRequest}]
    /\ \A p \in Procs : pc[p] \in {"idle", "refused"} <=> asked[p] = NoRequest
    /\ code \in [Procs -> Codes \cup {NoCode}] /\ attempt \in [Procs -> 0..MaxAttempts]
    /\ verdict \in [Procs -> Verdicts]

Init ==
    /\ LimitInit
    /\ users = Seed
    /\ granted = {u.phone : u \in Seed} /\ active = {u.code : u \in Seed}
    /\ pc = [p \in Procs |-> "idle"]
    /\ asked = [p \in Procs |-> NoRequest]
    /\ code = [p \in Procs |-> NoCode]
    /\ attempt = [p \in Procs |-> 0]
    /\ verdict = [p \in Procs |-> "none"]
-----------------------------------------------------------------------------
(* The rate limit, then the handler's own checks.                          *)

Goto(p, where) == pc' = [pc EXCEPT ![p] = where]

Enter(p, r) ==
    /\ asked' = [asked EXCEPT ![p] = r]
    /\ attempt' = [attempt EXCEPT ![p] = 1]
    /\ IF Valid(r) THEN Goto(p, "create") /\ UNCHANGED verdict
       ELSE Goto(p, "answer") /\ verdict' = [verdict EXCEPT ![p] = "invalid"]
    /\ UNCHANGED <<dbVars, code>>

Arrive(p) ==
    /\ pc[p] = "idle"
    /\ \/ (Admit \/ FailOpen) /\ \E r \in Requests : Enter(p, r)
       \/ Refuse /\ Goto(p, "refused") /\ UNCHANGED <<dbVars, asked, code, attempt, verdict>>

\* 429
TooMany(p) ==
    /\ pc[p] = "refused"
    /\ TellWhen \/ UNCHANGED limitVars      \* Redis fails: the whole window is named
    /\ Goto(p, "idle")
    /\ UNCHANGED <<dbVars, asked, code, attempt, verdict>>
-----------------------------------------------------------------------------
(* users.Create: one transaction for each attempt.                         *)

Says(p, v) ==
    /\ verdict' = [verdict EXCEPT ![p] = v]
    /\ Goto(p, "answer")
    /\ UNCHANGED <<limitVars, dbVars, asked, code, attempt>>

Advance(p, where) == Goto(p, where) /\ UNCHANGED <<limitVars, dbVars, asked, attempt, verdict>>

(* NewRefCode, BEGIN, and SELECT ... WHERE ref_code = $1 AND is_active.    *)
Resolve(p) ==
    /\ pc[p] = "create"
    /\ LET ref == asked[p].ref
       IN \/ /\ ref = NoCode \/ ref \in active
             /\ \E c \in Codes : code' = [code EXCEPT ![p] = c]
             /\ Advance(p, "phone")
          \/ ref # NoCode /\ ref \notin active /\ Says(p, "unknown_referral_code")

(* INSERT INTO users: an entry of a unique index that is not yet committed *)
(* makes the next one of its key wait.                                     *)
PhoneHeld(p) ==
    \E q \in Procs \ {p} : pc[q] \in {"code", "post"} /\ Phone(q) = Phone(p)

\* Mutant: users.phone has no unique index.
PhoneUnindexed(p) ==
    pc[p] = "phone" /\ Advance(p, "code") /\ UNCHANGED code

InsertPhone(p) ==
    /\ pc[p] = "phone" /\ ~PhoneHeld(p)
    /\ LET taken == \E u \in users : u.phone = Phone(p)
       IN \/ ~taken /\ Advance(p, "code") /\ UNCHANGED code
          \/ taken /\ Says(p, "phone_taken")

CodeHeld(p) == \E q \in Procs \ {p} : pc[q] = "post" /\ code[q] = code[p]

CodeTaken(p) == \E u \in users : u.code = code[p]

\* Mutant: collisions are retried without end.
AgainForEver(p) ==
    /\ attempt' = [attempt EXCEPT ![p] = @ + 1]
    /\ Goto(p, "create")
    /\ UNCHANGED <<limitVars, dbVars, asked, code, verdict>>

\* errRefCodeCollision: the transaction is rolled back and another begun.
Again(p) ==
    /\ attempt[p] < MaxAttempts
    /\ attempt' = [attempt EXCEPT ![p] = @ + 1]
    /\ Goto(p, "create")
    /\ UNCHANGED <<limitVars, dbVars, asked, code, verdict>>

InsertCode(p) ==
    /\ pc[p] = "code" /\ ~CodeHeld(p)
    /\ \/ ~CodeTaken(p) /\ Advance(p, "post") /\ UNCHANGED code
       \/ CodeTaken(p) /\ Again(p)
       \/ CodeTaken(p) /\ attempt[p] = MaxAttempts /\ Says(p, "error")

User(p) == [phone |-> Phone(p), code |-> code[p], referrer |-> asked[p].ref, by |-> asked[p]]

(* The wallet, the welcome bonus and COMMIT.  Its answer may be lost: that *)
(* is Fails, right after it.                                               *)
Commit(p) ==
    /\ pc[p] = "post"
    /\ users' = users \cup {User(p)}
    /\ active' = active \cup {code[p]}
    /\ granted' = granted \cup {Phone(p)}
    /\ verdict' = [verdict EXCEPT ![p] = "created"]
    /\ Goto(p, "issue")
    /\ UNCHANGED <<limitVars, asked, code, attempt>>

\* TokenService.Issue, and 201.
Issue(p) == pc[p] = "issue" /\ Says(p, "created")

(* A statement fails, the context ends, Redis cannot store the session.    *)
Fails(p) == pc[p] \in InTransaction \cup {"create", "issue"} /\ Says(p, "error")

Respond(p) ==
    /\ pc[p] = "answer"
    /\ Goto(p, "idle")
    /\ asked' = [asked EXCEPT ![p] = NoRequest]
    /\ verdict' = [verdict EXCEPT ![p] = "none"]
    /\ code' = [code EXCEPT ![p] = NoCode]
    /\ attempt' = [attempt EXCEPT ![p] = 0]
    /\ UNCHANGED <<limitVars, dbVars>>

\* Service.SetActive: no route calls it yet.
SetActive ==
    /\ \E u \in users :
          /\ u.code \in Suspendable
          /\ active' \in {active \cup {u.code}, active \ {u.code}}
    /\ UNCHANGED <<limitVars, users, granted, procVars>>

Handle(p) ==
    \/ TooMany(p) \/ Resolve(p) \/ InsertPhone(p) \/ InsertCode(p)
    \/ Commit(p) \/ Issue(p) \/ Fails(p) \/ Respond(p)

Next ==
    \/ \E p \in Procs : Arrive(p) \/ Handle(p)
    \/ (Tick \/ RedisRestarts) /\ UNCHANGED <<dbVars, procVars>>
    \/ SetActive

Spec == Init /\ [][Next]_vars
-----------------------------------------------------------------------------
(* The joined tables: an account is what has a wallet and its bonus.       *)
Opened ==
    {[line |-> National(u.phone), code |-> u.code, referrer |-> u.referrer, by |-> u.by,
      grant |-> IF u.phone \in granted THEN DemoGrant ELSE 0] : u \in users}

ValidRequests == {r \in Requests : Valid(r)}

\* The mobile line of a number is its last digits, however it is written.
LineOf(d) == SubSeq(d, Len(d) - NationalLen + 1, Len(d))

Promise == INSTANCE Accounts WITH
    Callers <- Procs, WelcomeGrant <- DemoGrant, accounts <- Opened,
    Acceptable <- ValidRequests, Line <- [r \in Requests |-> LineOf(r.raw)]

(* Registration implements Accounts: one account per line, whole, and true *)
(* answers, however requests race, repeat, collide and break off.          *)
AccountsSpec == Promise!AccountsSpec
-----------------------------------------------------------------------------
(* The inductive invariant of the promise: an entry of a unique index, of  *)
(* an account or of a transaction that may still become one, is of one.    *)

HasPhone(p) == pc[p] \in {"code", "post"}

PhonesInv ==
    /\ \A u \in users : u.phone = CountryCode \o National(u.phone)
    /\ granted = {u.phone : u \in users}
    /\ \A p \in Procs : HasPhone(p) =>
          /\ \A u \in users : u.phone # Phone(p)
          /\ \A q \in Procs \ {p} : HasPhone(q) => Phone(q) # Phone(p)

CodesInv ==
    \A p \in Procs : pc[p] = "post" =>
        /\ \A u \in users : u.code # code[p]
        /\ \A q \in Procs \ {p} : pc[q] = "post" => code[q] # code[p]

RequestInv(p) ==
    /\ pc[p] \notin {"answer", "issue"} <=> verdict[p] = "none"
    /\ pc[p] = "issue" => verdict[p] = "created"
    /\ pc[p] \in InTransaction \cup {"create"} => Valid(asked[p])
    /\ pc[p] \in InTransaction =>
          /\ code[p] \in Codes
          /\ asked[p].ref # NoCode => \E u \in users : u.code = asked[p].ref

AccountInv == TypeOK /\ PhonesInv /\ CodesInv /\ \A p \in Procs : RequestInv(p)
=============================================================================
