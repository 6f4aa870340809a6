------------------------------ MODULE Accounts ------------------------------
(***************************************************************************)
(* What a registration promises.  A mobile line has one account or none;   *)
(* an account comes into being in one instant, whole, with its grant and   *)
(* its referrer; and what the caller is told was so at some instant while  *)
(* it waited.                                                              *)
(***************************************************************************)
CONSTANTS
    Callers,
    Requests,       \* what they may send
    NoRequest,
    Acceptable,     \* those that can be registered at all
    Line,           \* the mobile line each of these names
    Codes, NoCode,  \* referral codes, and none
    WelcomeGrant    \* what every account starts with

VARIABLES
    accounts,       \* the accounts there are
    active,         \* the codes of those that are not suspended
    asked,          \* what each caller has sent and waits for
    verdict         \* what it will be told

vars == <<accounts, active, asked, verdict>>

Init ==
    /\ asked = [p \in Callers |-> NoRequest]
    /\ verdict = [p \in Callers |-> "none"]

Ask(p) ==
    /\ asked[p] = NoRequest
    /\ \E r \in Requests : asked' = [asked EXCEPT ![p] = r]
    /\ \E v \in {"none", "invalid"} :
          /\ v = "invalid" <=> asked'[p] \notin Acceptable
          /\ verdict' = [verdict EXCEPT ![p] = v]
    /\ UNCHANGED <<accounts, active>>

Decide(p, v) ==
    /\ asked[p] # NoRequest /\ verdict[p] = "none"
    /\ verdict' = [verdict EXCEPT ![p] = v]
    /\ UNCHANGED asked

Account(r, code) ==
    [line |-> Line[r], code |-> code, referrer |-> r.ref, by |-> r, grant |-> WelcomeGrant]

Create(p) ==
    /\ Decide(p, "created")
    /\ \A a \in accounts : a.line # Line[asked[p]]
    /\ asked[p].ref # NoCode => \E a \in accounts : a.code = asked[p].ref
    /\ \E code \in Codes :
          /\ \A a \in accounts : a.code # code
          /\ accounts' = accounts \cup {Account(asked[p], code)}
          /\ active' = active \cup {code}

PhoneTaken(p) ==
    /\ Decide(p, "phone_taken")
    /\ \E a \in accounts : a.line = Line[asked[p]]
    /\ UNCHANGED <<accounts, active>>

UnknownReferrer(p) ==
    /\ Decide(p, "unknown_referral_code")
    /\ asked[p].ref # NoCode /\ asked[p].ref \notin active
    /\ UNCHANGED <<accounts, active>>

\* A 500 says nothing: the account may have been created.
Error(p) ==
    /\ asked[p] # NoRequest
    /\ verdict' = [verdict EXCEPT ![p] = "error"]
    /\ UNCHANGED <<accounts, active, asked>>

Answer(p) ==
    /\ verdict[p] # "none"
    /\ asked' = [asked EXCEPT ![p] = NoRequest]
    /\ verdict' = [verdict EXCEPT ![p] = "none"]
    /\ UNCHANGED <<accounts, active>>

SetActive ==
    /\ active' \subseteq {a.code : a \in accounts}
    /\ UNCHANGED <<accounts, asked, verdict>>

Next ==
    \/ \E p \in Callers :
          \/ Ask(p) \/ Create(p) \/ PhoneTaken(p) \/ UnknownReferrer(p)
          \/ Error(p) \/ Answer(p)
    \/ SetActive

AccountsSpec == Init /\ [][Next]_vars
=============================================================================
