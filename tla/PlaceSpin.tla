----------------------------- MODULE PlaceSpin ------------------------------
(***************************************************************************)
(* Store.placeSpin of the clients, composed with the server: one bet at a  *)
(* time, each under a client_ref of its own, and what the player is told   *)
(* of it when the answer is late or the connection breaks.                 *)
(*                                                                         *)
(* The client sends a request once.  The promise the server makes is to    *)
(* anybody who repeats it, so here a request that was sent may also arrive *)
(* late, or again.                                                         *)
(***************************************************************************)
EXTENDS SpinHandler

CONSTANTS
    NoHandler,
    MaxAttempts     \* how often recoverSpin asks

ASSUME MaxAttemptsIsPositive == MaxAttempts \in Nat \ {0}
ASSUME NoHandlerIsNone       == NoHandler \notin Handlers

VARIABLES
    phase,          \* Store.spin
    current,        \* the client_ref placeSpin waits for
    sent,           \* the client_refs it has generated
    waiter,         \* the handler whose answer its connection carries
    attempt,        \* of recoverSpin
    verdict,        \* what the player was told of each bet
    arrived,        \* history: client_refs that reached a handler
    repeated        \* history: client_refs that did so more than once

historyVars == <<arrived, repeated>>
clientVars == <<phase, current, sent, waiter, attempt, verdict, historyVars>>
vars == <<handlerVars, clientVars>>

\* "offline" and "rejected" are two of the kinds definitelyDidNotHappen covers.
Verdicts == {"none", "outcome", "offline", "rejected", "unknown"}
Phases == {"idle", "requesting", "checking", "spinning"}

TypeOK ==
    /\ HandlerTypeOK
    /\ phase \in Phases
    /\ current \in Refs \cup {NoRef}
    /\ sent \subseteq Refs
    /\ waiter \in Handlers \cup {NoHandler}
    /\ attempt \in 0..MaxAttempts - 1
    /\ verdict \in [Refs -> Verdicts]
    /\ repeated \subseteq arrived /\ arrived \subseteq sent
    /\ phase \in {"requesting", "checking"} => current \in sent
    /\ phase # "requesting" => waiter = NoHandler

Init ==
    /\ HandlerInit
    /\ phase = "idle"
    /\ current = NoRef
    /\ sent = {}
    /\ waiter = NoHandler
    /\ attempt = 0
    /\ verdict = [r \in Refs |-> "none"]
    /\ arrived = {}
    /\ repeated = {}
-----------------------------------------------------------------------------
PressSpin(r) ==
    /\ phase = "idle"
    /\ r \notin sent
    /\ phase' = "requesting"
    /\ current' = r
    /\ sent' = sent \cup {r}
    /\ UNCHANGED <<handlerVars, waiter, attempt, verdict, historyVars>>

(* The request of placeSpin reaches a handler over its connection.         *)
PostArrives(h) ==
    /\ phase = "requesting"
    /\ current \notin arrived
    /\ Arrive(h, current)
    /\ waiter' = h
    /\ arrived' = arrived \cup {current}
    /\ UNCHANGED <<phase, current, sent, attempt, verdict, repeated>>

(* It arrives when the client has given it up, or somebody repeats it: the *)
(* 401 replay of Api.send, another tab, another client.                    *)
ArrivesLateOrAgain(h, r) ==
    /\ r \in sent
    /\ r \in arrived \/ phase # "requesting" \/ current # r
    /\ Arrive(h, r)
    /\ arrived' = arrived \cup {r}
    /\ repeated' = repeated \cup ({r} \cap arrived)
    /\ UNCHANGED <<phase, current, sent, waiter, attempt, verdict>>

Finish(toPhase, toldAs) ==
    /\ phase' = toPhase
    /\ waiter' = NoHandler
    /\ attempt' = 0
    /\ verdict' = [verdict EXCEPT ![current] = toldAs]
    /\ UNCHANGED <<current, sent, historyVars>>

VerdictOf(answer) ==
    CASE answer = "outcome" -> "outcome"
      [] answer = "error" -> "unknown"
      [] OTHER -> "rejected"

(* The answer arrives: 200 spins the wheel, anything else is an ApiError.  *)
GetAnswer(h) ==
    /\ phase = "requesting"
    /\ waiter = h
    /\ Answer(h)
    /\ Finish(IF reply[h] = "outcome" THEN "spinning" ELSE "idle", VerdictOf(reply[h]))

(* Nobody is listening any more, or the answer is lost on the way.         *)
AnswerLost(h) ==
    /\ Answer(h)
    /\ waiter' = IF waiter = h THEN NoHandler ELSE waiter
    /\ UNCHANGED <<phase, current, sent, attempt, verdict, historyVars>>

ServerCrashes ==
    /\ Crash
    /\ waiter' = NoHandler
    /\ UNCHANGED <<phase, current, sent, attempt, verdict, historyVars>>

(* fetch rejects with something else than an abort: Api.send calls it       *)
(* offline, wherever the connection broke.                                  *)
ConnectionBreaks ==
    /\ phase = "requesting"
    /\ Finish("idle", "offline")
    /\ UNCHANGED handlerVars

(* The fifteen seconds of the AbortController are over.                    *)
TimesOut ==
    /\ phase = "requesting"
    /\ phase' = "checking"
    /\ waiter' = NoHandler
    /\ UNCHANGED <<handlerVars, current, sent, attempt, verdict, historyVars>>

(* One attempt of recoverSpin: found, 404, or no answer.                   *)
Recover ==
    /\ phase = "checking"
    /\ \/ /\ FindByClientRef(current)
          /\ Finish("spinning", "outcome")
       \/ /\ played[current] = Unplayed
          /\ Finish("idle", "unknown")
          /\ UNCHANGED handlerVars
       \/ /\ attempt + 1 < MaxAttempts
          /\ attempt' = attempt + 1
          /\ UNCHANGED <<handlerVars, phase, current, sent, waiter, verdict, historyVars>>
       \/ /\ attempt + 1 = MaxAttempts
          /\ Finish("idle", "unknown")
          /\ UNCHANGED handlerVars

\* settleSpin and clearSpin, once the wheel has stopped.
Settle ==
    /\ phase = "spinning"
    /\ phase' = "idle"
    /\ UNCHANGED <<handlerVars, current, sent, waiter, attempt, verdict, historyVars>>

Client ==
    \/ \E r \in Refs : PressSpin(r)
    \/ ConnectionBreaks \/ TimesOut \/ Recover \/ Settle

Server ==
    \/ \E h \in Handlers : Work(h) /\ UNCHANGED clientVars
    \/ ServerCrashes
    \/ Redis /\ UNCHANGED clientVars

Network ==
    \E h \in Handlers :
        PostArrives(h) \/ GetAnswer(h) \/ AnswerLost(h) \/ \E r \in Refs : ArrivesLateOrAgain(h, r)

Next == Client \/ Server \/ Network

Spec == Init /\ [][Next]_vars
-----------------------------------------------------------------------------
(* A bet that arrived once and that the server refused is not played, then *)
(* or later: the 4xx the player is shown is the end of it.                 *)
RejectionIsFinal ==
    \A r \in Refs : verdict[r] = "rejected" /\ r \notin repeated => played[r] = Unplayed
=============================================================================
