---------------------------- MODULE SpinHandler -----------------------------
(***************************************************************************)
(* POST /v1/game/spin and GET /v1/game/spins/by-ref for one player: the    *)
(* handlers that serve the same client_refs at once, the idempotency key   *)
(* they claim in Redis, and the spin the database keeps.                   *)
(*                                                                         *)
(* Service.Spin is one step here: MoneyTx shows that its transaction takes *)
(* effect at its commit.  Any call may fail, with or without having had    *)
(* its effect: that is what an expired or cancelled context leaves behind. *)
(***************************************************************************)
EXTENDS Naturals

CONSTANTS
    Handlers,       \* goroutines that serve the player's requests
    Refs,           \* client_refs
    Outcomes,       \* results of a spin, as the marshalled body names them
    Unplayed,       \* no row in table spins
    NoKey, Claimed, \* the idempotency key is absent, or set to ""
    NoRef

ASSUME ValuesAreDistinct ==
    /\ {Unplayed, NoKey, Claimed} \cap Outcomes = {}
    /\ NoKey # Claimed
    /\ NoRef \notin Refs

VARIABLES
    played,         \* table spins
    key,            \* Redis: idem:<user>:<client_ref>
    pc,             \* where each handler is
    serving,        \* the client_ref of the request it serves
    result,         \* the outcome it is about to answer with
    reply,          \* the answer it is about to write
    told,           \* history: the outcomes answered for each client_ref
    lost,           \* history: client_refs whose key Redis has lost
    late            \* history: the request came when the round was over

handlerVars == <<played, key, pc, serving, result, reply, told, lost, late>>

\* The answers: 200, 409 spin_in_flight, 409 duplicate_spin, 400, 500.
Replies == {"outcome", "in_flight", "duplicate", "rejected", "error"}
PCs == {"idle", "claim", "read", "spin", "store", "release", "reply"}

HandlerTypeOK ==
    /\ played \in [Refs -> Outcomes \cup {Unplayed}]
    /\ key \in [Refs -> Outcomes \cup {NoKey, Claimed}]
    /\ pc \in [Handlers -> PCs]
    /\ serving \in [Handlers -> Refs \cup {NoRef}]
    /\ \A h \in Handlers : pc[h] = "idle" <=> serving[h] = NoRef
    /\ result \in [Handlers -> Outcomes \cup {Unplayed}]
    /\ reply \in [Handlers -> Replies]
    /\ told \in [Refs -> SUBSET Outcomes]
    /\ lost \subseteq Refs
    /\ late \in [Handlers -> BOOLEAN]

HandlerInit ==
    /\ played = [r \in Refs |-> Unplayed]
    /\ key = [r \in Refs |-> NoKey]
    /\ pc = [h \in Handlers |-> "idle"]
    /\ serving = [h \in Handlers |-> NoRef]
    /\ result = [h \in Handlers |-> Unplayed]
    /\ reply = [h \in Handlers |-> "error"]
    /\ told = [r \in Refs |-> {}]
    /\ lost = {}
    /\ late = [h \in Handlers |-> FALSE]
-----------------------------------------------------------------------------
Served(r) == \E h \in Handlers : serving[h] = r

Goto(h, where) == pc' = [pc EXCEPT ![h] = where]

Answering(h, answer) == Goto(h, "reply") /\ reply' = [reply EXCEPT ![h] = answer]

\* The handlers of H have returned.
Gone(H) ==
    /\ pc' = [h \in Handlers |-> IF h \in H THEN "idle" ELSE pc[h]]
    /\ serving' = [h \in Handlers |-> IF h \in H THEN NoRef ELSE serving[h]]
    /\ result' = [h \in Handlers |-> IF h \in H THEN Unplayed ELSE result[h]]
    /\ reply' = [h \in Handlers |-> IF h \in H THEN "error" ELSE reply[h]]
    /\ late' = [h \in Handlers |-> IF h \in H THEN FALSE ELSE late[h]]

Arrive(h, r) ==
    /\ pc[h] = "idle"
    /\ Goto(h, "claim")
    /\ serving' = [serving EXCEPT ![h] = r]
    /\ late' = [late EXCEPT ![h] = played[r] # Unplayed /\ ~Served(r)]
    /\ UNCHANGED <<played, key, result, reply, told, lost>>

(* SETNX wins the right to play; the loser reads the key in a second call. *)
Claim(h) ==
    /\ pc[h] = "claim"
    /\ LET r == serving[h]
       IN \/ /\ key[r] = NoKey
             /\ key' = [key EXCEPT ![r] = Claimed]
             /\ Goto(h, "spin")
          \/ /\ key[r] # NoKey
             /\ Goto(h, "read")
             /\ UNCHANGED key
    /\ UNCHANGED <<played, serving, result, reply, told, lost, late>>

(* Redis did not answer, whether or not it set the key.                    *)
ClaimFails(h) ==
    /\ pc[h] \in {"claim", "read"}
    /\ Answering(h, "error")
    /\ \/ UNCHANGED key
       \/ /\ pc[h] = "claim" /\ key[serving[h]] = NoKey
          /\ key' = [key EXCEPT ![serving[h]] = Claimed]
    /\ UNCHANGED <<played, serving, result, told, lost, late>>

\* Mutant: the loser of the claim releases it as well.
ReadAndRelease(h) ==
    /\ pc[h] = "read"
    /\ reply' = [reply EXCEPT ![h] = "in_flight"]
    /\ Goto(h, "release")
    /\ UNCHANGED <<played, key, serving, result, told, lost, late>>

(* A stored response is replayed; an empty key, or one released since, is  *)
(* taken for a spin in flight.                                             *)
Read(h) ==
    /\ pc[h] = "read"
    /\ LET found == key[serving[h]]
       IN \/ /\ found \in Outcomes
             /\ result' = [result EXCEPT ![h] = found]
             /\ Answering(h, "outcome")
          \/ found \notin Outcomes /\ Answering(h, "in_flight") /\ UNCHANGED result
    /\ UNCHANGED <<played, key, serving, told, lost, late>>

Refused(h, answer) ==
    /\ Goto(h, "release")
    /\ reply' = [reply EXCEPT ![h] = answer]
    /\ UNCHANGED <<played, result>>

\* Mutant: the unique index does not cover the client_ref.
SpinAgain(h) ==
    /\ pc[h] = "spin"
    /\ \E o \in Outcomes :
          /\ played' = [played EXCEPT ![serving[h]] = o]
          /\ result' = [result EXCEPT ![h] = o]
    /\ Goto(h, "store")
    /\ UNCHANGED <<key, serving, reply, told, lost, late>>

\* Mutant: the limit is found breached once the round is committed.
SpinRefusedTooLate(h) ==
    /\ pc[h] = "spin"
    /\ played[serving[h]] = Unplayed
    /\ \E o \in Outcomes : played' = [played EXCEPT ![serving[h]] = o]
    /\ Goto(h, "release")
    /\ reply' = [reply EXCEPT ![h] = "rejected"]
    /\ UNCHANGED <<key, serving, result, told, lost, late>>

(* Service.Spin.                                                           *)
Spin(h) ==
    /\ pc[h] = "spin"
    /\ LET r == serving[h]
       IN \/ Refused(h, "rejected")            \* limits and funds, met before the INSERT
          \/ Refused(h, "error")               \* rolled back
          \/ played[r] # Unplayed /\ Refused(h, "duplicate")
          \/ /\ played[r] = Unplayed
             /\ \E o \in Outcomes :
                   /\ played' = [played EXCEPT ![r] = o]
                   /\ \/ /\ Goto(h, "store")
                         /\ result' = [result EXCEPT ![h] = o]
                         /\ UNCHANGED reply
                      \/ /\ Goto(h, "release") \* committed, but Commit said otherwise
                         /\ reply' = [reply EXCEPT ![h] = "error"]
                         /\ UNCHANGED result
    /\ UNCHANGED <<key, serving, told, lost, late>>

(* A failure to store is logged and the outcome answered all the same.     *)
Store(h) ==
    /\ pc[h] = "store"
    /\ \/ key' = [key EXCEPT ![serving[h]] = result[h]]
       \/ UNCHANGED key
    /\ Answering(h, "outcome")
    /\ UNCHANGED <<played, serving, result, told, lost, late>>

\* The error of Release is dropped; under a cancelled context it always fails.
Release(h) ==
    /\ pc[h] = "release"
    /\ \/ key' = [key EXCEPT ![serving[h]] = NoKey]
       \/ UNCHANGED key
    /\ Goto(h, "reply")
    /\ UNCHANGED <<played, serving, result, reply, told, lost, late>>

(* The response is written; whether it arrives is the network's business.  *)
Answer(h) ==
    /\ pc[h] = "reply"
    /\ Gone({h})
    /\ IF reply[h] = "outcome"
       THEN told' = [told EXCEPT ![serving[h]] = @ \cup {result[h]}]
       ELSE UNCHANGED told
    /\ UNCHANGED <<played, key, lost>>

(* GET by-ref reads table spins alone; no row is a 404.                    *)
FindByClientRef(r) ==
    /\ played[r] # Unplayed
    /\ told' = [told EXCEPT ![r] = @ \cup {played[r]}]
    /\ UNCHANGED <<played, key, pc, serving, result, reply, lost, late>>
-----------------------------------------------------------------------------
(* The server process dies: what is in Redis and Postgres stays.           *)
Crash ==
    /\ \E h \in Handlers : pc[h] # "idle"
    /\ Gone(Handlers)
    /\ UNCHANGED <<played, key, told, lost>>

(* Redis comes back empty.                                                 *)
RedisRestart ==
    /\ \E r \in Refs : key[r] # NoKey
    /\ lost' = lost \cup {r \in Refs : key[r] # NoKey}
    /\ key' = [r \in Refs |-> NoKey]
    /\ UNCHANGED <<played, pc, serving, result, reply, told, late>>

(* 24 hours on; a request lives ten seconds.                               *)
KeyExpires(r) ==
    /\ key[r] # NoKey
    /\ ~Served(r)
    /\ key' = [key EXCEPT ![r] = NoKey]
    /\ UNCHANGED <<played, pc, serving, result, reply, told, lost, late>>

Work(h) == Claim(h) \/ ClaimFails(h) \/ Read(h) \/ Spin(h) \/ Store(h) \/ Release(h)

Redis == RedisRestart \/ \E r \in Refs : KeyExpires(r)

HandlerNext ==
    \/ \E h \in Handlers : Work(h) \/ Answer(h) \/ \E r \in Refs : Arrive(h, r)
    \/ \E r \in Refs : FindByClientRef(r)
    \/ Crash \/ Redis

HandlerSpec == HandlerInit /\ [][HandlerNext]_handlerVars
-----------------------------------------------------------------------------
(* Properties. *)

(* Once a spin is committed its outcome never changes, and every 200 for   *)
(* its client_ref, replayed, fresh or by-ref, carries that outcome.        *)
Promise == INSTANCE Rounds
RoundsSpec == Promise!RoundsSpec

(* Two handlers play the same client_ref at once only when Redis has lost  *)
(* the claim of one of them.                                               *)
Playing(h) == pc[h] \in {"spin", "store", "release"}

ClaimExclusive ==
    \A g, h \in Handlers :
        g # h /\ Playing(g) /\ Playing(h) /\ serving[g] = serving[h] => serving[g] \in lost

(* What a retry will replay stays there for its 24 hours: no handler that  *)
(* failed, was refused or came second removes the response of another.     *)
StoredStays ==
    [][\A r \in Refs :
          key[r] \in Outcomes /\ key'[r] # key[r] => ~Served(r) \/ r \in lost']_handlerVars

(* game.go:38-40: a retry of a round that is over gets its outcome (or an  *)
(* error it may try again after).  The code does not keep this promise.    *)
RetryReturnsOriginal ==
    \A h \in Handlers : pc[h] = "reply" /\ late[h] => reply[h] \in {"outcome", "error"}
-----------------------------------------------------------------------------
(* The inductive invariant of the promise: what is stored, about to be     *)
(* stored or about to be answered is the outcome in table spins.           *)
HandlerInv ==
    /\ HandlerTypeOK
    /\ \A r \in Refs : key[r] \in Outcomes => played[r] = key[r]
    /\ \A r \in Refs : told[r] \subseteq {played[r]}
    /\ \A h \in Handlers :
          pc[h] = "store" \/ (pc[h] = "reply" /\ reply[h] = "outcome") =>
              result[h] \in Outcomes /\ played[serving[h]] = result[h]
    /\ \A h \in Handlers : pc[h] = "release" => reply[h] # "outcome"
    /\ ClaimExclusive
    /\ \A h \in Handlers : Playing(h) /\ serving[h] \notin lost => key[serving[h]] = Claimed
=============================================================================
