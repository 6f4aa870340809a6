----------------------------- MODULE RateLimit ------------------------------
(***************************************************************************)
(* The fixed-window counter of one action and subject: rds.Client.Allow,   *)
(* and what middleware.RateLimit makes of it.  Time is counted in ticks.   *)
(***************************************************************************)
EXTENDS Integers, FiniteSetsExt

CONSTANTS
    Limit,          \* RL_REGISTER_PER_HOUR
    Window,         \* an hour, in ticks
    MaxHits         \* where the count of hits stops: a bound

ASSUME WindowsAreLong == Window \in Nat \ {0} /\ Limit \in Nat
ASSUME HitsAreCounted == MaxHits \in Nat /\ MaxHits > Limit /\ MaxHits > 1

VARIABLES
    hits, ttl,      \* the key rl:action:subject; 0 and 0 when there is none
    watch,          \* observer: the admissions of some stretch of a window's length
    owed            \* the times left to callers that this window refused

limitVars == <<hits, ttl, watch, owed>>

LimitTypeOK ==
    /\ hits \in 0..MaxHits /\ ttl \in 0..Window
    /\ watch \in [age : 0..(Window - 1), seen : Nat] /\ owed \subseteq 0..Window

Afresh == [age |-> 0, seen |-> 0]

LimitInit == hits = 0 /\ ttl = 0 /\ watch = Afresh /\ owed = {}
-----------------------------------------------------------------------------
\* Mutant: EXPIRE without NX.
HitSliding == hits' = Min({hits + 1, MaxHits}) /\ ttl' = Window

(* MULTI INCR, EXPIRE NX: only the first hit of a window sets its end.     *)
Hit ==
    /\ hits' = Min({hits + 1, MaxHits})
    /\ ttl' = IF ttl = 0 THEN Window ELSE ttl

\* Mutant: one too many.
AdmitsOneMore(n) == n <= Limit + 1

Admits(n) == n = 1 \/ n <= Limit

Admit ==
    /\ Hit /\ Admits(hits')
    /\ watch' = [watch EXCEPT !.seen = @ + 1]
    /\ UNCHANGED owed

Refuse == Hit /\ ~Admits(hits') /\ UNCHANGED <<watch, owed>>

(* Redis is out of reach: the request is let through, and it may still     *)
(* have been counted.                                                      *)
FailOpen ==
    /\ Hit \/ UNCHANGED <<hits, ttl>>
    /\ watch' = Afresh
    /\ UNCHANGED owed

\* Retry-After: the TTL, read in a call of its own.
TellWhen ==
    /\ owed' = IF ttl = 0 THEN owed ELSE owed \cup {ttl}
    /\ UNCHANGED <<hits, ttl, watch>>

(* A tick of time.  The key goes when its TTL is up; the observer goes on, *)
(* or begins another stretch, as it must when a window's length is over.   *)
Tick ==
    /\ ttl' = IF ttl = 0 THEN 0 ELSE ttl - 1
    /\ hits' = IF ttl' = 0 THEN 0 ELSE hits
    /\ owed' = IF ttl' = 0 THEN {} ELSE {w - 1 : w \in owed}
    /\ \/ watch' = Afresh
       \/ watch.age < Window - 1 /\ watch' = [watch EXCEPT !.age = @ + 1]

RedisRestarts == hits' = 0 /\ ttl' = 0 /\ watch' = Afresh /\ owed' = {}
-----------------------------------------------------------------------------
(* However the hits fall, no stretch of one window's length sees more than *)
(* twice the limit, less one, while Redis neither fails nor restarts:      *)
(* rds.go says "up to 2x".                                                 *)
AdmissionsAreBounded == Limit > 0 => watch.seen <= 2 * Limit - 1

(* A caller that waits as long as it was told to finds the window that     *)
(* refused it gone, however often it and others knock meanwhile.           *)
RetryAfterIsEnough == \A w \in owed : ttl <= w
-----------------------------------------------------------------------------
(* The inductive invariant: a window that began before the observer did    *)
(* has an admission it did not see, and only one window can end under it.  *)
SeenInv ==
    /\ ttl > 0 /\ Window - ttl <= watch.age =>
          watch.seen < 2 * Limit /\ watch.seen < Limit + hits
    /\ ttl > 0 /\ watch.age < Window - ttl =>
          watch.seen < Limit /\ watch.seen < hits
    /\ ttl = 0 => watch.seen < Limit

LimitInv ==
    /\ LimitTypeOK /\ RetryAfterIsEnough
    /\ ttl = 0 => hits = 0 /\ owed = {}
    /\ ttl > 0 => hits > 0
    /\ Limit > 0 => SeenInv
=============================================================================
