---------------------------- MODULE SignupProofs ----------------------------
(***************************************************************************)
(* Proofs about RateLimit and Signup, for any limit and window, any number *)
(* of concurrent registrations and any requests.  The limit: at most one   *)
(* window ends while an observer watches for a window's length.  The       *)
(* accounts: what is checked against table users when a row is inserted    *)
(* still holds at the commit, because the unique indexes make whoever      *)
(* inserts the same key wait.                                              *)
(***************************************************************************)
EXTENDS Signup, SequenceTheorems, TLAPS

(* The lesser of two numbers.                                              *)
LEMMA MinOfTwo ==
    ASSUME NEW a \in Int, NEW b \in Int
    PROVE  Min({a, b}) = IF a <= b THEN a ELSE b
<1> DEFINE m == IF a <= b THEN a ELSE b
<1>1. m \in {a, b} /\ \A y \in {a, b} : m <= y
  OBVIOUS
<1>2. \A x \in {a, b} : (\A y \in {a, b} : x <= y) => x = m
  OBVIOUS
<1> QED
  BY <1>1, <1>2 DEF Min

(* INCR counts one more, up to where the count stops; a window that has    *)
(* begun keeps its end.                                                    *)
LEMMA HitCounts ==
    ASSUME LimitInv, Hit
    PROVE  /\ hits' \in 1..MaxHits /\ hits' \in {hits + 1, MaxHits} /\ hits <= hits'
           /\ ttl' = IF ttl = 0 THEN Window ELSE ttl
           /\ ttl' \in 1..Window
           /\ (ttl = 0 => hits' = 1)
           /\ (Admits(hits') /\ Limit > 0 => hits' = hits + 1 /\ hits' <= Limit)
<1>1. hits \in 0..MaxHits /\ ttl \in 0..Window /\ (ttl = 0 => hits = 0)
  BY DEF LimitInv, LimitTypeOK
<1>2. hits' = IF hits + 1 <= MaxHits THEN hits + 1 ELSE MaxHits
  BY <1>1, MinOfTwo, HitsAreCounted DEF Hit
<1>3. ttl' = IF ttl = 0 THEN Window ELSE ttl
  BY DEF Hit
<1> QED
  BY <1>1, <1>2, <1>3, HitsAreCounted, WindowsAreLong DEF Admits

(* An observer that begins has seen nothing that would be too much.        *)
LEMMA BeginsSound ==
    ASSUME watch' = [age |-> 0, seen |-> 0], hits' \in Nat, ttl' \in 0..Window,
           ttl' > 0 => hits' > 0
    PROVE  /\ watch' \in [age : 0..(Window - 1), seen : Nat]
           /\ Limit > 0 => SeenInv'
<1>1. watch'.age = 0 /\ watch'.seen = 0
  OBVIOUS
<1>2. watch' \in [age : 0..(Window - 1), seen : Nat]
  BY WindowsAreLong
<1>3. ASSUME Limit > 0 PROVE SeenInv'
  <2>1. 0 < 2 * Limit /\ 0 < Limit
    BY <1>3, WindowsAreLong
  <2>2. \A n \in Nat : 0 < Limit + n
    BY <2>1, WindowsAreLong
  <2>3. ttl' > 0 => 0 < hits'
    BY WindowsAreLong
  <2> QED
    BY <1>1, <2>1, <2>2, <2>3 DEF SeenInv
<1> QED
  BY <1>2, <1>3

(* A hit, admitted, refused or let through, keeps the invariant.           *)
LEMMA HitsKeepLimit ==
    ASSUME LimitInv, Admit \/ Refuse \/ FailOpen
    PROVE  LimitInv'
<1>1. /\ hits \in 0..MaxHits /\ ttl \in 0..Window
      /\ watch \in [age : 0..(Window - 1), seen : Nat] /\ owed \subseteq 0..Window
      /\ \A w \in owed : ttl <= w
      /\ ttl = 0 => hits = 0 /\ owed = {}
      /\ ttl > 0 => hits > 0
  BY DEF LimitInv, LimitTypeOK, RetryAfterIsEnough
<1>2. owed' = owed
  BY DEF Admit, Refuse, FailOpen
<1>3. CASE Hit
  <2>1. /\ LimitTypeOK' <=> watch' \in [age : 0..(Window - 1), seen : Nat]
        /\ RetryAfterIsEnough'
        /\ ttl' > 0 /\ hits' > 0 /\ hits <= hits' /\ ttl' \in 1..Window /\ hits' \in 1..MaxHits
    BY <1>1, <1>2, <1>3, HitCounts, WindowsAreLong DEF LimitTypeOK, RetryAfterIsEnough
  <2>2. CASE Admit
    <3>1. watch' = [watch EXCEPT !.seen = @ + 1] /\ Admits(hits')
      BY <2>2 DEF Admit
    <3>2. watch' \in [age : 0..(Window - 1), seen : Nat]
          /\ watch'.age = watch.age /\ watch'.seen = watch.seen + 1
      BY <1>1, <3>1
    <3>3. ASSUME Limit > 0
          PROVE  SeenInv'
      <4>1. hits' = hits + 1 /\ hits' <= Limit /\ ttl' = (IF ttl = 0 THEN Window ELSE ttl)
        BY <1>3, <3>1, <3>3, HitCounts
      <4>2. SeenInv
        BY <3>3 DEF LimitInv
      <4>3. watch.age \in 0..(Window - 1) /\ watch.seen \in Nat
        BY <1>1
      <4> QED
        BY <1>1, <3>2, <4>1, <4>2, <4>3, WindowsAreLong DEF SeenInv
    <3> QED
      BY <2>1, <3>2, <3>3 DEF LimitInv
  <2>3. CASE Refuse
    <3>1. watch' = watch /\ ~Admits(hits')
      BY <2>3 DEF Refuse
    <3>2. ttl # 0
      BY <1>3, <3>1, HitCounts DEF Admits
    <3>3. ttl' = ttl
      BY <1>3, <3>2, HitCounts
    <3>4. watch.age \in 0..(Window - 1) /\ watch.seen \in Nat
      BY <1>1
    <3> QED
      BY <1>1, <2>1, <3>1, <3>2, <3>3, <3>4, WindowsAreLong DEF LimitInv, SeenInv
  <2>4. CASE FailOpen
    <3>1. watch' = [age |-> 0, seen |-> 0]
      BY <2>4 DEF FailOpen, Afresh
    <3> QED
      BY <1>1, <2>1, <3>1, BeginsSound DEF LimitInv
  <2> QED
    BY <2>2, <2>3, <2>4
<1>4. CASE FailOpen /\ UNCHANGED <<hits, ttl>>
  <2>1. watch' = [age |-> 0, seen |-> 0]
    BY <1>4 DEF FailOpen, Afresh
  <2> QED
    BY <1>1, <1>2, <1>4, <2>1, BeginsSound DEF LimitInv, LimitTypeOK, RetryAfterIsEnough
<1> QED
  BY <1>3, <1>4 DEF Admit, Refuse, FailOpen

(* Time, the answer to a refused caller and Redis keep the invariant.      *)
LEMMA TimeKeepsLimit ==
    ASSUME LimitInv, TellWhen \/ Tick \/ RedisRestarts \/ UNCHANGED limitVars
    PROVE  LimitInv'
<1>1. /\ hits \in 0..MaxHits /\ ttl \in 0..Window
      /\ watch \in [age : 0..(Window - 1), seen : Nat] /\ owed \subseteq 0..Window
      /\ \A w \in owed : ttl <= w
      /\ ttl = 0 => hits = 0 /\ owed = {}
      /\ ttl > 0 => hits > 0
  BY DEF LimitInv, LimitTypeOK, RetryAfterIsEnough
<1>2. watch.age \in 0..(Window - 1) /\ watch.seen \in Nat
  BY <1>1
<1>3. CASE TellWhen
  BY <1>1, <1>3 DEF TellWhen, LimitInv, SeenInv, LimitTypeOK, RetryAfterIsEnough
<1>4. CASE RedisRestarts
  BY <1>4, WindowsAreLong, HitsAreCounted
  DEF RedisRestarts, Afresh, LimitInv, SeenInv, LimitTypeOK, RetryAfterIsEnough
<1>5. CASE UNCHANGED limitVars
  BY <1>5 DEF limitVars, LimitInv, SeenInv, LimitTypeOK, RetryAfterIsEnough
<1>6. CASE Tick
  <2>1. /\ ttl' = IF ttl = 0 THEN 0 ELSE ttl - 1
        /\ hits' = IF ttl' = 0 THEN 0 ELSE hits
        /\ owed' = IF ttl' = 0 THEN {} ELSE {w - 1 : w \in owed}
        /\ \/ watch' = [age |-> 0, seen |-> 0]
           \/ watch.age < Window - 1 /\ watch' = [watch EXCEPT !.age = @ + 1]
    BY <1>6 DEF Tick, Afresh
  <2>2. hits' \in 0..MaxHits /\ ttl' \in 0..Window /\ (ttl' > 0 => ttl' = ttl - 1)
        /\ (ttl' = 0 => hits' = 0 /\ owed' = {}) /\ (ttl' > 0 => hits' > 0 /\ hits' = hits)
    BY <1>1, <2>1, WindowsAreLong, HitsAreCounted
  <2>3. owed' \subseteq 0..Window /\ \A w \in owed' : ttl' <= w
    <3>1. ASSUME ttl' # 0, NEW w \in owed PROVE w - 1 \in 0..Window /\ ttl' <= w - 1
      BY <1>1, <2>2, <3>1, WindowsAreLong
    <3> QED
      BY <2>1, <3>1
  <2>4. CASE watch' = [age |-> 0, seen |-> 0]
    BY <2>2, <2>3, <2>4, BeginsSound DEF LimitInv, LimitTypeOK, RetryAfterIsEnough
  <2>5. CASE watch.age < Window - 1 /\ watch' = [watch EXCEPT !.age = @ + 1]
    <3>1. /\ watch' \in [age : 0..(Window - 1), seen : Nat]
          /\ watch'.age = watch.age + 1 /\ watch'.seen = watch.seen
      BY <1>1, <2>5, WindowsAreLong
    <3>2. LimitTypeOK' /\ RetryAfterIsEnough'
      BY <2>2, <2>3, <3>1 DEF LimitTypeOK, RetryAfterIsEnough
    <3>3. ASSUME Limit > 0
          PROVE  SeenInv'
      <4>1. SeenInv
        BY <3>3 DEF LimitInv
      <4> QED
        BY <1>1, <1>2, <2>1, <2>2, <2>5, <3>1, <3>3, <4>1, WindowsAreLong DEF SeenInv
    <3> QED
      BY <2>2, <3>2, <3>3 DEF LimitInv
  <2> QED
    BY <2>1, <2>4, <2>5
<1> QED
  BY <1>3, <1>4, <1>5, <1>6

(* The limit is one component of the step, whatever else happens.          *)
LEMMA StepKeepsLimit == LimitInv /\ [Next]_vars => LimitInv'
<1> SUFFICES ASSUME LimitInv, [Next]_vars PROVE LimitInv'
  OBVIOUS
<1>1. ASSUME NEW p \in Procs, Arrive(p) PROVE LimitInv'
  BY <1>1, HitsKeepLimit DEF Arrive
<1>2. ASSUME NEW p \in Procs, Handle(p)
      PROVE  TellWhen \/ UNCHANGED limitVars
  BY <1>2 DEF Handle, TooMany, Resolve, InsertPhone, InsertCode, Commit, Issue, Fails, Respond,
     Says, Advance, Again
<1>3. CASE SetActive \/ UNCHANGED vars
  BY <1>3, TimeKeepsLimit DEF SetActive, vars
<1> QED
  BY <1>1, <1>2, <1>3, TimeKeepsLimit DEF Next

(* The counter and what callers were told of it agree in every state.      *)
THEOREM LimitIsSound == Spec => []LimitInv
<1>1. Init => LimitInv
  BY WindowsAreLong, HitsAreCounted
  DEF Init, LimitInit, Afresh, LimitInv, SeenInv, LimitTypeOK, RetryAfterIsEnough
<1> QED
  BY <1>1, StepKeepsLimit, PTL DEF Spec

(* No stretch of one window's length sees twice the limit.                 *)
THEOREM AdmissionsStayBounded == Spec => []AdmissionsAreBounded
<1>1. LimitInv => AdmissionsAreBounded
  BY WindowsAreLong DEF LimitInv, SeenInv, LimitTypeOK, AdmissionsAreBounded
<1> QED
  BY <1>1, LimitIsSound, PTL

(* Whoever waits as long as Retry-After said is refused by a new window    *)
(* only.                                                                   *)
THEOREM WaitingIsEnough == Spec => []RetryAfterIsEnough
<1>1. LimitInv => RetryAfterIsEnough
  BY DEF LimitInv
<1> QED
  BY <1>1, LimitIsSound, PTL
-----------------------------------------------------------------------------
(* Phone numbers. *)

(* What stands behind the country code is the national number.             *)
LEMMA NationalOfNumber ==
    ASSUME NEW s \in Seq(Digits), Len(s) > 0
    PROVE  /\ CountryCode \o s \in Seq(Digits) /\ CountryCode \o s # Invalid
           /\ National(CountryCode \o s) = s
<1> DEFINE phone == CountryCode \o s
<1>1. CountryCode \in Seq(Digits) /\ Len(CountryCode) = 3
  BY DEF CountryCode, Digits
<1>2. /\ phone \in Seq(Digits) /\ Len(phone) = 3 + Len(s) /\ Len(s) \in Nat
      /\ \A i \in 1..(3 + Len(s)) : phone[i] = IF i <= 3 THEN CountryCode[i] ELSE s[i - 3]
  <2>1. /\ phone \in Seq(Digits) /\ Len(phone) = Len(CountryCode) + Len(s)
        /\ \A i \in 1..(Len(CountryCode) + Len(s)) :
              phone[i] = IF i <= Len(CountryCode) THEN CountryCode[i]
                         ELSE s[i - Len(CountryCode)]
    BY <1>1, ConcatProperties, Zenon
  <2>2. Len(s) \in Nat
    BY LenProperties, Zenon
  <2> HIDE DEF phone
  <2> QED
    BY <1>1, <2>1, <2>2, Zenon
<1> HIDE DEF phone
<1>3. /\ National(phone) \in Seq(Digits) /\ Len(National(phone)) = Len(s)
      /\ \A i \in 1..Len(s) : National(phone)[i] = phone[i + 3]
  BY <1>2, SubSeqProperties DEF National
<1>4. National(phone) = s
  <2>1. ASSUME NEW i \in 1..Len(s) PROVE National(phone)[i] = s[i]
    BY <1>2, <1>3
  <2> QED
    BY <1>3, <2>1, SeqEqual, Zenon
<1> QED
  BY <1>2, <1>4 DEF phone, Invalid

(* Whatever spelling is accepted is taken for the line it names, behind    *)
(* the country code.                                                       *)
LEMMA NormaliseIsCanonical ==
    ASSUME NEW d \in Seq(Digits), Normalise(d) # Invalid
    PROVE  /\ LineOf(d) \in Seq(Digits) /\ Len(LineOf(d)) = NationalLen
           /\ Normalise(d) = CountryCode \o LineOf(d)
<1>1. NationalLen \in Nat /\ NationalLen > 1 /\ Len(d) \in Nat
  BY NumbersAreLong
<1>2. \A s : Mobile(s) # Invalid => Mobile(s) = CountryCode \o s
  BY DEF Mobile
<1>3. ASSUME NEW k \in {1, 2, 4}, Len(d) = NationalLen + k - 1
      PROVE  /\ LineOf(d) = SubSeq(d, k, Len(d)) /\ LineOf(d) \in Seq(Digits)
             /\ Len(LineOf(d)) = NationalLen
  <2>1. Len(d) - NationalLen + 1 = k
    BY <1>1, <1>3
  <2>2. /\ SubSeq(d, k, Len(d)) \in Seq(Digits)
        /\ Len(SubSeq(d, k, Len(d))) = IF k <= Len(d) THEN Len(d) - k + 1 ELSE 0
    BY <1>1, <1>3, SubSeqProperties
  <2> QED
    BY <1>1, <1>3, <2>1, <2>2 DEF LineOf
<1>4. \/ Len(d) = NationalLen + 3 /\ Normalise(d) = Mobile(SubSeq(d, 4, Len(d)))
      \/ Len(d) = NationalLen + 1 /\ Normalise(d) = Mobile(SubSeq(d, 2, Len(d)))
      \/ Len(d) = NationalLen /\ Normalise(d) = Mobile(d)
  BY DEF Normalise
<1>5. SubSeq(d, 1, Len(d)) = d
  BY SubSeqFull
<1>6. ASSUME NEW k \in {1, 2, 4}, Len(d) = NationalLen + k - 1,
             Normalise(d) = Mobile(SubSeq(d, k, Len(d)))
      PROVE  /\ LineOf(d) \in Seq(Digits) /\ Len(LineOf(d)) = NationalLen
             /\ Normalise(d) = CountryCode \o LineOf(d)
  BY <1>2, <1>3, <1>6, Zenon
<1>7. /\ Len(d) = NationalLen + 3 => Len(d) = NationalLen + 4 - 1
      /\ Len(d) = NationalLen + 1 => Len(d) = NationalLen + 2 - 1
      /\ Len(d) = NationalLen => Len(d) = NationalLen + 1 - 1
  BY <1>1
<1> QED
  BY <1>4, <1>5, <1>6, <1>7, Zenon

(* The phone of a valid request, and the line it names.                    *)
LEMMA PhoneOfRequest ==
    ASSUME NEW p \in Procs, asked[p] \in Requests, Valid(asked[p])
    PROVE  /\ Phone(p) \in Seq(Digits)
           /\ Phone(p) = CountryCode \o LineOf(asked[p].raw)
           /\ National(Phone(p)) = LineOf(asked[p].raw)
<1>1. asked[p].raw \in Seq(Digits) /\ Normalise(asked[p].raw) # Invalid
  BY RequestsAreRecords DEF Valid
<1> DEFINE line == LineOf(asked[p].raw)
<1>2. /\ line \in Seq(Digits) /\ Len(line) = NationalLen
      /\ Normalise(asked[p].raw) = CountryCode \o line
  BY <1>1, NormaliseIsCanonical, Zenon
<1> HIDE DEF line
<1>3. Len(line) > 0
  BY <1>2, NumbersAreLong
<1>4. /\ CountryCode \o line \in Seq(Digits)
      /\ National(CountryCode \o line) = line
  BY <1>2, <1>3, NationalOfNumber, Zenon
<1> QED
  BY <1>2, <1>4, Zenon DEF Phone, line
-----------------------------------------------------------------------------
(* Registrations. *)

\* A step of p: the variables of the others stay, and all keep their types.
StepOf(p) ==
    /\ LimitTypeOK'
    /\ pc' \in [Procs -> PCs] /\ asked' \in [Procs -> Requests \cup {NoRequest}]
    /\ pc'[p] \in {"idle", "refused"} <=> asked'[p] = NoRequest
    /\ code' \in [Procs -> Codes \cup {NoCode}]
    /\ attempt' \in [Procs -> 0..MaxAttempts] /\ verdict' \in [Procs -> Verdicts]
    /\ \A q \in Procs \ {p} :
          /\ pc'[q] = pc[q] /\ asked'[q] = asked[q]
          /\ code'[q] = code[q] /\ verdict'[q] = verdict[q]

(* A step of p that writes no table keeps the invariant, if what it claims *)
(* of its own request is so.                                               *)
LEMMA RequestKeeps ==
    ASSUME AccountInv, NEW p \in Procs, StepOf(p), UNCHANGED dbVars, RequestInv(p)',
           HasPhone(p)' => \/ HasPhone(p) /\ asked'[p] = asked[p]
                           \/ /\ asked'[p] = asked[p] /\ ~PhoneHeld(p)
                              /\ \A u \in users : u.phone # Phone(p),
           pc'[p] = "post" => code'[p] = code[p] /\ ~CodeHeld(p) /\ ~CodeTaken(p)
    PROVE  AccountInv'
<1>1. TypeOK'
  <2>1. \A q \in Procs : pc'[q] \in {"idle", "refused"} <=> asked'[q] = NoRequest
    BY DEF AccountInv, TypeOK, StepOf
  <2> QED
    BY <2>1 DEF AccountInv, TypeOK, StepOf, dbVars
<1>2. PhonesInv'
  <2>1. \A q \in Procs \ {p} : Phone(q)' = Phone(q) /\ (HasPhone(q)' <=> HasPhone(q))
    BY DEF StepOf, Phone, HasPhone
  <2>2. HasPhone(p)' => Phone(p)' = Phone(p)
    BY DEF Phone
  <2>3. HasPhone(p)' => /\ \A u \in users : u.phone # Phone(p)
                        /\ \A q \in Procs \ {p} : HasPhone(q) => Phone(q) # Phone(p)
    BY DEF AccountInv, PhonesInv, PhoneHeld, HasPhone
  <2>4. UNCHANGED <<users, granted>>
    BY DEF dbVars
  <2> QED
    BY <2>1, <2>2, <2>3, <2>4 DEF AccountInv, PhonesInv
<1>3. CodesInv'
  <2>1. UNCHANGED users
    BY DEF dbVars
  <2> QED
    BY <2>1 DEF AccountInv, CodesInv, StepOf, CodeHeld, CodeTaken
<1>4. \A q \in Procs \ {p} : RequestInv(q)'
  BY DEF AccountInv, RequestInv, StepOf, dbVars, Valid
<1> QED
  BY <1>1, <1>2, <1>3, <1>4 DEF AccountInv

(* A request is let in or turned away.                                     *)
LEMMA ArrivalKeeps ==
    ASSUME AccountInv, LimitInv', NEW p \in Procs, Arrive(p)
    PROVE  AccountInv'
<1>1. pc[p] = "idle" /\ UNCHANGED <<dbVars, code>>
  BY DEF Arrive, Enter
<1>2. /\ asked[p] = NoRequest /\ verdict[p] = "none" /\ LimitTypeOK'
      /\ pc \in [Procs -> PCs] /\ asked \in [Procs -> Requests \cup {NoRequest}]
      /\ code \in [Procs -> Codes \cup {NoCode}]
      /\ attempt \in [Procs -> 0..MaxAttempts] /\ verdict \in [Procs -> Verdicts]
  BY <1>1 DEF AccountInv, TypeOK, RequestInv, LimitInv
<1>3. CASE Refuse /\ Goto(p, "refused") /\ UNCHANGED <<dbVars, asked, code, attempt, verdict>>
  <2>1. StepOf(p) /\ RequestInv(p)' /\ ~HasPhone(p)' /\ pc'[p] # "post"
    BY <1>2, <1>3 DEF Goto, StepOf, RequestInv, HasPhone, PCs, InTransaction
  <2> QED
    BY <1>1, <2>1, RequestKeeps
<1>4. ASSUME NEW r \in Requests, Enter(p, r)
      PROVE  AccountInv'
  <2>1. /\ asked' = [asked EXCEPT ![p] = r] /\ attempt' = [attempt EXCEPT ![p] = 1]
        /\ \/ Valid(r) /\ pc' = [pc EXCEPT ![p] = "create"] /\ verdict' = verdict
           \/ /\ pc' = [pc EXCEPT ![p] = "answer"]
              /\ verdict' = [verdict EXCEPT ![p] = "invalid"]
    BY <1>4 DEF Enter, Goto
  <2>2. StepOf(p) /\ ~HasPhone(p)' /\ pc'[p] # "post"
    <3>1. /\ pc' \in [Procs -> PCs] /\ verdict' \in [Procs -> Verdicts]
          /\ pc'[p] \in {"create", "answer"}
      BY <1>2, <2>1 DEF PCs, Verdicts
    <3>2. /\ asked' \in [Procs -> Requests \cup {NoRequest}] /\ asked'[p] # NoRequest
          /\ attempt' \in [Procs -> 0..MaxAttempts]
      BY <1>2, <2>1, GrantIsMoney, RequestsAreRecords
    <3>3. \A q \in Procs \ {p} :
            pc'[q] = pc[q] /\ asked'[q] = asked[q] /\ code'[q] = code[q] /\ verdict'[q] = verdict[q]
      BY <1>1, <1>2, <2>1
    <3> QED
      BY <1>1, <1>2, <3>1, <3>2, <3>3 DEF StepOf, HasPhone
  <2>3. RequestInv(p)'
    <3>1. asked'[p] = r
      BY <1>2, <2>1
    <3>2. pc'[p] = "create" => Valid(asked[p])'
      BY <1>2, <2>1, <3>1 DEF Valid
    <3> QED
      BY <1>2, <2>1, <3>2 DEF RequestInv, InTransaction
  <2> QED
    BY <1>1, <2>2, <2>3, RequestKeeps
<1> QED
  BY <1>3, <1>4 DEF Arrive

(* A step that ends with an answer.                                        *)
LEMMA SayingKeeps ==
    ASSUME AccountInv, NEW p \in Procs, NEW v \in Verdicts \ {"none"}, Says(p, v),
           pc[p] \notin {"idle", "refused"}
    PROVE  AccountInv'
<1>1. StepOf(p) /\ ~HasPhone(p)' /\ pc'[p] # "post" /\ UNCHANGED dbVars
  BY DEF Says, Goto, StepOf, HasPhone, AccountInv, TypeOK, PCs, limitVars, LimitTypeOK
<1>2. RequestInv(p)'
  BY DEF Says, Goto, RequestInv, AccountInv, TypeOK, InTransaction
<1> QED
  BY <1>1, <1>2, RequestKeeps

(* A step within a transaction, or one that leaves or begins another.      *)
LEMMA TransactionKeeps ==
    ASSUME AccountInv, NEW p \in Procs, Resolve(p) \/ InsertPhone(p) \/ InsertCode(p)
    PROVE  AccountInv'
<1>1. /\ pc[p] \in {"create", "phone", "code"} /\ pc[p] \notin {"idle", "refused"}
      /\ asked[p] # NoRequest /\ Valid(asked[p]) /\ verdict[p] = "none"
      /\ pc \in [Procs -> PCs] /\ asked \in [Procs -> Requests \cup {NoRequest}]
      /\ code \in [Procs -> Codes \cup {NoCode}]
      /\ attempt \in [Procs -> 0..MaxAttempts] /\ verdict \in [Procs -> Verdicts]
      /\ LimitTypeOK
  BY DEF Resolve, InsertPhone, InsertCode, AccountInv, TypeOK, RequestInv, InTransaction
<1>2. CASE \E v \in Verdicts \ {"none"} : Says(p, v)
  BY <1>1, <1>2, SayingKeeps
<1>3. CASE /\ pc[p] = "create" /\ Advance(p, "phone")
           /\ \E c \in Codes : code' = [code EXCEPT ![p] = c]
           /\ asked[p].ref = NoCode \/ asked[p].ref \in active
  <2>1. StepOf(p) /\ ~HasPhone(p)' /\ pc'[p] # "post" /\ UNCHANGED dbVars
    BY <1>1, <1>3 DEF Advance, Goto, StepOf, HasPhone, PCs, InTransaction, limitVars,
       LimitTypeOK, Valid
  <2>2. RequestInv(p)'
    <3>1. asked[p].ref # NoCode => \E u \in users : u.code = asked[p].ref
      BY <1>3 DEF AccountInv, TypeOK
    <3>2. /\ pc'[p] = "phone" /\ asked' = asked /\ verdict' = verdict /\ users' = users
          /\ code'[p] \in Codes
      BY <1>1, <1>3 DEF Advance, Goto, dbVars
    <3> QED
      BY <1>1, <3>1, <3>2 DEF RequestInv, InTransaction, Valid
  <2> QED
    BY <2>1, <2>2, RequestKeeps
<1>4. CASE \E where \in {"code", "post"} :
              /\ Advance(p, where) /\ UNCHANGED code
              /\ where = "code" => /\ pc[p] = "phone" /\ ~PhoneHeld(p)
                                  /\ \A u \in users : u.phone # Phone(p)
              /\ where = "post" => pc[p] = "code" /\ ~CodeHeld(p) /\ ~CodeTaken(p)
  <2>1. PICK where \in {"code", "post"} :
              /\ Advance(p, where) /\ UNCHANGED code
              /\ where = "code" => /\ pc[p] = "phone" /\ ~PhoneHeld(p)
                                  /\ \A u \in users : u.phone # Phone(p)
              /\ where = "post" => pc[p] = "code" /\ ~CodeHeld(p) /\ ~CodeTaken(p)
    BY <1>4
  <2>2. StepOf(p) /\ UNCHANGED dbVars /\ pc'[p] = where /\ asked'[p] = asked[p]
    BY <1>1, <2>1 DEF Advance, Goto, StepOf, PCs, InTransaction, limitVars, LimitTypeOK
  <2>3. RequestInv(p)'
    <3>1. pc[p] \in InTransaction
      BY <2>1 DEF InTransaction
    <3>2. code[p] \in Codes /\ (asked[p].ref # NoCode => \E u \in users : u.code = asked[p].ref)
      BY <3>1 DEF AccountInv, RequestInv
    <3>3. asked' = asked /\ verdict' = verdict /\ users' = users /\ code' = code
      BY <2>1 DEF Advance, dbVars
    <3> QED
      BY <1>1, <2>2, <3>2, <3>3 DEF RequestInv, InTransaction, Valid
  <2>4. HasPhone(p)' => \/ HasPhone(p) /\ asked'[p] = asked[p]
                        \/ /\ asked'[p] = asked[p] /\ ~PhoneHeld(p)
                           /\ \A u \in users : u.phone # Phone(p)
    BY <2>1, <2>2 DEF HasPhone
  <2>5. pc'[p] = "post" => code'[p] = code[p] /\ ~CodeHeld(p) /\ ~CodeTaken(p)
    BY <2>1, <2>2
  <2> QED
    BY <2>2, <2>3, <2>4, <2>5, RequestKeeps
<1>5. CASE Again(p)
  <2>1. StepOf(p) /\ ~HasPhone(p)' /\ pc'[p] # "post" /\ UNCHANGED dbVars
    <3>1. attempt' \in [Procs -> 0..MaxAttempts]
      BY <1>1, <1>5, GrantIsMoney DEF Again
    <3> QED
      BY <1>1, <1>5, <3>1 DEF Again, Goto, StepOf, HasPhone, PCs, InTransaction, limitVars,
         LimitTypeOK
  <2>2. RequestInv(p)'
    BY <1>1, <1>5 DEF Again, Goto, RequestInv, InTransaction, Valid
  <2> QED
    BY <2>1, <2>2, RequestKeeps
<1>6. /\ {"unknown_referral_code", "phone_taken", "error"} \subseteq Verdicts \ {"none"}
  BY DEF Verdicts
<1>7. Resolve(p) => \/ \E v \in Verdicts \ {"none"} : Says(p, v)
                    \/ /\ pc[p] = "create" /\ Advance(p, "phone")
                       /\ \E c \in Codes : code' = [code EXCEPT ![p] = c]
                       /\ asked[p].ref = NoCode \/ asked[p].ref \in active
  BY <1>6 DEF Resolve
<1> QED
  BY <1>2, <1>3, <1>4, <1>5, <1>6, <1>7 DEF InsertPhone, InsertCode

(* The commit adds one user, whose phone and code are nobody else's.       *)
LEMMA CommitKeeps ==
    ASSUME AccountInv, NEW p \in Procs, Commit(p)
    PROVE  AccountInv'
<1> DEFINE u == User(p)
<1>1. /\ pc[p] = "post" /\ users' = users \cup {u}
      /\ active' = active \cup {code[p]} /\ granted' = granted \cup {Phone(p)}
      /\ verdict' = [verdict EXCEPT ![p] = "created"] /\ pc' = [pc EXCEPT ![p] = "issue"]
      /\ UNCHANGED <<limitVars, asked, code, attempt>>
  BY DEF Commit, Goto
<1>2. /\ asked[p] \in Requests /\ Valid(asked[p]) /\ code[p] \in Codes
      /\ asked[p].ref \in Codes \cup {NoCode}
  <2>1. RequestInv(p) /\ pc[p] \in InTransaction /\ pc[p] \notin {"idle", "refused"}
    BY <1>1 DEF AccountInv, InTransaction
  <2>2. asked[p] \in Requests
    BY <2>1 DEF AccountInv, TypeOK
  <2> QED
    BY <2>1, <2>2, RequestsAreRecords DEF RequestInv
<1>3. /\ u.phone = Phone(p) /\ u.code = code[p] /\ u \in Users
      /\ u.phone = CountryCode \o National(u.phone)
  BY <1>2, PhoneOfRequest DEF User, Users
<1> HIDE DEF u
<1>4. \A q \in Procs \ {p} : /\ pc'[q] = pc[q] /\ verdict'[q] = verdict[q]
                              /\ Phone(q)' = Phone(q) /\ Phone(q)' = Phone(q)
  BY <1>1 DEF AccountInv, TypeOK, Phone
<1>5. TypeOK'
  <2>1. users' \subseteq Users /\ Seed \subseteq users'
    BY <1>1, <1>3 DEF AccountInv, TypeOK
  <2>2. /\ granted' \subseteq {v.phone : v \in users'} /\ active' \subseteq {v.code : v \in users'}
    BY <1>1, <1>3 DEF AccountInv, TypeOK
  <2>3. pc' \in [Procs -> PCs] /\ verdict' \in [Procs -> Verdicts]
    BY <1>1 DEF AccountInv, TypeOK, PCs, Verdicts
  <2>4. \A q \in Procs : pc'[q] \in {"idle", "refused"} <=> asked'[q] = NoRequest
    BY <1>1 DEF AccountInv, TypeOK
  <2>5. LimitTypeOK'
    BY <1>1 DEF AccountInv, TypeOK, LimitTypeOK, limitVars
  <2> QED
    BY <1>1, <2>1, <2>2, <2>3, <2>4, <2>5 DEF AccountInv, TypeOK
<1>6. PhonesInv'
  <2>1. \A v \in users' : v.phone = CountryCode \o National(v.phone)
    BY <1>1, <1>3 DEF AccountInv, PhonesInv
  <2>2. granted' = {v.phone : v \in users'}
    BY <1>1, <1>3 DEF AccountInv, PhonesInv
  <2>3. ~HasPhone(p)' /\ HasPhone(p) /\ \A q \in Procs \ {p} : HasPhone(q)' <=> HasPhone(q)
    BY <1>1, <1>4 DEF HasPhone, AccountInv, TypeOK
  <2>4. ASSUME NEW q \in Procs, HasPhone(q)'
        PROVE  /\ \A v \in users' : v.phone # Phone(q)'
               /\ \A r \in Procs \ {q} : HasPhone(r)' => Phone(r)' # Phone(q)'
    <3>1. q # p /\ HasPhone(q) /\ Phone(q)' = Phone(q)
      BY <1>4, <2>3, <2>4
    <3>2. Phone(q) # Phone(p)
      BY <2>3, <3>1 DEF AccountInv, PhonesInv
    <3> QED
      BY <1>1, <1>3, <1>4, <2>3, <3>1, <3>2 DEF AccountInv, PhonesInv
  <2> QED
    BY <2>1, <2>2, <2>4 DEF PhonesInv
<1>7. CodesInv'
  BY <1>1, <1>3, <1>4 DEF AccountInv, TypeOK, CodesInv
<1>8. ASSUME NEW q \in Procs PROVE RequestInv(q)'
  <2>1. CASE q = p
    BY <1>1, <2>1 DEF RequestInv, InTransaction, AccountInv, TypeOK
  <2>2. CASE q # p
    BY <1>1, <1>4, <2>2 DEF RequestInv, AccountInv, Valid
  <2> QED
    BY <2>1, <2>2
<1> QED
  BY <1>5, <1>6, <1>7, <1>8 DEF AccountInv

(* The rest of the handler, and what happens around it.                    *)
LEMMA OthersKeep ==
    ASSUME AccountInv, LimitInv',
           \/ \E p \in Procs : TooMany(p) \/ Issue(p) \/ Fails(p) \/ Respond(p)
           \/ (Tick \/ RedisRestarts) /\ UNCHANGED <<dbVars, procVars>>
           \/ SetActive \/ UNCHANGED vars
    PROVE  AccountInv'
<1>1. ASSUME NEW p \in Procs, Issue(p) \/ Fails(p)
      PROVE  AccountInv'
  <2>1. pc[p] \notin {"idle", "refused"} /\ \E v \in Verdicts \ {"none"} : Says(p, v)
    BY <1>1 DEF Issue, Fails, InTransaction, Verdicts
  <2> QED
    BY <2>1, SayingKeeps
<1>2. ASSUME NEW p \in Procs, TooMany(p) \/ Respond(p)
      PROVE  AccountInv'
  <2>1. StepOf(p) /\ UNCHANGED dbVars /\ pc'[p] = "idle"
    <3>1. CASE TooMany(p)
      BY <3>1 DEF TooMany, Goto, StepOf, AccountInv, TypeOK, PCs, LimitInv
    <3>2. CASE Respond(p)
      <4>1. /\ pc' = [pc EXCEPT ![p] = "idle"] /\ asked' = [asked EXCEPT ![p] = NoRequest]
            /\ verdict' = [verdict EXCEPT ![p] = "none"]
            /\ code' = [code EXCEPT ![p] = NoCode] /\ attempt' = [attempt EXCEPT ![p] = 0]
            /\ UNCHANGED <<limitVars, dbVars>>
        BY <3>2 DEF Respond, Goto
      <4>2. /\ attempt' \in [Procs -> 0..MaxAttempts]
            /\ code' \in [Procs -> Codes \cup {NoCode}]
        BY <4>1, GrantIsMoney DEF AccountInv, TypeOK
      <4>3. pc' \in [Procs -> PCs] /\ verdict' \in [Procs -> Verdicts]
        BY <4>1 DEF AccountInv, TypeOK, PCs, Verdicts
      <4> QED
        BY <4>1, <4>2, <4>3 DEF StepOf, AccountInv, TypeOK, LimitInv
    <3> QED
      BY <1>2, <3>1, <3>2
  <2>2. verdict'[p] = "none"
    BY <1>2 DEF TooMany, Respond, AccountInv, TypeOK, RequestInv
  <2>3. RequestInv(p)' /\ ~HasPhone(p)' /\ pc'[p] # "post"
    BY <2>1, <2>2 DEF RequestInv, HasPhone, InTransaction
  <2> QED
    BY <2>1, <2>3, RequestKeeps
<1>3. CASE UNCHANGED <<users, granted, procVars>> /\ active' \subseteq {u.code : u \in users}
  <2>1. TypeOK'
    BY <1>3 DEF AccountInv, TypeOK, procVars, LimitInv
  <2>2. PhonesInv' /\ CodesInv' /\ \A p \in Procs : RequestInv(p)'
    BY <1>3 DEF AccountInv, PhonesInv, CodesInv, RequestInv, HasPhone, Phone, Valid, procVars
  <2> QED
    BY <2>1, <2>2 DEF AccountInv
<1>4. CASE \/ (Tick \/ RedisRestarts) /\ UNCHANGED <<dbVars, procVars>>
           \/ UNCHANGED vars
  <2>1. UNCHANGED <<users, granted, active, procVars>>
    BY <1>4 DEF vars, dbVars
  <2> QED
    BY <1>3, <2>1 DEF AccountInv, TypeOK
<1>5. CASE SetActive
  BY <1>3, <1>5 DEF SetActive, AccountInv, TypeOK
<1> QED
  BY <1>1, <1>2, <1>4, <1>5

(* AccountInv holds in every reachable state.                              *)
THEOREM AccountsAreSound == Spec => []AccountInv
<1>1. Init => AccountInv
  <2> SUFFICES ASSUME Init PROVE AccountInv
    OBVIOUS
  <2>1. /\ users = Seed /\ granted = {u.phone : u \in Seed} /\ active = {u.code : u \in Seed}
        /\ pc = [p \in Procs |-> "idle"] /\ asked = [p \in Procs |-> NoRequest]
        /\ code = [p \in Procs |-> NoCode] /\ attempt = [p \in Procs |-> 0]
        /\ verdict = [p \in Procs |-> "none"] /\ LimitInit
    BY DEF Init
  <2>2. LimitTypeOK
    BY <2>1, WindowsAreLong, HitsAreCounted DEF LimitInit, LimitTypeOK, Afresh
  <2>3. TypeOK
    BY <2>1, <2>2, SeedIsRegistered, GrantIsMoney DEF TypeOK, PCs, Verdicts
  <2>4. PhonesInv /\ CodesInv /\ \A p \in Procs : RequestInv(p)
    BY <2>1, SeedIsRegistered DEF PhonesInv, HasPhone, CodesInv, RequestInv, InTransaction
  <2> QED
    BY <2>3, <2>4 DEF AccountInv
<1>2. AccountInv /\ LimitInv' /\ [Next]_vars => AccountInv'
  BY ArrivalKeeps, TransactionKeeps, CommitKeeps, OthersKeep DEF Next, Handle
<1> QED
  BY <1>1, <1>2, LimitIsSound, PTL DEF Spec

(* Every variable keeps its type, the counter of the limit included.       *)
THEOREM TypeCorrect == Spec => []TypeOK
<1>1. AccountInv => TypeOK
  BY DEF AccountInv
<1> QED
  BY <1>1, AccountsAreSound, PTL
-----------------------------------------------------------------------------
(* Registration implements Accounts. *)

(* With every bonus granted, an account is what is known of a user.        *)
AccountOf(u) ==
    [line |-> National(u.phone), code |-> u.code, referrer |-> u.referrer, by |-> u.by,
     grant |-> DemoGrant]

LEMMA OpenedIsUsers ==
    ASSUME PhonesInv
    PROVE  Opened = {AccountOf(u) : u \in users}
<1>1. \A u \in users : u.phone \in granted
  BY DEF PhonesInv
<1> QED
  BY <1>1 DEF Opened, AccountOf

(* Nobody has the line of a phone that is not taken, and somebody has that *)
(* of one that is.                                                         *)
LEMMA LinesAndPhones ==
    ASSUME AccountInv, NEW p \in Procs, asked[p] \in Requests, Valid(asked[p])
    PROVE  (\E u \in users : u.phone = Phone(p)) <=>
           (\E a \in Opened : a.line = LineOf(asked[p].raw))
<1>1. /\ Phone(p) = CountryCode \o LineOf(asked[p].raw)
      /\ National(Phone(p)) = LineOf(asked[p].raw)
  BY PhoneOfRequest
<1>2. Opened = {AccountOf(u) : u \in users}
  BY OpenedIsUsers DEF AccountInv
<1>3. \A u \in users : AccountOf(u).line = National(u.phone)
  BY DEF AccountOf
<1>4. \A u \in users : u.phone = CountryCode \o National(u.phone)
  BY DEF AccountInv, PhonesInv
<1> HIDE DEF AccountOf
<1> QED
  BY <1>1, <1>2, <1>3, <1>4

(* Codes of accounts and of users are the same.                            *)
LEMMA CodesOfAccounts ==
    ASSUME PhonesInv
    PROVE  {a.code : a \in Opened} = {u.code : u \in users}
<1>1. \A u \in users : AccountOf(u).code = u.code
  BY DEF AccountOf
<1> QED
  BY <1>1, OpenedIsUsers

(* The commit is the creation of an account, whole.                        *)
LEMMA CommitCreates ==
    ASSUME AccountInv, AccountInv', NEW p \in Procs, Commit(p)
    PROVE  Promise!Create(p)
<1> DEFINE u == User(p)
           r == asked[p]
<1>1. /\ pc[p] = "post" /\ users' = users \cup {u}
      /\ active' = active \cup {code[p]}
      /\ verdict' = [verdict EXCEPT ![p] = "created"] /\ UNCHANGED asked
  BY DEF Commit
<1>2. RequestInv(p) /\ pc[p] \in InTransaction /\ pc[p] \notin {"idle", "refused"}
  BY <1>1 DEF AccountInv, InTransaction
<1>3. r \in Requests /\ r # NoRequest /\ Valid(r) /\ verdict[p] = "none" /\ code[p] \in Codes
      /\ (r.ref # NoCode => \E v \in users : v.code = r.ref)
  <2>1. r \in Requests /\ r # NoRequest
    BY <1>2 DEF AccountInv, TypeOK
  <2> QED
    BY <1>1, <1>2, <2>1 DEF RequestInv
<1>4. Promise!Decide(p, "created")
  BY <1>1, <1>3 DEF Promise!Decide
<1>5. \A a \in Opened : a.line # LineOf(r.raw)
  <2>1. ~ \E v \in users : v.phone = Phone(p)
    BY <1>1 DEF AccountInv, PhonesInv, HasPhone
  <2> QED
    BY <1>3, <2>1, LinesAndPhones
<1>6. r.ref # NoCode => \E a \in Opened : a.code = r.ref
  BY <1>3, CodesOfAccounts DEF AccountInv
<1>7. \A a \in Opened : a.code # code[p]
  BY <1>1, CodesOfAccounts DEF AccountInv, CodesInv
<1>8. Opened' = Opened \cup {Promise!Account(r, code[p])}
  <2>1. Opened = {AccountOf(v) : v \in users} /\ Opened' = {AccountOf(v) : v \in users'}
    <3>1. Opened = {AccountOf(v) : v \in users}
      BY OpenedIsUsers DEF AccountInv
    <3>2. \A v \in users' : v.phone \in granted'
      BY DEF AccountInv, PhonesInv
    <3> QED
      BY <3>1, <3>2 DEF Opened, AccountOf
  <2>2. AccountOf(u) = Promise!Account(r, code[p])
    <3>1. National(Phone(p)) = LineOf(r.raw)
      BY <1>3, PhoneOfRequest
    <3>2. [q \in Requests |-> LineOf(q.raw)][r] = LineOf(r.raw)
      BY <1>3
    <3> QED
      BY <3>1, <3>2 DEF AccountOf, User, Promise!Account
  <2> HIDE DEF u
  <2> QED
    BY <1>1, <2>1, <2>2
<1>9. [q \in Requests |-> LineOf(q.raw)][r] = LineOf(r.raw)
  BY <1>3
<1> QED
  BY <1>1, <1>3, <1>4, <1>5, <1>6, <1>7, <1>8, <1>9 DEF Promise!Create

(* Every step of a registration is one of Accounts, or changes nothing     *)
(* that anybody is promised.                                               *)
LEMMA StepKeepsAccounts ==
    AccountInv /\ AccountInv' /\ [Next]_vars =>
        [Promise!Next]_<<Opened, active, asked, verdict>>
<1> SUFFICES ASSUME AccountInv, AccountInv', [Next]_vars
             PROVE  Promise!Next \/ UNCHANGED <<Opened, active, asked, verdict>>
  OBVIOUS
<1>1. UNCHANGED dbVars => UNCHANGED <<Opened, active>>
  BY DEF dbVars, Opened
<1>2. \A p \in Procs : /\ pc[p] \in {"idle", "refused"} <=> asked[p] = NoRequest
                       /\ asked[p] \in Requests \cup {NoRequest}
                       /\ RequestInv(p)
  BY DEF AccountInv, TypeOK
<1>3. ASSUME NEW p \in Procs, Arrive(p)
      PROVE  Promise!Next \/ UNCHANGED <<Opened, active, asked, verdict>>
  <2>1. ASSUME NEW r \in Requests, Enter(p, r)
        PROVE  Promise!Ask(p)
    <3>1. /\ asked[p] = NoRequest /\ verdict[p] = "none" /\ UNCHANGED <<Opened, active>>
          /\ asked \in [Procs -> Requests \cup {NoRequest}] /\ verdict \in [Procs -> Verdicts]
      BY <1>1, <1>2, <1>3, <2>1 DEF Arrive, Enter, RequestInv, AccountInv, TypeOK
    <3>2. asked' = [asked EXCEPT ![p] = r] /\ asked'[p] = r
      BY <2>1, <3>1 DEF Enter
    <3>3. CASE Valid(r)
      <4>1. verdict' = [verdict EXCEPT ![p] = "none"] /\ r \in ValidRequests
        BY <2>1, <3>1, <3>3 DEF Enter, ValidRequests
      <4> QED
        BY <3>1, <3>2, <4>1 DEF Promise!Ask
    <3>4. CASE ~Valid(r)
      <4>1. verdict' = [verdict EXCEPT ![p] = "invalid"] /\ r \notin ValidRequests
        BY <2>1, <3>4 DEF Enter, ValidRequests
      <4> QED
        BY <3>1, <3>2, <4>1 DEF Promise!Ask
    <3> QED
      BY <3>3, <3>4
  <2> QED
    BY <1>1, <1>3, <2>1 DEF Arrive, Promise!Next
<1>4. ASSUME NEW p \in Procs, Commit(p)
      PROVE  Promise!Next
  BY <1>4, CommitCreates DEF Promise!Next
<1>5. ASSUME NEW p \in Procs, Says(p, "error"), asked[p] # NoRequest
      PROVE  Promise!Next
  BY <1>1, <1>5 DEF Says, Promise!Error, Promise!Next
<1>6. ASSUME NEW p \in Procs, Resolve(p)
      PROVE  Promise!Next \/ UNCHANGED <<Opened, active, asked, verdict>>
  <2>1. asked[p] # NoRequest /\ verdict[p] = "none"
    BY <1>2, <1>6 DEF Resolve, RequestInv
  <2>2. CASE asked[p].ref # NoCode /\ asked[p].ref \notin active
             /\ Says(p, "unknown_referral_code")
    BY <1>1, <2>1, <2>2 DEF Says, Promise!UnknownReferrer, Promise!Decide, Promise!Next
  <2> QED
    BY <1>1, <1>6, <2>2 DEF Resolve, Advance
<1>7. ASSUME NEW p \in Procs, InsertPhone(p)
      PROVE  Promise!Next \/ UNCHANGED <<Opened, active, asked, verdict>>
  <2>1. /\ asked[p] # NoRequest /\ asked[p] \in Requests /\ Valid(asked[p])
        /\ verdict[p] = "none"
    BY <1>2, <1>7 DEF InsertPhone, RequestInv, InTransaction
  <2>2. CASE (\E u \in users : u.phone = Phone(p)) /\ Says(p, "phone_taken")
    <3>1. \E a \in Opened : a.line = LineOf(asked[p].raw)
      BY <2>1, <2>2, LinesAndPhones
    <3>2. [q \in Requests |-> LineOf(q.raw)][asked[p]] = LineOf(asked[p].raw)
      BY <2>1
    <3> QED
      BY <1>1, <2>1, <2>2, <3>1, <3>2 DEF Says, Promise!PhoneTaken, Promise!Decide, Promise!Next
  <2> QED
    BY <1>1, <1>7, <2>2 DEF InsertPhone, Advance
<1>8. ASSUME NEW p \in Procs, InsertCode(p)
      PROVE  Promise!Next \/ UNCHANGED <<Opened, active, asked, verdict>>
  <2>1. asked[p] # NoRequest
    BY <1>2, <1>8 DEF InsertCode
  <2> QED
    BY <1>1, <1>5, <1>8, <2>1 DEF InsertCode, Advance, Again
<1>9. ASSUME NEW p \in Procs, Issue(p) \/ Fails(p) \/ Respond(p) \/ TooMany(p)
      PROVE  Promise!Next \/ UNCHANGED <<Opened, active, asked, verdict>>
  <2>1. CASE Issue(p)
    <3>1. verdict[p] = "created" /\ verdict' = [verdict EXCEPT ![p] = "created"]
          /\ UNCHANGED <<dbVars, asked>>
      BY <1>2, <2>1 DEF Issue, Says, RequestInv
    <3>2. verdict' = verdict
      BY <3>1 DEF AccountInv, TypeOK
    <3> QED
      BY <1>1, <3>1, <3>2
  <2>2. CASE Fails(p)
    BY <1>2, <1>5, <2>2 DEF Fails, InTransaction
  <2>3. CASE Respond(p)
    BY <1>1, <1>2, <2>3 DEF Respond, RequestInv, Promise!Answer, Promise!Next
  <2>4. CASE TooMany(p)
    BY <1>1, <2>4 DEF TooMany
  <2> QED
    BY <1>9, <2>1, <2>2, <2>3, <2>4
<1>10. CASE SetActive
  <2>1. active' \subseteq {u.code : u \in users} /\ UNCHANGED <<users, granted, procVars>>
    BY <1>10 DEF SetActive, AccountInv, TypeOK
  <2>2. UNCHANGED <<Opened, asked, verdict>>
    BY <2>1 DEF Opened, procVars
  <2>3. active' \subseteq {a.code : a \in Opened}
    BY <2>1, CodesOfAccounts DEF AccountInv
  <2> QED
    BY <2>2, <2>3 DEF Promise!SetActive, Promise!Next
<1>11. CASE \/ (Tick \/ RedisRestarts) /\ UNCHANGED <<dbVars, procVars>>
            \/ UNCHANGED vars
  BY <1>1, <1>11 DEF vars, procVars
<1> QED
  BY <1>3, <1>4, <1>6, <1>7, <1>8, <1>9, <1>10, <1>11 DEF Next, Handle

(* Registration implements Accounts: one account per line, whole, and true *)
(* answers, however many requests race, repeat, collide and break off.     *)
THEOREM RegistrationKeepsPromise == Spec => AccountsSpec
<1>1. Init => Promise!Init
  BY DEF Init, Promise!Init
<1> QED
  BY <1>1, AccountsAreSound, StepKeepsAccounts, PTL
  DEF Spec, AccountsSpec, Promise!AccountsSpec, Promise!vars
=============================================================================
