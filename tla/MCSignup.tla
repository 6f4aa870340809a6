------------------------------ MODULE MCSignup ------------------------------
(***************************************************************************)
(* National numbers of two digits.  The first two requests spell one       *)
(* number, 71; the second was referred by the account there is, and the    *)
(* third, for another number, by a code that may come to be.  The fourth   *)
(* is no mobile number; of the last two, which spell 71 again, one has too *)
(* short a password and one a malformed body.                              *)
(***************************************************************************)
EXTENDS Signup, TLC

Request(raw, password, ref) ==
    [raw |-> raw, garbled |-> FALSE, password |-> password, ref |-> ref]

MCRequests ==
    {Request(<<0, 7, 1>>, 2, NoCode),
     Request(<<2, 5, 4, 7, 1>>, 2, "c1"),
     Request(<<1, 2>>, 2, "c2"),
     Request(<<0, 3, 1>>, 2, NoCode),
     Request(<<0, 7, 1>>, 1, NoCode),
     [Request(<<0, 7, 1>>, 2, NoCode) EXCEPT !.garbled = TRUE]}

MCSeed ==
    LET first == Request(<<0, 7, 1>>, 2, NoCode)
    IN {[phone |-> <<2, 5, 4, 1, 9>>, code |-> "c1", referrer |-> NoCode, by |-> first]}

Symmetry == Permutations(Procs)
-----------------------------------------------------------------------------
(* Every spelling over some digits: what Normalise makes of one is the     *)
(* line it names behind the country code, which spells itself; and it      *)
(* accepts nothing but a mobile number.                                    *)
Spellings == UNION {[1..n -> {0, 1, 2, 4, 5, 7}] : n \in 1..6}

ASSUME NormaliseIsCanonical ==
    \A d \in Spellings :
        LET phone == Normalise(d)
        IN phone # Invalid =>
              /\ phone = CountryCode \o LineOf(d)
              /\ LineOf(d)[1] \in {1, 7}
              /\ Normalise(phone) = phone
=============================================================================
