------------------------------- MODULE Rounds -------------------------------
(***************************************************************************)
(* What a player is promised about the client_ref of a bet, whatever is    *)
(* lost, repeated or restarted on the way: it is played once or never, and *)
(* everybody who is told an outcome is told that of the round played.      *)
(***************************************************************************)
CONSTANTS
    Refs,           \* the client_refs of one player
    Outcomes,       \* what a round can come to
    Unplayed

VARIABLES
    played,         \* the outcome of the round each client_ref was played as
    told            \* the outcomes anybody was told for it

Init ==
    /\ played = [r \in Refs |-> Unplayed]
    /\ told = [r \in Refs |-> {}]

Play(r) ==
    /\ played[r] = Unplayed
    /\ \E o \in Outcomes : played' = [played EXCEPT ![r] = o]
    /\ UNCHANGED told

Tell(r) ==
    /\ played[r] # Unplayed
    /\ told' = [told EXCEPT ![r] = {played[r]}]
    /\ UNCHANGED played

Next == \E r \in Refs : Play(r) \/ Tell(r)

RoundsSpec == Init /\ [][Next]_<<played, told>>
=============================================================================
