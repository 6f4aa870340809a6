---------------------------- MODULE MCGameScreen ----------------------------
(* Two presses, two reads, one credit, and a payout that wins or loses.    *)
EXTENDS GameScreen, TLC

mcOpening == [m \in Modes |-> 1]

PressesAndReads == Permutations(Rounds) \cup Permutations(Reads)
=============================================================================
