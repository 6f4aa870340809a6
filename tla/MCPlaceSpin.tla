---------------------------- MODULE MCPlaceSpin -----------------------------
(* One player and one bet that three handlers may serve at a time.          *)
EXTENDS PlaceSpin, TLC

HandlerSymmetry == Permutations(Handlers) \cup Permutations(Outcomes)
=============================================================================
