----------------------------- MODULE MCSessions -----------------------------
(* Three pairs of tokens, two requests at a time, access tokens of two     *)
(* ticks.                                                                  *)
EXTENDS Sessions, TLC

ProcSymmetry == Permutations(Procs)
=============================================================================
