-------------------------- MODULE MCClientSession ---------------------------
(* Three calls, so that one starts a refresh, one joins it and one meets   *)
(* its 401 after it; pairs for a session, its refresh and a second one.    *)
EXTENDS ClientSession, TLC

SendSymmetry == Permutations(Sends)
=============================================================================
