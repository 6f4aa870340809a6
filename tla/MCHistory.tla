----------------------------- MODULE MCHistory ------------------------------
(***************************************************************************)
(* Player 1 was referred by player 2, whose pages are read.  Rounds of     *)
(* practice that either plays beside the other take ids from between.      *)
(***************************************************************************)
EXTENDS History, TLC

MCReferrer == (1 :> 2) @@ (2 :> 0)
MCDefLimit == ("spins" :> 1) @@ ("transactions" :> 2)
MCMaxLimit == ("spins" :> 2) @@ ("transactions" :> 3)
=============================================================================
