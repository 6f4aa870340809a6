------------------------------- MODULE Totals -------------------------------
(***************************************************************************)
(* SELECT sum(column): the values of a function, added up.                 *)
(***************************************************************************)
EXTENDS Integers, Functions

Total(f) == FoldFunction(+, 0, f)
=============================================================================
