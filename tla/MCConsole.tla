----------------------------- MODULE MCConsole -----------------------------
(***************************************************************************)
(* Console with terminals that TLC may exchange.                           *)
(***************************************************************************)
EXTENDS Console

Symmetry == Permutations(Process)

=============================================================================
