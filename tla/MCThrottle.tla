----------------------------- MODULE MCThrottle -----------------------------
(***************************************************************************)
(* Limits small enough for TLC, with fractions of a token left over by     *)
(* most refills and a login limit tighter than the global one.             *)
(***************************************************************************)
EXTENDS Throttle, TLC

Limits(global, login, per) ==
  [name \in LimitName |-> [Requests |-> IF name = "global" THEN global ELSE login,
                           Per |-> per]]

GlobalAndLogin == Limits(2, 1, 3)
LoginOnly      == Limits(0, 2, 5)

Symmetry == Permutations(Client) \cup Permutations(Request)

=============================================================================
