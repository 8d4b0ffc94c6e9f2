----------------------------- MODULE RateLimit -----------------------------
(***************************************************************************)
(* What a limit is, app/services/throttle/throttle.go and                  *)
(* configs/throttle.go: two named allowances, drawn on per client address. *)
(*                                                                         *)
(* Time is counted in ticks.  A limit of Requests per Per refills Requests *)
(* units a tick when a token is worth Per units, which keeps every level   *)
(* an integer; the rounding of the code's float64 levels is not modelled.  *)
(***************************************************************************)
EXTENDS Integers

CONSTANTS
  Client,         (* Client addresses.                                     *)
  Limit           (* LimitName -> [Requests, Per]: the configured limits.  *)

LimitName == {"global", "login"}

(* What ThrottleConfig.validate lets through.  A global limit of zero      *)
(* means that the global throttle is not installed.                        *)
ASSUME LimitAssumption ==
  /\ Limit \in [LimitName -> [Requests : Nat, Per : Nat \ {0}]]
  /\ Limit["login"].Requests > 0

GlobalEnabled == Limit["global"].Requests > 0

Key(name, client) == <<name, client>>
Keys == LimitName \X Client

Token(limit)  == limit.Per
Refill(limit) == limit.Requests
Burst(limit)  == limit.Requests * limit.Per

Least(a, b)   == IF a <= b THEN a ELSE b
CeilDiv(a, b) == (a + b - 1) \div b

=============================================================================
