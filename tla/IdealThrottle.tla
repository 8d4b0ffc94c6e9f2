--------------------------- MODULE IdealThrottle ---------------------------
(***************************************************************************)
(* What the throttle promises: every limit holds one allowance per client  *)
(* that refills steadily, is never forgotten and is always judged by the   *)
(* present.  A request passes the limits on its route one after the other; *)
(* it is admitted by one exactly when a whole token is there.              *)
(***************************************************************************)
EXTENDS RateLimit

CONSTANT
  Request         (* Requests that may be in flight at once.               *)

VARIABLES
  level,          (* Key -> units of the allowance that are left.          *)
  stage,          (* Request -> the limit it waits for, or its outcome.    *)
  caller,         (* Request -> its client while it waits.                 *)
  route           (* Request -> its route while it waits.                  *)

idealVars == <<level, stage, caller, route>>

Full == [k \in Keys |-> Burst(Limit[k[1]])]

IdealInit ==
  /\ level = Full
  /\ stage = [r \in Request |-> "idle"]
  /\ caller = [r \in Request |-> "nobody"]
  /\ route = [r \in Request |-> "other"]

(* The limits that are still to pass, in order, and the outcome.           *)
FirstLimit(rt) == IF GlobalEnabled THEN "global"
                  ELSE IF rt = "login" THEN "login" ELSE "handler"

NextLimit(name, rt) == IF name = "global" /\ rt = "login" THEN "login" ELSE "handler"

Move(r, s, c, rt) ==
  LET waits == s \in LimitName
  IN  /\ stage' = [stage EXCEPT ![r] = s]
      /\ caller' = [caller EXCEPT ![r] = IF waits THEN c ELSE "nobody"]
      /\ route' = [route EXCEPT ![r] = IF waits THEN rt ELSE "other"]

Elapse ==
  /\ level' = [k \in Keys |-> Least(Burst(Limit[k[1]]), level[k] + Refill(Limit[k[1]]))]
  /\ UNCHANGED <<stage, caller, route>>

Ask(r, c, rt) ==
  /\ stage[r] \notin LimitName
  /\ Move(r, FirstLimit(rt), c, rt)
  /\ UNCHANGED level

Pay(r) ==
  LET key == Key(stage[r], caller[r])
  IN  /\ stage[r] \in LimitName
      /\ level[key] >= Token(Limit[stage[r]])
      /\ level' = [level EXCEPT ![key] = @ - Token(Limit[stage[r]])]
      /\ Move(r, NextLimit(stage[r], route[r]), caller[r], route[r])

TurnAway(r) ==
  /\ stage[r] \in LimitName
  /\ level[Key(stage[r], caller[r])] < Token(Limit[stage[r]])
  /\ Move(r, "throttled", caller[r], route[r])
  /\ UNCHANGED level

IdealNext ==
  \/ Elapse
  \/ \E r \in Request, c \in Client, rt \in {"login", "other"} : Ask(r, c, rt)
  \/ \E r \in Request : Pay(r) \/ TurnAway(r)

IdealSpec == IdealInit /\ [][IdealNext]_idealVars

=============================================================================
