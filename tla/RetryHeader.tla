---------------------------- MODULE RetryHeader ----------------------------
(***************************************************************************)
(* The Retry-After header of a refusal, throttle_middleware.go: what it    *)
(* tells the client, kept as a history variable beside the throttle.       *)
(***************************************************************************)
EXTENDS Throttle

CONSTANT
  TicksPerSecond  (* The header's resolution.                              *)

ASSUME HeaderAssumption == TicksPerSecond \in Nat \ {0}

VARIABLE
  promise         (* Key -> the earliest time a refused client was told to *)
                  (* return at, since a request on the key last passed.    *)

headerVars == <<vars, promise>>

(* Mutant: the header rounds down.                                         *)
RetrySecondsTruncated(wait) ==
  LET seconds == wait \div TicksPerSecond IN IF seconds < 1 THEN 1 ELSE seconds

(* The Retry-After header: whole seconds, rounded up, never below one.     *)
RetrySeconds(wait) ==
  LET seconds == CeilDiv(wait, TicksPerSecond) IN IF seconds < 1 THEN 1 ELSE seconds

ReturnAt(r) ==
  clock + TicksPerSecond * RetrySeconds(RetryAfter(Asked(r), Limit[stage[r]], stamp[r]))

HeaderInit == Init /\ promise = [k \in Keys |-> NoTime]

HeaderNext ==
  \/ Tick /\ UNCHANGED promise
  \/ \E r \in Request, c \in Client, rt \in Route : Arrive(r, c, rt) /\ UNCHANGED promise
  \/ \E r \in Request :
       \/ ReadClock(r) /\ UNCHANGED promise
       \/ Admit(r) /\ promise' = [promise EXCEPT ![Asked(r)] = NoTime]
       \/ Refuse(r) /\ promise' = [promise EXCEPT ![Asked(r)] =
                                     IF @ = NoTime THEN ReturnAt(r)
                                     ELSE Least(@, ReturnAt(r))]

HeaderSpec == HeaderInit /\ [][HeaderNext]_headerVars

-----------------------------------------------------------------------------
(* A client that waits as long as Retry-After told it is admitted, unless  *)
(* another request on its key was admitted meanwhile, however late the     *)
(* refusal or the retry is decided and whatever was swept or evicted.      *)
RetryAfterHonoured ==
  [][\A r \in Request :
       /\ Pending(r)
       /\ promise[Asked(r)] # NoTime
       /\ stamp[r] >= promise[Asked(r)]
       => stage'[r] # "throttled"]_headerVars

=============================================================================
