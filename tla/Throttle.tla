------------------------------ MODULE Throttle ------------------------------
(***************************************************************************)
(* Concurrent requests passing the throttle middlewares of their route,    *)
(* app/http/middlewares/throttle_middleware.go over MemoryStore.  Each     *)
(* middleware reads the clock and only then waits for the store's mutex,   *)
(* so requests may be decided in an order other than that of their stamps. *)
(***************************************************************************)
EXTENDS MemoryStore

CONSTANTS
  Request,        (* Request goroutines.                                   *)
  MaxClock,       (* Bound: the clock stops here.                          *)
  MaxLag          (* Ticks that may pass between reading the clock and     *)
                  (* holding the mutex; zero when nothing comes between.   *)

ASSUME TimingAssumption ==
  /\ MaxClock \in Nat
  /\ MaxLag \in Nat

NoTime   == -1
NoCaller == "nobody"
Route    == {"login", "other"}
Stage    == LimitName \cup {"idle", "handler", "throttled"}

VARIABLES
  clock,          (* The process's monotonic clock.                        *)
  stage,          (* Request -> the limit it waits for, or its outcome.    *)
  caller,         (* Request -> its client address while in the chain.     *)
  route,          (* Request -> its route while in the chain.              *)
  stamp           (* Request -> time.Now() of its pending Allow, or NoTime.*)

requestVars == <<stage, caller, route>>
vars == <<buckets, prunedAt, clock, stage, caller, route, stamp>>

Init ==
  /\ InitStore
  /\ clock = 0
  /\ stage = [r \in Request |-> "idle"]
  /\ caller = [r \in Request |-> NoCaller]
  /\ route = [r \in Request |-> "other"]
  /\ stamp = [r \in Request |-> NoTime]

(* Time passes; no request is kept from the mutex for more than MaxLag.    *)
Tick ==
  /\ clock < MaxClock
  /\ \A r \in Request : stamp[r] # NoTime => clock - stamp[r] < MaxLag
  /\ clock' = clock + 1
  /\ UNCHANGED <<storeVars, requestVars, stamp>>

(* The middleware chain of a route: the global throttle when configured,   *)
(* then the login throttle on the login route, then the handler.           *)
FirstStage(rt) == IF GlobalEnabled THEN "global"
                  ELSE IF rt = "login" THEN "login" ELSE "handler"

NextStage(name, rt) == IF name = "global" /\ rt = "login" THEN "login" ELSE "handler"

(* r goes on to stage s; past the chain its client and route are of no     *)
(* further interest.                                                       *)
Enter(r, s, c, rt) ==
  /\ stage' = [stage EXCEPT ![r] = s]
  /\ caller' = [caller EXCEPT ![r] = IF s \in LimitName THEN c ELSE NoCaller]
  /\ route' = [route EXCEPT ![r] = IF s \in LimitName THEN rt ELSE "other"]

(* A request is routed into its chain by a goroutine that is free.         *)
Arrive(r, c, rt) ==
  /\ stage[r] \notin LimitName
  /\ Enter(r, FirstStage(rt), c, rt)
  /\ UNCHANGED <<storeVars, clock, stamp>>

ReadClock(r) ==
  /\ stage[r] \in LimitName
  /\ stamp[r] = NoTime
  /\ stamp' = [stamp EXCEPT ![r] = clock]
  /\ UNCHANGED <<storeVars, clock, requestVars>>

(* What the pending request of r is asking the store.                      *)
Asked(r)   == Key(stage[r], caller[r])
Pending(r) == stage[r] \in LimitName /\ stamp[r] # NoTime
Passes(r)  == Allowed(Asked(r), Limit[stage[r]], stamp[r])

(* store.Allow returns true: ctx.Next().                                   *)
Admit(r) ==
  /\ Pending(r)
  /\ Passes(r)
  /\ Allow(Asked(r), Limit[stage[r]], stamp[r])
  /\ Enter(r, NextStage(stage[r], route[r]), caller[r], route[r])
  /\ stamp' = [stamp EXCEPT ![r] = NoTime]
  /\ UNCHANGED clock

(* Mutant: ctx.Abort() is forgotten, so gin goes on with the chain.        *)
RefuseWithoutAbort(r) ==
  /\ Pending(r)
  /\ ~Passes(r)
  /\ Allow(Asked(r), Limit[stage[r]], stamp[r])
  /\ Enter(r, NextStage(stage[r], route[r]), caller[r], route[r])
  /\ stamp' = [stamp EXCEPT ![r] = NoTime]
  /\ UNCHANGED clock

(* store.Allow returns false: the response is a 429 and ctx.Abort() keeps  *)
(* the rest of the chain from running.  RetryHeader.tla adds the header.   *)
Refuse(r) ==
  /\ Pending(r)
  /\ ~Passes(r)
  /\ Allow(Asked(r), Limit[stage[r]], stamp[r])
  /\ Enter(r, "throttled", caller[r], route[r])
  /\ stamp' = [stamp EXCEPT ![r] = NoTime]
  /\ UNCHANGED clock

Next ==
  \/ Tick
  \/ \E r \in Request, c \in Client, rt \in Route : Arrive(r, c, rt)
  \/ \E r \in Request : ReadClock(r) \/ Admit(r) \/ Refuse(r)

Spec == Init /\ [][Next]_vars

-----------------------------------------------------------------------------
(* What key's allowance amounts to at the present time: a tracked bucket   *)
(* refilled since it was last seen, a full one for an untracked key.       *)
Level(k) ==
  LET limit == Limit[k[1]] IN
  IF k \in Tracked
  THEN Least(Burst(limit), buckets[k].tokens + (clock - buckets[k].seenAt) * Refill(limit))
  ELSE Burst(limit)

TypeOK ==
  /\ buckets \in [Tracked -> Bucket]
  /\ Tracked \subseteq Keys
  /\ prunedAt \in Int
  /\ clock \in Nat
  /\ stage \in [Request -> Stage]
  /\ caller \in [Request -> Client \cup {NoCaller}]
  /\ \A r \in Request : stage[r] \in LimitName => caller[r] \in Client
  /\ route \in [Request -> Route]
  /\ stamp \in [Request -> Nat \cup {NoTime}]

(* The map never outgrows its cap, whatever the order in which requests    *)
(* with late stamps insert, sweep and evict (memory.go makeRoom).          *)
Bounded == Cardinality(Tracked) <= MaxKeys

(* Any bucket a sweep may discard now lacks at most what refills within    *)
(* the longest wait for the mutex: the sweep is lossless up to that lag.   *)
SweepLosesAtMostLag ==
  \A k \in Replenished(clock) :
    Burst(Limit[k[1]]) - Level(k) <= MaxLag * Refill(Limit[k[1]])

(* A step lowers a key's allowance only by the one token that a request    *)
(* on that very key was admitted for: no limit draws on another's counter, *)
(* no client on another client's, and a stamp from the past takes nothing. *)
OnlyAdmissionsSpend ==
  [][\A k \in Keys :
       \/ Level(k)' >= Level(k)
       \/ /\ Level(k)' >= Level(k) - Token(Limit[k[1]])
          /\ \E r \in Request :
               /\ Asked(r) = k
               /\ stage'[r] = NextStage(stage[r], route[r])]_vars

(* A bucket that still lacks tokens is dropped only for keys seen no       *)
(* earlier, and only while at least the low-water mark of those remain.    *)
ForgetsOnlyTheStalest ==
  [][\A k \in Tracked \ DOMAIN buckets' :
       \/ \E r \in Request : Pending(r) /\ k \in Replenished(stamp[r])
       \/ Cardinality({o \in Tracked \cap DOMAIN buckets' :
                         buckets[o].seenAt >= buckets[k].seenAt}) >= LowWater]_vars

(* The throttle decides as one with ideal, unforgotten allowances would.   *)
Ideal == INSTANCE IdealThrottle WITH level <- [k \in Keys |-> Level(k)]

ImplementsIdeal == Ideal!IdealSpec

=============================================================================
