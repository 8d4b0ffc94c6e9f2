---------------------------- MODULE MemoryStore ----------------------------
(***************************************************************************)
(* The in-process rate limit store, app/services/throttle/memory.go: a     *)
(* token bucket per key, a sweep of replenished buckets and a hard cap on  *)
(* how many keys are tracked.  Every operation runs under the store's      *)
(* mutex, so Allow is one action; the time it is given was read earlier,   *)
(* outside the mutex, and is whatever its caller passes.                   *)
(***************************************************************************)
EXTENDS RateLimit, FiniteSets

CONSTANTS
  MaxKeys,        (* How many keys the store tracks at most.               *)
  PruneInterval   (* Ticks between two unforced sweeps.                    *)

ASSUME StoreAssumption ==
  /\ MaxKeys \in Nat \ {0}
  /\ PruneInterval \in Nat

VARIABLES
  buckets,        (* Key -> bucket, defined on the tracked keys only.      *)
  prunedAt        (* When the last sweep ran.                              *)

storeVars == <<buckets, prunedAt>>

Bucket == [tokens : Nat, seenAt : Nat, fullAt : Nat]

-----------------------------------------------------------------------------
(* The store is created before the first request and has never been swept: *)
(* the zero time is longer ago than any interval.                          *)
InitStore ==
  /\ buckets = [k \in {} |-> 0]
  /\ prunedAt = -PruneInterval

Tracked == DOMAIN buckets

Replenished(now) == {k \in Tracked : buckets[k].fullAt <= now}

SweepDue(now) == now - prunedAt >= PruneInterval

(* The keys an unforced sweep leaves.                                      *)
Sweep(now) == IF SweepDue(now) THEN Tracked \ Replenished(now) ELSE Tracked

LowWater == (9 * MaxKeys) \div 10

(* Mutant: the sort is the wrong way round.                                *)
EvictedNewest(live) ==
  {kept \in SUBSET live :
     /\ Cardinality(kept) = LowWater
     /\ \A k \in kept, v \in live \ kept : buckets[v].seenAt >= buckets[k].seenAt}

(* The keys makeRoom may leave of those a first sweep left.  The sort is   *)
(* by seenAt only and the map is walked in any order, so among keys seen   *)
(* at the same time any may go.                                            *)
Evicted(live) ==
  {kept \in SUBSET live :
     /\ Cardinality(kept) = LowWater
     /\ \A k \in kept, v \in live \ kept : buckets[v].seenAt <= buckets[k].seenAt}

(* Mutant: the cap is tested one key too late.                             *)
MakeRoomLate(live, now) ==
  LET unswept == live \ Replenished(now)
  IN  IF Cardinality(live) <= MaxKeys THEN {live}
      ELSE IF Cardinality(unswept) <= MaxKeys THEN {unswept}
      ELSE Evicted(unswept)

MakeRoom(live, now) ==
  LET unswept == live \ Replenished(now)
  IN  IF Cardinality(live) < MaxKeys THEN {live}
      ELSE IF Cardinality(unswept) < MaxKeys THEN {unswept}
      ELSE Evicted(unswept)

(* What key holds at time now, before this request is paid for.            *)
Held(key, limit, now) ==
  IF key \notin Sweep(now) THEN [tokens |-> Burst(limit), seenAt |-> now]
  ELSE LET entry == buckets[key] IN
       IF now > entry.seenAt
       THEN [tokens |-> Least(Burst(limit),
                              entry.tokens + (now - entry.seenAt) * Refill(limit)),
             seenAt |-> now]
       ELSE [tokens |-> entry.tokens, seenAt |-> entry.seenAt]

(* Mutant: the token is taken before the test.                             *)
SpentUntested(held, limit) == held.tokens - Token(limit)

Spent(held, limit) ==
  IF held.tokens >= Token(limit) THEN held.tokens - Token(limit) ELSE held.tokens

(* Mutant: the wait is for the next token, not for all of them.            *)
ResetAfterToken(tokens, limit) == CeilDiv(Token(limit) - tokens, Refill(limit))

ResetAfter(tokens, limit) == CeilDiv(Burst(limit) - tokens, Refill(limit))

-----------------------------------------------------------------------------
(* The Decision Allow returns.  A limit that permits nothing refuses.      *)
Allowed(key, limit, now) ==
  /\ Refill(limit) > 0
  /\ Held(key, limit, now).tokens >= Token(limit)

RetryAfter(key, limit, now) ==
  IF Refill(limit) = 0 THEN limit.Per
  ELSE CeilDiv(Token(limit) - Held(key, limit, now).tokens, Refill(limit))

(* Allow, from the lock to the unlock.                                     *)
Allow(key, limit, now) ==
  IF Refill(limit) = 0 THEN UNCHANGED storeVars
  ELSE
    LET live    == Sweep(now)
        held    == Held(key, limit, now)
        left    == Spent(held, limit)
        forced  == key \notin live /\ Cardinality(live) >= MaxKeys
    IN
    /\ \E kept \in IF key \in live THEN {live} ELSE MakeRoom(live, now) :
         buckets' = [k \in kept \cup {key} |->
                       IF k = key
                       THEN [tokens |-> left,
                             seenAt |-> held.seenAt,
                             fullAt |-> now + ResetAfter(left, limit)]
                       ELSE buckets[k]]
    /\ prunedAt' = IF SweepDue(now) \/ forced THEN now ELSE prunedAt

=============================================================================
