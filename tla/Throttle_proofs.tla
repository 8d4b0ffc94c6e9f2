--------------------------- MODULE Throttle_proofs ---------------------------
(***************************************************************************)
(* Proofs about the throttle for every set of clients and requests, every  *)
(* pair of limits, every cap, every lag and every resolution of the header:*)
(* what the store keeps, the allowances its buckets stand for, and what    *)
(* Retry-After promises.                                                   *)
(***************************************************************************)
EXTENDS RetryHeader, FiniteSetTheorems, TLAPS

(* Division rounded up covers its dividend (memory.go secondsToDuration).  *)
LEMMA CeilDivCovers ==
  ASSUME NEW a \in Nat, NEW b \in Nat \ {0}
  PROVE  /\ CeilDiv(a, b) \in Nat
         /\ a <= CeilDiv(a, b) * b
  BY DEF CeilDiv

(* A longer time refills no less.                                          *)
LEMMA ScaleMonotone ==
  ASSUME NEW a \in Int, NEW b \in Int, NEW n \in Nat, a <= b
  PROVE  /\ a * n \in Int
         /\ b * n \in Int
         /\ a * n <= b * n
  OBVIOUS

(* Every limit the configuration lets through is a pair of numbers whose   *)
(* derived quantities are numbers.                                         *)
LEMMA LimitFacts ==
  ASSUME NEW name \in LimitName
  PROVE  /\ Refill(Limit[name]) \in Nat
         /\ Token(Limit[name]) \in Nat \ {0}
         /\ Burst(Limit[name]) \in Nat
         /\ Burst(Limit[name]) = Refill(Limit[name]) * Token(Limit[name])
  <1>1. Limit[name] \in [Requests : Nat, Per : Nat \ {0}]
    BY LimitAssumption
  <1>2. QED
    BY <1>1 DEF Refill, Token, Burst

-----------------------------------------------------------------------------
(* What is true of a tracked bucket: it holds no more than its burst, was  *)
(* not seen in the future, and claims to be full no earlier than MaxLag    *)
(* before the refill since it was last seen has filled it.                 *)
BucketOK(k, bucket) ==
  /\ bucket \in Bucket
  /\ bucket.tokens <= Burst(Limit[k[1]])
  /\ bucket.seenAt <= clock
  /\ Burst(Limit[k[1]]) <= bucket.tokens
       + (bucket.fullAt + MaxLag - bucket.seenAt) * Refill(Limit[k[1]])

StoreInv ==
  /\ Tracked \subseteq Keys
  /\ buckets = [k \in Tracked |-> buckets[k]]
  /\ \A k \in Tracked : BucketOK(k, buckets[k])
  /\ prunedAt \in Int

RequestInv ==
  /\ clock \in Nat
  /\ stage \in [Request -> Stage]
  /\ caller \in [Request -> Client \cup {NoCaller}]
  /\ \A r \in Request : stage[r] \in LimitName => caller[r] \in Client
  /\ route \in [Request -> Route]
  /\ stamp \in [Request -> Nat \cup {NoTime}]
  /\ \A r \in Request :
       stamp[r] # NoTime => stamp[r] <= clock /\ clock <= stamp[r] + MaxLag

Inv == StoreInv /\ RequestInv

LEMMA InvInit == Init => Inv
  <1> SUFFICES ASSUME Init PROVE Inv
    OBVIOUS
  <1>1. StoreInv
    BY StoreAssumption DEF Init, InitStore, StoreInv, Tracked
  <1>2. RequestInv
    BY DEF Init, RequestInv, LimitName, Stage, Route, NoTime, NoCaller
  <1>3. QED
    BY <1>1, <1>2 DEF Inv

-----------------------------------------------------------------------------
(* What key holds when Allow judges it: a proper level that, refilled      *)
(* until MaxLag after the stamp, is what the stored bucket would be.       *)
LEMMA HeldFacts ==
  ASSUME StoreInv, clock \in Nat,
         NEW k \in Keys, NEW now \in Nat, now <= clock
  PROVE  LET limit == Limit[k[1]]
             held  == Held(k, limit, now)
         IN  /\ held.tokens \in Nat
             /\ held.tokens <= Burst(limit)
             /\ held.seenAt \in Nat
             /\ held.seenAt <= clock
  <1> DEFINE limit == Limit[k[1]]
             entry == buckets[k]
  <1>0. k[1] \in LimitName
    BY DEF Keys
  <1>1. /\ Refill(limit) \in Nat
        /\ Burst(limit) \in Nat
    BY <1>0, LimitFacts
  <1>2. CASE k \notin Sweep(now)
    BY <1>1, <1>2 DEF Held
  <1>3. CASE k \in Sweep(now)
    <2>1. k \in Tracked
      BY <1>3 DEF Sweep
    <2>2. entry \in Bucket /\ entry.tokens <= Burst(limit) /\ entry.seenAt <= clock
      BY <2>1 DEF StoreInv, BucketOK
    <2>3. CASE now > entry.seenAt
      <3>1. (now - entry.seenAt) * Refill(limit) \in Nat
        BY <1>1, <2>2, <2>3 DEF Bucket
      <3>2. Least(Burst(limit), entry.tokens + (now - entry.seenAt) * Refill(limit))
              \in 0 .. Burst(limit)
        BY <1>1, <2>2, <3>1 DEF Least, Bucket
      <3>3. Held(k, limit, now) =
              [tokens |-> Least(Burst(limit),
                                entry.tokens + (now - entry.seenAt) * Refill(limit)),
               seenAt |-> now]
        BY <1>3, <2>3 DEF Held
      <3>4. QED
        BY <1>1, <3>2, <3>3
    <2>4. CASE ~(now > entry.seenAt)
      <3>1. Held(k, limit, now) = [tokens |-> entry.tokens, seenAt |-> entry.seenAt]
        BY <1>3, <2>4 DEF Held
      <3>2. QED
        BY <2>2, <3>1 DEF Bucket
    <2>5. QED
      BY <2>3, <2>4
  <1>4. QED
    BY <1>2, <1>3

(* Allow leaves a store in which every bucket is as it should be.          *)
LEMMA AllowKeepsStore ==
  ASSUME StoreInv, clock \in Nat, clock' = clock,
         NEW k \in Keys, NEW now \in Nat,
         now <= clock, clock <= now + MaxLag,
         Allow(k, Limit[k[1]], now)
  PROVE  StoreInv'
  <1> DEFINE limit == Limit[k[1]]
             held  == Held(k, limit, now)
             left  == Spent(held, limit)
             paid  == [tokens |-> left,
                       seenAt |-> held.seenAt,
                       fullAt |-> now + ResetAfter(left, limit)]
  <1>0. /\ k[1] \in LimitName
        /\ MaxLag \in Nat
    BY TimingAssumption DEF Keys
  <1>1. /\ Refill(limit) \in Nat
        /\ Token(limit) \in Nat \ {0}
        /\ Burst(limit) \in Nat
    BY <1>0, LimitFacts
  <1>2. CASE Refill(limit) = 0
    BY <1>2 DEF Allow, storeVars, StoreInv, Tracked, BucketOK
  <1>3. CASE Refill(limit) # 0
    <2>1. /\ held.tokens \in Nat
          /\ held.tokens <= Burst(limit)
          /\ held.seenAt \in Nat
          /\ held.seenAt <= clock
      BY HeldFacts
    <2>2. left \in Nat /\ left <= Burst(limit)
      BY <1>1, <2>1 DEF Spent
    <2>3. /\ ResetAfter(left, limit) \in Nat
          /\ Burst(limit) - left <= ResetAfter(left, limit) * Refill(limit)
      BY <1>1, <1>3, <2>2, CeilDivCovers DEF ResetAfter
    <2>4. BucketOK(k, paid)
      <3>1. paid \in Bucket
        BY <2>1, <2>2, <2>3 DEF Bucket
      <3>2. ResetAfter(left, limit) <= paid.fullAt + MaxLag - paid.seenAt
        BY <1>0, <2>1, <2>3
      <3>3. ResetAfter(left, limit) * Refill(limit)
              <= (paid.fullAt + MaxLag - paid.seenAt) * Refill(limit)
        BY <1>0, <1>1, <2>1, <2>3, <3>2, ScaleMonotone
      <3>4. Burst(limit) <= left + (paid.fullAt + MaxLag - paid.seenAt) * Refill(limit)
        <4> DEFINE A == ResetAfter(left, limit) * Refill(limit)
                   B == (paid.fullAt + MaxLag - paid.seenAt) * Refill(limit)
        <4>1. A \in Int /\ B \in Int
          BY <1>0, <1>1, <2>1, <2>3
        <4>2. Burst(limit) - left <= A /\ A <= B
          BY <2>3, <3>3
        <4> HIDE DEF A, B
        <4>3. Burst(limit) <= left + B
          BY <1>1, <2>2, <4>1, <4>2
        <4>4. QED
          BY <4>3 DEF B
      <3>5. QED
        BY <2>1, <2>2, <3>1, <3>4 DEF BucketOK
    <2>5. PICK kept \in SUBSET Tracked :
            buckets' = [x \in kept \cup {k} |-> IF x = k THEN paid ELSE buckets[x]]
      BY <1>3 DEF Allow, MakeRoom, Evicted, Sweep
    <2>6. Tracked' = kept \cup {k}
      BY <2>5 DEF Tracked
    <2>7. ASSUME NEW x \in Tracked'
          PROVE  BucketOK(x, buckets[x])'
      <3>1. CASE x = k
        BY <2>4, <2>5, <2>6, <3>1 DEF BucketOK
      <3>2. CASE x # k
        BY <2>5, <2>6, <3>2 DEF BucketOK, StoreInv
      <3>3. QED
        BY <3>1, <3>2
    <2>8. prunedAt' \in Int
      BY <1>3 DEF Allow, StoreInv
    <2>9. /\ Tracked' \subseteq Keys
          /\ buckets' = [x \in Tracked' |-> buckets'[x]]
      BY <2>5, <2>6 DEF StoreInv
    <2>10. QED
      BY <2>7, <2>8, <2>9 DEF StoreInv
  <1>4. QED
    BY <1>2, <1>3

-----------------------------------------------------------------------------
(* Routing a request on keeps the request's variables well formed.         *)
LEMMA EnterKeepsRequests ==
  ASSUME RequestInv,
         NEW r \in Request, NEW s \in Stage, NEW c, NEW rt \in Route,
         s \in LimitName => c \in Client,
         Enter(r, s, c, rt)
  PROVE  /\ stage' \in [Request -> Stage]
         /\ caller' \in [Request -> Client \cup {NoCaller}]
         /\ \A q \in Request : stage'[q] \in LimitName => caller'[q] \in Client
         /\ route' \in [Request -> Route]
  BY DEF RequestInv, Enter, Route

LEMMA StagesAreStages ==
  ASSUME NEW rt, NEW name
  PROVE  FirstStage(rt) \in Stage /\ NextStage(name, rt) \in Stage
  BY DEF FirstStage, NextStage, Stage, LimitName

(* A decided request keeps the invariant: Admit and Refuse differ only in  *)
(* the stage they send the request to.                                     *)
LEMMA DecideKeepsInv ==
  ASSUME Inv, NEW r \in Request, NEW s \in Stage,
         s \in LimitName => caller[r] \in Client,
         Pending(r),
         Allow(Asked(r), Limit[stage[r]], stamp[r]),
         Enter(r, s, caller[r], route[r]),
         stamp' = [stamp EXCEPT ![r] = NoTime],
         clock' = clock
  PROVE  Inv'
  <1>1. /\ stage[r] \in LimitName
        /\ caller[r] \in Client
        /\ stamp[r] \in Nat
        /\ stamp[r] <= clock
        /\ clock <= stamp[r] + MaxLag
        /\ clock \in Nat
        /\ route[r] \in Route
    BY DEF Inv, RequestInv, Pending
  <1>2. Asked(r) \in Keys /\ Asked(r)[1] = stage[r]
    BY <1>1 DEF Asked, Key, Keys
  <1>3. StoreInv'
    BY <1>1, <1>2, AllowKeepsStore DEF Inv
  <1>4. RequestInv'
    <2>1. /\ stage' \in [Request -> Stage]
          /\ caller' \in [Request -> Client \cup {NoCaller}]
          /\ \A q \in Request : stage'[q] \in LimitName => caller'[q] \in Client
          /\ route' \in [Request -> Route]
      BY <1>1, EnterKeepsRequests DEF Inv
    <2>2. /\ stamp' \in [Request -> Nat \cup {NoTime}]
          /\ \A q \in Request :
               stamp'[q] # NoTime => stamp'[q] <= clock' /\ clock' <= stamp'[q] + MaxLag
      BY DEF Inv, RequestInv
    <2>3. QED
      BY <1>1, <2>1, <2>2 DEF RequestInv
  <1>5. QED
    BY <1>3, <1>4 DEF Inv

LEMMA InvStep == Inv /\ [Next]_vars => Inv'
  <1> SUFFICES ASSUME Inv, [Next]_vars PROVE Inv'
    OBVIOUS
  <1>1. CASE Tick
    <2>1. clock \in Nat /\ clock' = clock + 1 /\ MaxLag \in Nat
      BY <1>1, TimingAssumption DEF Tick, Inv, RequestInv
    <2>2. StoreInv'
      <3>1. \A k \in Tracked : BucketOK(k, buckets[k])'
        BY <1>1, <2>1 DEF Tick, storeVars, Inv, StoreInv, BucketOK, Bucket
      <3>2. QED
        BY <1>1, <3>1 DEF Tick, storeVars, Inv, StoreInv, Tracked
    <2>3. RequestInv'
      BY <1>1, <2>1 DEF Tick, requestVars, Inv, RequestInv
    <2>4. QED
      BY <2>2, <2>3 DEF Inv
  <1>2. ASSUME NEW r \in Request, NEW c \in Client, NEW rt \in Route, Arrive(r, c, rt)
        PROVE  Inv'
    <2>1. StoreInv'
      BY <1>2 DEF Arrive, storeVars, Inv, StoreInv, Tracked, BucketOK
    <2>2. /\ stage' \in [Request -> Stage]
          /\ caller' \in [Request -> Client \cup {NoCaller}]
          /\ \A q \in Request : stage'[q] \in LimitName => caller'[q] \in Client
          /\ route' \in [Request -> Route]
      BY <1>2, EnterKeepsRequests, StagesAreStages DEF Arrive, Inv
    <2>3. RequestInv'
      BY <1>2, <2>2 DEF Arrive, Inv, RequestInv
    <2>4. QED
      BY <2>1, <2>3 DEF Inv
  <1>3. ASSUME NEW r \in Request, ReadClock(r)
        PROVE  Inv'
    <2>1. StoreInv'
      BY <1>3 DEF ReadClock, storeVars, Inv, StoreInv, Tracked, BucketOK
    <2>2. RequestInv'
      BY <1>3, TimingAssumption DEF ReadClock, requestVars, Inv, RequestInv
    <2>3. QED
      BY <2>1, <2>2 DEF Inv
  <1>4. ASSUME NEW r \in Request, Admit(r)
        PROVE  Inv'
    <2>1. caller[r] \in Client
      BY <1>4 DEF Admit, Pending, Inv, RequestInv
    <2>2. QED
      BY <1>4, <2>1, StagesAreStages, DecideKeepsInv DEF Admit
  <1>5. ASSUME NEW r \in Request, Refuse(r)
        PROVE  Inv'
    <2>1. caller[r] \in Client
      BY <1>5 DEF Refuse, Pending, Inv, RequestInv
    <2>2. "throttled" \in Stage
      BY DEF Stage
    <2>3. QED
      BY <1>5, <2>1, <2>2, DecideKeepsInv DEF Refuse
  <1>6. CASE UNCHANGED vars
    BY <1>6 DEF vars, Inv, StoreInv, Tracked, BucketOK, RequestInv
  <1>7. QED
    BY <1>1, <1>2, <1>3, <1>4, <1>5, <1>6 DEF Next

LEMMA Invariance == Spec => []Inv
  BY InvInit, InvStep, PTL DEF Spec

(* Every reachable state is well formed, whatever the interleaving of the  *)
(* requests: levels never go negative and no time is out of range.         *)
THEOREM TypeCorrect == Spec => []TypeOK
  <1>1. Inv => TypeOK
    BY DEF Inv, StoreInv, RequestInv, BucketOK, TypeOK
  <1>2. QED
    BY <1>1, Invariance, PTL

LEMMA InvBoundsSweep == Inv => SweepLosesAtMostLag
  <1> SUFFICES ASSUME Inv, NEW k \in Replenished(clock)
               PROVE  Burst(Limit[k[1]]) - Level(k) <= MaxLag * Refill(Limit[k[1]])
    BY DEF SweepLosesAtMostLag
  <1> DEFINE limit == Limit[k[1]]
             R     == Refill(limit)
             b     == buckets[k]
  <1>1. k \in Tracked /\ b.fullAt <= clock
    BY DEF Replenished
  <1>2. /\ BucketOK(k, b)
        /\ k[1] \in LimitName
        /\ clock \in Nat
        /\ MaxLag \in Nat
    BY <1>1, TimingAssumption DEF Inv, StoreInv, RequestInv, Keys
  <1>3. R \in Nat /\ Burst(limit) \in Nat
    BY <1>2, LimitFacts
  <1>4. b.tokens \in Nat /\ b.seenAt \in Nat /\ b.fullAt \in Nat
    BY <1>2 DEF BucketOK, Bucket
  <1>5. Burst(limit) <= b.tokens + (b.fullAt + MaxLag - b.seenAt) * R
    BY <1>2 DEF BucketOK
  <1>6. (b.fullAt + MaxLag - b.seenAt) * R <= (clock + MaxLag - b.seenAt) * R
    BY <1>1, <1>2, <1>3, <1>4, ScaleMonotone
  <1>7. (clock + MaxLag - b.seenAt) * R = (clock - b.seenAt) * R + MaxLag * R
    BY <1>2, <1>3, <1>4
  <1>8. Burst(limit) <= b.tokens + (clock - b.seenAt) * R + MaxLag * R
    <2> DEFINE A == (b.fullAt + MaxLag - b.seenAt) * R
               B == (clock + MaxLag - b.seenAt) * R
               C == (clock - b.seenAt) * R
               D == MaxLag * R
    <2>1. A \in Int /\ B \in Int /\ C \in Int /\ D \in Int
      BY <1>2, <1>3, <1>4
    <2>2. Burst(limit) <= b.tokens + A /\ A <= B /\ B = C + D
      BY <1>5, <1>6, <1>7
    <2> HIDE DEF A, B, C, D
    <2>3. Burst(limit) <= b.tokens + C + D
      BY <1>3, <1>4, <2>1, <2>2
    <2>4. QED
      BY <2>3 DEF C, D
  <1>9. MaxLag * R \in Nat /\ (clock - b.seenAt) * R \in Int
    BY <1>2, <1>3, <1>4
  <1>10. Level(k) = Least(Burst(limit), b.tokens + (clock - b.seenAt) * R)
    BY <1>1 DEF Level
  <1> HIDE DEF R, b, limit
  <1>11. Burst(limit) - Level(k) <= MaxLag * R
    BY <1>3, <1>4, <1>8, <1>9, <1>10 DEF Least
  <1>12. QED
    BY <1>11 DEF R, limit

(* A bucket that a sweep may discard lacks at most what refills in MaxLag, *)
(* for every lag: with none, the sweep is lossless (memory.go sweep).      *)
THEOREM SweepLossBounded == Spec => []SweepLosesAtMostLag
  BY InvBoundsSweep, Invariance, PTL

-----------------------------------------------------------------------------
(* The cap: finitely many keys are tracked, and no more than MaxKeys.      *)
Capped == IsFiniteSet(Tracked) /\ Cardinality(Tracked) <= MaxKeys

LEMMA LowWaterBelowCap == LowWater \in Nat /\ LowWater < MaxKeys
  BY StoreAssumption DEF LowWater

(* Adding one key to a set below the cap stays within it.                  *)
LEMMA RoomForOne ==
  ASSUME NEW S, IsFiniteSet(S), Cardinality(S) < MaxKeys, NEW k
  PROVE  IsFiniteSet(S \cup {k}) /\ Cardinality(S \cup {k}) <= MaxKeys
  <1>1. Cardinality(S) \in Nat /\ MaxKeys \in Nat
    BY FS_CardinalityType, StoreAssumption
  <1>2. /\ IsFiniteSet(S \cup {k})
        /\ \/ Cardinality(S \cup {k}) = Cardinality(S)
           \/ Cardinality(S \cup {k}) = Cardinality(S) + 1
    BY FS_AddElement
  <1>3. QED
    BY <1>1, <1>2

(* makeRoom does make room.                                                *)
LEMMA MakeRoomBelowCap ==
  ASSUME NEW live, IsFiniteSet(live), NEW now, NEW kept \in MakeRoom(live, now)
  PROVE  IsFiniteSet(kept) /\ Cardinality(kept) < MaxKeys
  <1> DEFINE unswept == live \ Replenished(now)
  <1>1. CASE Cardinality(live) < MaxKeys
    BY <1>1 DEF MakeRoom
  <1>2. CASE ~(Cardinality(live) < MaxKeys) /\ Cardinality(unswept) < MaxKeys
    <2>1. kept = unswept
      BY <1>2 DEF MakeRoom
    <2>2. QED
      BY <1>2, <2>1, FS_Subset
  <1>3. CASE ~(Cardinality(live) < MaxKeys) /\ ~(Cardinality(unswept) < MaxKeys)
    <2>1. kept \in SUBSET unswept /\ Cardinality(kept) = LowWater
      BY <1>3 DEF MakeRoom, Evicted
    <2>2. IsFiniteSet(kept)
      BY <2>1, FS_Subset
    <2>3. QED
      BY <2>1, <2>2, LowWaterBelowCap
  <1>4. QED
    BY <1>1, <1>2, <1>3

LEMMA AllowKeepsCap ==
  ASSUME Capped, NEW key, NEW limit, NEW now, Allow(key, limit, now)
  PROVE  Capped'
  <1>1. CASE Refill(limit) = 0
    BY <1>1 DEF Allow, storeVars, Capped, Tracked
  <1>2. CASE Refill(limit) # 0
    <2> DEFINE live == Sweep(now)
    <2>1. live \subseteq Tracked
      BY DEF Sweep
    <2>2. /\ IsFiniteSet(live)
          /\ Cardinality(live) <= Cardinality(Tracked)
          /\ Cardinality(live) \in Nat
          /\ Cardinality(Tracked) \in Nat
      BY <2>1, FS_Subset, FS_CardinalityType DEF Capped
    <2>3. PICK kept \in IF key \in live THEN {live} ELSE MakeRoom(live, now) :
            Tracked' = kept \cup {key}
      BY <1>2 DEF Allow, Tracked
    <2>4. CASE key \in live
      <3>1. Tracked' = live
        BY <2>3, <2>4
      <3>2. MaxKeys \in Nat
        BY StoreAssumption
      <3> HIDE DEF live
      <3>3. QED
        BY <2>2, <3>1, <3>2 DEF Capped
    <2>5. CASE key \notin live
      <3>1. IsFiniteSet(kept) /\ Cardinality(kept) < MaxKeys
        BY <2>2, <2>3, <2>5, MakeRoomBelowCap
      <3>2. QED
        BY <2>3, <3>1, RoomForOne DEF Capped
    <2>6. QED
      BY <2>4, <2>5
  <1>3. QED
    BY <1>1, <1>2

LEMMA CapInvariance == Spec => []Capped
  <1>1. Init => Capped
    BY FS_EmptySet, StoreAssumption DEF Init, InitStore, Capped, Tracked
  <1>2. Capped /\ [Next]_vars => Capped'
    <2> SUFFICES ASSUME Capped, [Next]_vars PROVE Capped'
      OBVIOUS
    <2>1. CASE UNCHANGED storeVars
      BY <2>1 DEF storeVars, Capped, Tracked
    <2>2. ASSUME NEW r \in Request, Admit(r) \/ Refuse(r)
          PROVE  Capped'
      BY <2>2, AllowKeepsCap DEF Admit, Refuse
    <2>3. QED
      BY <2>1, <2>2 DEF Next, Tick, Arrive, ReadClock, vars, storeVars
  <1>3. QED
    BY <1>1, <1>2, PTL DEF Spec

(* The map never holds more than MaxKeys buckets, for every cap, number of *)
(* clients and interleaving (memory.go makeRoom).                          *)
THEOREM StoreBounded == Spec => []Bounded
  <1>1. Capped => Bounded
    BY DEF Capped, Bounded
  <1>2. QED
    BY <1>1, CapInvariance, PTL

-----------------------------------------------------------------------------
(***************************************************************************)
(* The allowances that the store's buckets stand for: who lowers one, what *)
(* eviction forgets, and when the store does as one that forgets nothing   *)
(* and is always judged by the present.                                    *)
(***************************************************************************)

(* A level that has been cut off at the burst refills to the same.         *)
LEMMA RefillTwice ==
  ASSUME NEW b \in Nat, NEW x \in Nat, NEW y \in Nat
  PROVE  Least(b, Least(b, x) + y) = Least(b, x + y)
  BY DEF Least

(* The refill of two spans is that of both together.                       *)
LEMMA RefillSpans ==
  ASSUME NEW n \in Nat, NEW a \in Int, NEW b \in Int, NEW c \in Int
  PROVE  (c - a) * n = (b - a) * n + (c - b) * n
  OBVIOUS

(* Whoever waits for the global limit, it is installed.                    *)
StageInv == \A r \in Request : stage[r] = "global" => GlobalEnabled

LEMMA StageInvariance == Spec => []StageInv
  <1>1. Init => StageInv
    BY DEF Init, StageInv
  <1>2. Inv /\ StageInv /\ [Next]_vars => StageInv'
    <2> SUFFICES ASSUME Inv, StageInv, [Next]_vars PROVE StageInv'
      OBVIOUS
    <2>1. stage \in [Request -> Stage]
      BY DEF Inv, RequestInv
    <2>2. CASE UNCHANGED stage
      BY <2>2 DEF StageInv
    <2>3. ASSUME NEW r \in Request, NEW s \in Stage, s = "global" => GlobalEnabled,
                 stage' = [stage EXCEPT ![r] = s]
          PROVE  StageInv'
      BY <2>1, <2>3 DEF StageInv, GlobalEnabled
    <2>4. ASSUME NEW r \in Request, NEW c \in Client, NEW rt \in Route, Arrive(r, c, rt)
          PROVE  StageInv'
      BY <2>3, <2>4, StagesAreStages DEF Arrive, Enter, FirstStage
    <2>5. ASSUME NEW r \in Request, Admit(r) PROVE StageInv'
      BY <2>3, <2>5, StagesAreStages DEF Admit, Enter, NextStage
    <2>6. ASSUME NEW r \in Request, Refuse(r) PROVE StageInv'
      BY <2>3, <2>6 DEF Refuse, Enter, Stage
    <2>7. QED
      BY <2>2, <2>4, <2>5, <2>6 DEF Next, Tick, ReadClock, requestVars, vars
  <1>3. QED
    BY <1>1, <1>2, Invariance, PTL DEF Spec

-----------------------------------------------------------------------------
(* An allowance is a number no larger than its burst.                      *)
LEMMA LevelFacts ==
  ASSUME Inv, NEW k \in Keys
  PROVE  Level(k) \in Nat /\ Level(k) <= Burst(Limit[k[1]])
  <1> DEFINE R == Refill(Limit[k[1]])
             B == Burst(Limit[k[1]])
  <1>1. R \in Nat /\ B \in Nat
    BY LimitFacts DEF Keys
  <1>2. CASE k \notin Tracked
    BY <1>1, <1>2 DEF Level
  <1>3. CASE k \in Tracked
    <2>1. /\ buckets[k].tokens \in Nat /\ buckets[k].seenAt \in Nat
          /\ buckets[k].seenAt <= clock /\ clock \in Nat
      BY <1>3 DEF Inv, StoreInv, RequestInv, BucketOK, Bucket
    <2>2. (clock - buckets[k].seenAt) * R \in Nat
      BY <1>1, <2>1
    <2>3. Level(k) = Least(B, buckets[k].tokens + (clock - buckets[k].seenAt) * R)
      BY <1>3 DEF Level
    <2> HIDE DEF R, B
    <2>4. Level(k) \in Nat /\ Level(k) <= B
      BY <1>1, <2>1, <2>2, <2>3 DEF Least
    <2>5. QED
      BY <2>4 DEF B
  <1>4. QED
    BY <1>2, <1>3

(* What Allow writes: the bucket it was asked for, and no other.           *)
LEMMA AllowWrites ==
  ASSUME NEW k, NEW now, Refill(Limit[k[1]]) # 0, Allow(k, Limit[k[1]], now)
  PROVE  /\ k \in Tracked' /\ Tracked' \subseteq Tracked \cup {k}
         /\ buckets'[k].tokens = Spent(Held(k, Limit[k[1]], now), Limit[k[1]])
         /\ buckets'[k].seenAt = Held(k, Limit[k[1]], now).seenAt
         /\ \A x \in Tracked' \ {k} : buckets'[x] = buckets[x]
  <1> DEFINE held == Held(k, Limit[k[1]], now)
             paid == [tokens |-> Spent(held, Limit[k[1]]),
                      seenAt |-> held.seenAt,
                      fullAt |-> now + ResetAfter(Spent(held, Limit[k[1]]), Limit[k[1]])]
  <1>1. PICK kept \in SUBSET Tracked :
          buckets' = [x \in kept \cup {k} |-> IF x = k THEN paid ELSE buckets[x]]
    BY DEF Allow, MakeRoom, Evicted, Sweep
  <1>2. Tracked' = kept \cup {k}
    BY <1>1 DEF Tracked
  <1> HIDE DEF paid
  <1>3. buckets'[k] = paid /\ \A x \in kept \ {k} : buckets'[x] = buckets[x]
    BY <1>1
  <1>4. QED
    BY <1>2, <1>3 DEF paid

(* A bucket that is swept or evicted becomes a full one; one that stays is *)
(* as it was.                                                              *)
LEMMA OthersNoLower ==
  ASSUME Inv, NEW k, NEW now, Allow(k, Limit[k[1]], now), clock' = clock,
         NEW x \in Keys, x # k
  PROVE  /\ Level(x)' >= Level(x)
         /\ x \in Tracked' \/ x \notin Tracked => Level(x)' = Level(x)
         /\ x \notin Tracked' => Level(x)' = Burst(Limit[x[1]])
  <1>1. Level(x) \in Nat /\ Level(x) <= Burst(Limit[x[1]]) /\ Burst(Limit[x[1]]) \in Nat
    BY LevelFacts, LimitFacts DEF Keys
  <1>2. CASE Refill(Limit[k[1]]) = 0
    <2>1. Level(x)' = Level(x)
      BY <1>2 DEF Allow, storeVars, Level, Tracked
    <2>2. Tracked' = Tracked
      BY <1>2 DEF Allow, storeVars, Tracked
    <2>3. QED
      BY <1>1, <2>1, <2>2 DEF Level
  <1>3. CASE Refill(Limit[k[1]]) # 0
    <2>1. /\ Tracked' \subseteq Tracked \cup {k}
          /\ \A y \in Tracked' \ {k} : buckets'[y] = buckets[y]
      BY <1>3, AllowWrites
    <2>2. CASE x \in Tracked'
      <3>1. x \in Tracked /\ buckets'[x] = buckets[x]
        BY <2>1, <2>2
      <3>2. Level(x)' = Level(x)
        BY <2>2, <3>1 DEF Level
      <3>3. QED
        BY <1>1, <2>2, <3>2
    <2>3. CASE x \notin Tracked'
      <3>1. Level(x)' = Burst(Limit[x[1]])
        BY <2>3 DEF Level
      <3>2. x \notin Tracked => Level(x) = Burst(Limit[x[1]])
        BY DEF Level
      <3>3. QED
        BY <1>1, <2>3, <3>1, <3>2
    <2>4. QED
      BY <2>2, <2>3
  <1>4. QED
    BY <1>2, <1>3

(* What Allow judges by is worth at least the allowance.                   *)
LEMMA HeldCoversLevel ==
  ASSUME Inv, NEW k \in Keys, NEW now \in Nat, now <= clock
  PROVE  LET limit == Limit[k[1]]
             held  == Held(k, limit, now)
         IN  /\ (clock - held.seenAt) * Refill(limit) \in Nat
             /\ Level(k) <= Least(Burst(limit),
                                  held.tokens + (clock - held.seenAt) * Refill(limit))
  <1> DEFINE limit == Limit[k[1]]
             held  == Held(k, limit, now)
             R     == Refill(limit)
             B     == Burst(limit)
             y     == (clock - held.seenAt) * R
             e     == buckets[k]
  <1>1. /\ held.tokens \in Nat /\ held.tokens <= B
        /\ held.seenAt \in Nat /\ held.seenAt <= clock
        /\ clock \in Nat
    BY HeldFacts DEF Inv, RequestInv
  <1>2. R \in Nat /\ B \in Nat /\ Level(k) <= B
    BY LimitFacts, LevelFacts DEF Keys
  <1>3. y \in Nat
    BY <1>1, <1>2
  <1>4. CASE k \notin Sweep(now)
    <2>1. held.tokens = B
      BY <1>4 DEF Held
    <2> HIDE DEF B, y, held
    <2>2. Least(B, held.tokens + y) = B
      BY <1>2, <1>3, <2>1 DEF Least
    <2>3. QED
      BY <1>2, <1>3, <2>2 DEF B, y, held
  <1>5. CASE k \in Sweep(now)
    <2>1. k \in Tracked
      BY <1>5 DEF Sweep
    <2>2. e.tokens \in Nat /\ e.seenAt \in Nat /\ e.tokens <= B
      BY <2>1 DEF Inv, StoreInv, BucketOK, Bucket
    <2>3. Level(k) = Least(B, e.tokens + (clock - e.seenAt) * R)
      BY <2>1 DEF Level
    <2>4. CASE now > e.seenAt
      <3> DEFINE x == (now - e.seenAt) * R
      <3>1. held.tokens = Least(B, e.tokens + x) /\ held.seenAt = now
        BY <1>5, <2>4 DEF Held
      <3>2. x \in Nat
        BY <1>2, <2>2, <2>4
      <3>3. (clock - e.seenAt) * R = x + y
        BY <1>1, <1>2, <2>2, <3>1, RefillSpans
      <3> HIDE DEF x, y, R, B, held, e
      <3>4. Least(B, Least(B, e.tokens + x) + y) = Least(B, (e.tokens + x) + y)
        <4>1. e.tokens + x \in Nat
          BY <2>2, <3>2
        <4>2. \A z \in Nat : Least(B, Least(B, z) + y) = Least(B, z + y)
          BY <1>2, <1>3, RefillTwice
        <4>3. QED
          BY <4>1, <4>2
      <3>5. Level(k) = Least(B, held.tokens + y)
        BY <1>3, <2>2, <2>3, <3>1, <3>2, <3>3, <3>4
      <3>6. Least(B, held.tokens + y) <= Least(B, held.tokens + y)
        BY <1>1, <1>2, <1>3 DEF Least
      <3>7. QED
        BY <1>3, <3>5, <3>6 DEF y, R, B, held
    <2>5. CASE ~(now > e.seenAt)
      <3>1. held.tokens = e.tokens /\ held.seenAt = e.seenAt
        BY <1>5, <2>5 DEF Held
      <3>2. Level(k) = Least(B, held.tokens + y)
        BY <2>3, <3>1
      <3> HIDE DEF y, R, B, held, e
      <3>3. Least(B, held.tokens + y) <= Least(B, held.tokens + y)
        BY <1>1, <1>2, <1>3 DEF Least
      <3>4. QED
        BY <1>3, <3>2, <3>3 DEF y, R, B, held
    <2>6. QED
      BY <2>4, <2>5
  <1>6. QED
    BY <1>4, <1>5

(* Allow takes one token, if one is there, and nothing else.               *)
LEMMA OwnLosesToken ==
  ASSUME Inv, NEW k \in Keys, NEW now \in Nat, now <= clock, clock' = clock,
         Refill(Limit[k[1]]) # 0, Allow(k, Limit[k[1]], now)
  PROVE  LET limit == Limit[k[1]] IN
         IF Allowed(k, limit, now) THEN Level(k)' >= Level(k) - Token(limit)
         ELSE Level(k)' >= Level(k)
  <1> DEFINE limit == Limit[k[1]]
             held  == Held(k, limit, now)
             left  == Spent(held, limit)
             T     == Token(limit)
             B     == Burst(limit)
             y     == (clock - held.seenAt) * Refill(limit)
  <1>1. /\ held.tokens \in Nat /\ T \in Nat /\ B \in Nat /\ Level(k) \in Nat
        /\ Refill(limit) > 0
    BY HeldFacts, LimitFacts, LevelFacts DEF Inv, RequestInv, Keys
  <1>2. y \in Nat /\ Level(k) <= Least(B, held.tokens + y)
    BY HeldCoversLevel
  <1>3. Level(k)' = Least(B, left + y)
    <2>1. k \in Tracked' /\ buckets'[k].tokens = left /\ buckets'[k].seenAt = held.seenAt
      BY AllowWrites
    <2>2. QED
      BY <2>1 DEF Level
  <1>4. Allowed(k, limit, now) <=> held.tokens >= T
    BY <1>1 DEF Allowed
  <1>5. left = IF held.tokens >= T THEN held.tokens - T ELSE held.tokens
    BY DEF Spent
  <1> HIDE DEF held, left, T, B, y
  <1>6. IF held.tokens >= T THEN Level(k)' >= Level(k) - T ELSE Level(k)' >= Level(k)
    BY <1>1, <1>2, <1>3, <1>5 DEF Least
  <1>7. QED
    BY <1>4, <1>6 DEF T

-----------------------------------------------------------------------------
(* The facts about a pending request that its decision rests on.           *)
LEMMA PendingFacts ==
  ASSUME Inv, StageInv, NEW r \in Request, Pending(r)
  PROVE  /\ Asked(r) \in Keys /\ Asked(r)[1] = stage[r]
         /\ stamp[r] \in Nat /\ stamp[r] <= clock /\ clock <= stamp[r] + MaxLag
         /\ Refill(Limit[stage[r]]) # 0
  <1>1. /\ stage[r] \in LimitName /\ caller[r] \in Client
        /\ stamp[r] \in Nat /\ stamp[r] <= clock /\ clock <= stamp[r] + MaxLag
    BY DEF Inv, RequestInv, Pending
  <1>2. Refill(Limit[stage[r]]) # 0
    BY <1>1, LimitAssumption DEF StageInv, GlobalEnabled, LimitName, Refill
  <1>3. QED
    BY <1>1, <1>2 DEF Asked, Key, Keys

(* Time only raises an allowance, by no more than a tick's refill.         *)
LEMMA TickRefills ==
  ASSUME Inv, Tick, NEW k \in Keys
  PROVE  Level(k)' = Least(Burst(Limit[k[1]]), Level(k) + Refill(Limit[k[1]]))
  <1> DEFINE B == Burst(Limit[k[1]])
             R == Refill(Limit[k[1]])
             b == buckets[k]
  <1>1. B \in Nat /\ R \in Nat /\ clock \in Nat
    BY LimitFacts DEF Keys, Inv, RequestInv
  <1>2. clock' = clock + 1 /\ buckets' = buckets
    BY DEF Tick, storeVars
  <1>3. CASE k \notin Tracked
    <2>1. Level(k) = B /\ Level(k)' = B
      BY <1>2, <1>3 DEF Level, Tracked
    <2>2. QED
      BY <1>1, <2>1 DEF Least
  <1>4. CASE k \in Tracked
    <2> DEFINE x == (clock - b.seenAt) * R
    <2>1. /\ b.tokens \in Nat /\ b.seenAt \in Nat /\ b.seenAt <= clock
      BY <1>4 DEF Inv, StoreInv, BucketOK, Bucket
    <2>2. x \in Nat
      BY <1>1, <2>1
    <2>3. (clock' - b.seenAt) * R = x + R
      <3>1. (clock + 1 - b.seenAt) * R = (clock - b.seenAt) * R + (clock + 1 - clock) * R
        BY <1>1, <2>1, RefillSpans
      <3>2. (clock + 1 - clock) * R = R
        BY <1>1
      <3>3. ((clock + 1) - b.seenAt) * R = x + R
        BY <1>1, <2>1, <3>1, <3>2
      <3>4. QED
        BY <1>2, <3>3
    <2>4. Level(k) = Least(B, b.tokens + x) /\ Level(k)' = Least(B, b.tokens + (x + R))
      BY <1>2, <1>4, <2>3 DEF Level, Tracked
    <2> HIDE DEF B, R, x, b
    <2>5. Level(k)' = Least(B, Level(k) + R)
      BY <1>1, <2>1, <2>2, <2>4 DEF Least
    <2>6. QED
      BY <2>5 DEF B, R
  <1>5. QED
    BY <1>3, <1>4

(* Only the admission of a request on a key lowers its allowance, by one   *)
(* token: for every lag, whatever is swept or evicted (memory.go Allow).   *)
THEOREM SpendingIsAdmission == Spec => OnlyAdmissionsSpend
  <1> DEFINE Fair(k) ==
        \/ Level(k)' >= Level(k)
        \/ /\ Level(k)' >= Level(k) - Token(Limit[k[1]])
           /\ \E r \in Request :
                /\ Asked(r) = k
                /\ stage'[r] = NextStage(stage[r], route[r])
  <1>1. Inv /\ StageInv /\ [Next]_vars => [\A k \in Keys : Fair(k)]_vars
    <2> SUFFICES ASSUME Inv, StageInv, Next, NEW k \in Keys PROVE Fair(k)
      OBVIOUS
    <2>0. Level(k) \in Nat /\ Level(k) <= Burst(Limit[k[1]]) /\ Burst(Limit[k[1]]) \in Nat
          /\ Refill(Limit[k[1]]) \in Nat
      BY LevelFacts, LimitFacts DEF Keys
    <2>1. CASE Tick
      <3>1. Level(k)' = Least(Burst(Limit[k[1]]), Level(k) + Refill(Limit[k[1]]))
        BY <2>1, TickRefills
      <3>2. QED
        BY <2>0, <3>1 DEF Least
    <2>2. CASE UNCHANGED <<storeVars, clock>>
      <3>1. Level(k)' = Level(k)
        BY <2>2 DEF storeVars, Level, Tracked
      <3>2. QED
        BY <2>0, <3>1
    <2>3. ASSUME NEW r \in Request, Admit(r) \/ Refuse(r) PROVE Fair(k)
      <3>1. /\ Pending(r) /\ Allow(Asked(r), Limit[stage[r]], stamp[r]) /\ clock' = clock
            /\ Enter(r, IF Admit(r) THEN NextStage(stage[r], route[r]) ELSE "throttled",
                     caller[r], route[r])
        BY <2>3 DEF Admit, Refuse
      <3>2. /\ Asked(r) \in Keys /\ Asked(r)[1] = stage[r]
            /\ stamp[r] \in Nat /\ stamp[r] <= clock /\ Refill(Limit[stage[r]]) # 0
        BY <3>1, PendingFacts
      <3>3. CASE k # Asked(r)
        BY <3>1, <3>2, <3>3, OthersNoLower
      <3>4. CASE k = Asked(r) /\ ~Passes(r)
        BY <2>0, <3>1, <3>2, <3>4, OwnLosesToken DEF Passes
      <3>5. CASE k = Asked(r) /\ Passes(r)
        <4>1. Level(k)' >= Level(k) - Token(Limit[k[1]])
          BY <3>1, <3>2, <3>5, OwnLosesToken DEF Passes
        <4>2. Admit(r)
          BY <2>3, <3>5 DEF Refuse
        <4>3. stage'[r] = NextStage(stage[r], route[r])
          BY <4>2 DEF Admit, Enter, Inv, RequestInv
        <4>4. QED
          BY <3>5, <4>1, <4>3
      <3>6. QED
        BY <3>3, <3>4, <3>5
    <2>4. QED
      BY <2>1, <2>2, <2>3 DEF Next, Arrive, ReadClock
  <1>2. QED
    BY <1>1, Invariance, StageInvariance, PTL DEF Spec, OnlyAdmissionsSpend

-----------------------------------------------------------------------------
(* What Allow lets go: what it takes for replenished, and what is evicted, *)
(* seen no later than a low-water mark of others that stay.                *)
LEMMA AllowForgets ==
  ASSUME Capped, NEW k, NEW limit, NEW now, Allow(k, limit, now),
         NEW x \in Tracked \ Tracked', x \notin Replenished(now)
  PROVE  LowWater <= Cardinality({o \in Tracked \cap Tracked' :
                                    buckets[o].seenAt >= buckets[x].seenAt})
  <1> DEFINE live    == Sweep(now)
             unswept == live \ Replenished(now)
             Younger == {o \in Tracked \cap Tracked' :
                           buckets[o].seenAt >= buckets[x].seenAt}
  <1>1. Refill(limit) # 0
    BY DEF Allow, storeVars, Tracked
  <1>2. PICK kept \in IF k \in live THEN {live} ELSE MakeRoom(live, now) :
          Tracked' = kept \cup {k}
    BY <1>1 DEF Allow, Tracked
  <1>3. x \in live /\ x \in unswept /\ x \notin kept /\ unswept \subseteq Tracked
    BY <1>2 DEF Sweep
  <1>4. kept \in Evicted(unswept)
    BY <1>2, <1>3 DEF MakeRoom
  <1>5. /\ kept \subseteq unswept /\ Cardinality(kept) = LowWater
        /\ \A o \in kept : buckets[x].seenAt <= buckets[o].seenAt
    BY <1>3, <1>4 DEF Evicted
  <1>6. kept \subseteq Younger /\ Younger \subseteq Tracked
    <2>1. ASSUME NEW o \in kept PROVE buckets[o].seenAt >= buckets[x].seenAt
      BY <1>5, <2>1
    <2>2. QED
      BY <1>2, <1>3, <1>5, <2>1
  <1>7. IsFiniteSet(Younger)
    BY <1>6, FS_Subset DEF Capped
  <1>8. Cardinality(kept) <= Cardinality(Younger)
    BY <1>6, <1>7, FS_Subset
  <1>9. QED
    BY <1>5, <1>8

(* Eviction drops a bucket that lacks tokens only for others seen no       *)
(* earlier, of which at least the low-water mark stays (makeRoom).         *)
THEOREM EvictionForgetsStalest == Spec => ForgetsOnlyTheStalest
  <1> DEFINE Stale(k) ==
        \/ \E r \in Request : Pending(r) /\ k \in Replenished(stamp[r])
        \/ Cardinality({o \in Tracked \cap DOMAIN buckets' :
                          buckets[o].seenAt >= buckets[k].seenAt}) >= LowWater
  <1>1. Capped /\ [Next]_vars => [\A k \in Tracked \ DOMAIN buckets' : Stale(k)]_vars
    <2> SUFFICES ASSUME Capped, Next, NEW k \in Tracked \ DOMAIN buckets' PROVE Stale(k)
      OBVIOUS
    <2>1. CASE UNCHANGED storeVars
      BY <2>1 DEF storeVars, Tracked
    <2>2. ASSUME NEW r \in Request, Admit(r) \/ Refuse(r) PROVE Stale(k)
      <3>1. Pending(r) /\ Allow(Asked(r), Limit[stage[r]], stamp[r])
        BY <2>2 DEF Admit, Refuse
      <3>2. CASE k \in Replenished(stamp[r])
        BY <3>1, <3>2
      <3>3. CASE k \notin Replenished(stamp[r])
        <4> DEFINE n == Cardinality({o \in Tracked \cap DOMAIN buckets' :
                                       buckets[o].seenAt >= buckets[k].seenAt})
        <4>1. LowWater <= n
          BY <3>1, <3>3, AllowForgets DEF Tracked
        <4>2. n >= LowWater
          BY <4>1
        <4>3. QED
          BY <4>2
      <3>4. QED
        BY <3>2, <3>3
    <2>3. QED
      BY <2>1, <2>2 DEF Next, Tick, Arrive, ReadClock
  <1>2. QED
    BY <1>1, CapInvariance, PTL DEF Spec, ForgetsOnlyTheStalest

-----------------------------------------------------------------------------
(* With no lag and room for every key the store forgets nothing and judges *)
(* by the present.                                                         *)
Punctual == MaxLag = 0
Roomy == IsFiniteSet(Keys) /\ Cardinality(Keys) <= MaxKeys

(* No bucket is lost but one that is as good as none.                      *)
LEMMA NothingForgotten ==
  ASSUME Roomy, Inv, NEW k \in Keys, NEW limit, NEW now, Allow(k, limit, now),
         NEW x \in Tracked \ Tracked'
  PROVE  x \in Replenished(now)
  <1> DEFINE live == Sweep(now)
  <1>1. Refill(limit) # 0
    BY DEF Allow, storeVars, Tracked
  <1>2. PICK kept \in IF k \in live THEN {live} ELSE MakeRoom(live, now) :
          Tracked' = kept \cup {k}
    BY <1>1 DEF Allow, Tracked
  <1>3. kept = live
    <2>1. CASE k \in live
      BY <1>2, <2>1
    <2>2. CASE k \notin live
      <3>1. live \subseteq Keys /\ live # Keys
        BY <2>2 DEF Inv, StoreInv, Sweep
      <3>2. /\ IsFiniteSet(live) /\ Cardinality(live) <= Cardinality(Keys)
            /\ Cardinality(live) # Cardinality(Keys)
        BY <3>1, FS_Subset DEF Roomy
      <3>3. Cardinality(live) \in Nat /\ Cardinality(Keys) \in Nat /\ MaxKeys \in Nat
        BY <3>2, FS_CardinalityType, StoreAssumption DEF Roomy
      <3> HIDE DEF live
      <3>4. Cardinality(live) < MaxKeys
        BY <3>2, <3>3 DEF Roomy
      <3>5. QED
        BY <1>2, <2>2, <3>4 DEF MakeRoom
    <2>3. QED
      BY <2>1, <2>2
  <1>4. QED
    BY <1>2, <1>3 DEF Sweep

(* Allow judges by the allowance itself.                                   *)
LEMMA HeldIsLevel ==
  ASSUME Punctual, Inv, NEW k \in Keys
  PROVE  /\ Held(k, Limit[k[1]], clock).tokens = Level(k)
         /\ Held(k, Limit[k[1]], clock).seenAt = clock
  <1> DEFINE B == Burst(Limit[k[1]])
             R == Refill(Limit[k[1]])
             e == buckets[k]
  <1>1. B \in Nat /\ R \in Nat /\ clock \in Nat /\ Level(k) \in Nat /\ Level(k) <= B
    BY LimitFacts, LevelFacts DEF Keys, Inv, RequestInv
  <1>2. CASE k \notin Sweep(clock)
    <2>1. Level(k) = B
      <3>1. CASE k \notin Tracked
        BY <3>1 DEF Level
      <3>2. CASE k \in Tracked
        <4>1. k \in Replenished(clock)
          BY <1>2, <3>2 DEF Sweep
        <4>2. B - Level(k) <= 0 * R
          BY <4>1, InvBoundsSweep DEF SweepLosesAtMostLag, Punctual
        <4>3. QED
          BY <1>1, <4>2
      <3>3. QED
        BY <3>1, <3>2
    <2>2. QED
      BY <1>2, <2>1 DEF Held
  <1>3. CASE k \in Sweep(clock)
    <2>1. /\ k \in Tracked /\ e.tokens \in Nat /\ e.tokens <= B
          /\ e.seenAt \in Nat /\ e.seenAt <= clock
      BY <1>3 DEF Sweep, Inv, StoreInv, BucketOK, Bucket
    <2>2. Level(k) = Least(B, e.tokens + (clock - e.seenAt) * R)
      BY <2>1 DEF Level
    <2>3. CASE clock > e.seenAt
      BY <1>3, <2>2, <2>3 DEF Held
    <2>4. CASE clock = e.seenAt
      <3>1. Held(k, Limit[k[1]], clock) = [tokens |-> e.tokens, seenAt |-> e.seenAt]
        BY <1>1, <1>3, <2>4 DEF Held
      <3>2. Level(k) = e.tokens
        <4>1. (clock - e.seenAt) * R = 0
          BY <1>1, <2>4
        <4>2. Level(k) = Least(B, e.tokens + 0)
          BY <2>2, <4>1
        <4> HIDE DEF B, e
        <4>3. QED
          BY <1>1, <2>1, <4>2 DEF Least
      <3>3. QED
        BY <2>4, <3>1, <3>2
    <2>5. QED
      BY <1>1, <2>1, <2>3, <2>4
  <1>4. QED
    BY <1>2, <1>3

(* Allow spends from the allowance it was asked for and leaves the others. *)
LEMMA AllowIsExact ==
  ASSUME Punctual, Roomy, Inv, NEW k \in Keys, clock' = clock,
         Refill(Limit[k[1]]) # 0, Allow(k, Limit[k[1]], clock), NEW x \in Keys
  PROVE  Level(x)' = IF x = k /\ Level(k) >= Token(Limit[k[1]])
                     THEN Level(k) - Token(Limit[k[1]]) ELSE Level(x)
  <1> DEFINE B == Burst(Limit[x[1]])
  <1>1. Level(x) \in Nat /\ Level(x) <= B /\ B \in Nat
        /\ Token(Limit[x[1]]) \in Nat /\ Refill(Limit[x[1]]) \in Nat
        /\ clock \in Nat
    BY LevelFacts, LimitFacts DEF Keys, Inv, RequestInv
  <1>2. CASE x # k
    <2>1. CASE x \in Tracked' \/ x \notin Tracked
      BY <1>2, <2>1, OthersNoLower
    <2>2. CASE x \in Tracked \ Tracked'
      <3>1. x \in Replenished(clock)
        BY <2>2, NothingForgotten
      <3>2. B - Level(x) <= 0 * Refill(Limit[x[1]])
        BY <3>1, InvBoundsSweep DEF SweepLosesAtMostLag, Punctual
      <3>3. Level(x)' = B
        BY <1>2, <2>2, OthersNoLower
      <3>4. QED
        BY <1>1, <1>2, <3>2, <3>3
    <2>3. QED
      BY <2>1, <2>2
  <1>3. CASE x = k
    <2> DEFINE left == Spent(Held(k, Limit[k[1]], clock), Limit[k[1]])
    <2>1. left = IF Level(k) >= Token(Limit[k[1]]) THEN Level(k) - Token(Limit[k[1]]) ELSE Level(k)
      BY HeldIsLevel DEF Spent
    <2>2. Level(k)' = Least(B, left + (clock - clock) * Refill(Limit[k[1]]))
      <3>1. k \in Tracked' /\ buckets'[k].tokens = left /\ buckets'[k].seenAt = clock
        BY AllowWrites, HeldIsLevel
      <3>2. QED
        BY <1>3, <3>1 DEF Level
    <2>3. (clock - clock) * Refill(Limit[k[1]]) = 0
      BY <1>1, <1>3
    <2> HIDE DEF left, B
    <2>4. Level(k)' = left
      BY <1>1, <1>3, <2>1, <2>2, <2>3 DEF Least
    <2>5. QED
      BY <1>3, <2>1, <2>4
  <1>4. QED
    BY <1>2, <1>3

-----------------------------------------------------------------------------
(* The refinement: initial states map to initial states, each step to a    *)
(* step of the ideal throttle or to none.                                  *)
Levels == [k \in Keys |-> Level(k)]

LEMMA InitRefines == Init => Ideal!IdealInit
  <1> SUFFICES ASSUME Init PROVE Ideal!IdealInit
    OBVIOUS
  <1>1. \A k \in Keys : Level(k) = Burst(Limit[k[1]])
    BY DEF Init, InitStore, Level, Tracked
  <1>2. QED
    BY <1>1 DEF Init, NoCaller, Ideal!IdealInit, Ideal!Full, Ideal!Keys, Keys,
         Ideal!LimitName, LimitName, Ideal!Burst, Burst

LEMMA EnterIsMove ==
  ASSUME NEW r, NEW s, NEW c, NEW rt, Enter(r, s, c, rt)
  PROVE  Ideal!Move(r, s, c, rt)
  BY DEF Enter, Ideal!Move, NoCaller, LimitName, Ideal!LimitName

LEMMA TickRefines == ASSUME Inv, Tick PROVE Ideal!Elapse
  <1>1. \A k \in Keys :
          Level(k)' = Least(Burst(Limit[k[1]]), Level(k) + Refill(Limit[k[1]]))
    BY TickRefills
  <1>2. Levels' = [k \in Keys |-> Least(Burst(Limit[k[1]]), Levels[k] + Refill(Limit[k[1]]))]
    BY <1>1 DEF Levels
  <1>3. QED
    BY <1>2 DEF Tick, requestVars, Levels, Ideal!Elapse, Ideal!Keys, Keys, Ideal!LimitName,
         LimitName, Ideal!Burst, Burst, Ideal!Refill, Refill, Ideal!Least, Least

LEMMA ArriveRefines ==
  ASSUME NEW r \in Request, NEW c \in Client, NEW rt \in Route, Arrive(r, c, rt)
  PROVE  Ideal!Ask(r, c, rt)
  <1>1. Levels' = Levels
    BY DEF Arrive, storeVars, Levels, Level, Tracked
  <1>2. Ideal!Move(r, FirstStage(rt), c, rt)
    BY EnterIsMove DEF Arrive
  <1>3. QED
    BY <1>1, <1>2 DEF Arrive, Levels, Ideal!Ask, Ideal!FirstLimit, FirstStage, LimitName,
         Ideal!LimitName, GlobalEnabled, Ideal!GlobalEnabled

(* With no lag the stamp of whoever decides is the present.                *)
LEMMA DecideFacts ==
  ASSUME Punctual, Roomy, Inv, StageInv, NEW r \in Request, Pending(r),
         Allow(Asked(r), Limit[stage[r]], stamp[r]), clock' = clock
  PROVE  /\ stage[r] \in LimitName /\ Asked(r) \in Keys
         /\ Passes(r) <=> Levels[Asked(r)] >= Token(Limit[stage[r]])
         /\ Levels' = IF Passes(r)
                      THEN [Levels EXCEPT ![Asked(r)] = @ - Token(Limit[stage[r]])]
                      ELSE Levels
  <1>1. /\ Asked(r) \in Keys /\ Asked(r)[1] = stage[r]
        /\ stamp[r] = clock /\ Refill(Limit[stage[r]]) # 0
    <2>1. clock \in Nat
      BY DEF Inv, RequestInv
    <2>2. QED
      BY <2>1, PendingFacts DEF Punctual
  <1>2. PICK k \in Keys : k = Asked(r)
    BY <1>1
  <1>3. Refill(Limit[k[1]]) \in Nat /\ Level(k) \in Nat /\ Token(Limit[k[1]]) \in Nat
    BY LimitFacts, LevelFacts DEF Keys
  <1>4. Passes(r) <=> Level(k) >= Token(Limit[k[1]])
    <2>1. Held(k, Limit[k[1]], clock).tokens = Level(k)
      BY HeldIsLevel
    <2>2. QED
      BY <1>1, <1>2, <1>3, <2>1 DEF Passes, Allowed
  <1>5. ASSUME NEW x \in Keys
        PROVE  Level(x)' = IF x = k /\ Passes(r) THEN Level(k) - Token(Limit[k[1]])
                           ELSE Level(x)
    BY <1>1, <1>2, <1>4, AllowIsExact
  <1>6. Levels' = IF Passes(r) THEN [Levels EXCEPT ![k] = @ - Token(Limit[k[1]])] ELSE Levels
    BY <1>5 DEF Levels
  <1>7. QED
    BY <1>1, <1>2, <1>4, <1>6 DEF Levels, Pending

LEMMA AdmitRefines ==
  ASSUME Punctual, Roomy, Inv, StageInv, NEW r \in Request, Admit(r)
  PROVE  Ideal!Pay(r)
  <1>1. /\ Ideal!Move(r, NextStage(stage[r], route[r]), caller[r], route[r])
        /\ Pending(r) /\ Passes(r) /\ clock' = clock
        /\ Allow(Asked(r), Limit[stage[r]], stamp[r])
    BY EnterIsMove DEF Admit
  <1>2. /\ stage[r] \in LimitName
        /\ Levels[Asked(r)] >= Token(Limit[stage[r]])
        /\ Levels' = [Levels EXCEPT ![Asked(r)] = @ - Token(Limit[stage[r]])]
    BY <1>1, DecideFacts
  <1>3. QED
    BY <1>1, <1>2 DEF Levels, Ideal!Pay, Ideal!NextLimit, NextStage, LimitName, Ideal!LimitName,
         Asked, Key, Ideal!Key, Token, Ideal!Token, Ideal!Keys, Keys

LEMMA RefuseRefines ==
  ASSUME Punctual, Roomy, Inv, StageInv, NEW r \in Request, Refuse(r)
  PROVE  Ideal!TurnAway(r)
  <1>1. /\ Ideal!Move(r, "throttled", caller[r], route[r])
        /\ Pending(r) /\ ~Passes(r) /\ clock' = clock
        /\ Allow(Asked(r), Limit[stage[r]], stamp[r])
    BY EnterIsMove DEF Refuse
  <1>2. /\ stage[r] \in LimitName /\ Asked(r) \in Keys
        /\ ~(Levels[Asked(r)] >= Token(Limit[stage[r]]))
        /\ Levels' = Levels
    BY <1>1, DecideFacts
  <1>3. Levels[Asked(r)] \in Nat /\ Token(Limit[stage[r]]) \in Nat
    BY <1>2, LevelFacts, LimitFacts DEF Levels
  <1>4. Levels[Asked(r)] < Token(Limit[stage[r]])
    BY <1>2, <1>3
  <1>5. QED
    BY <1>1, <1>2, <1>4 DEF Levels, Ideal!TurnAway, LimitName, Ideal!LimitName,
         Asked, Key, Ideal!Key, Token, Ideal!Token

LEMMA StepRefines ==
  ASSUME Punctual, Roomy, Inv, StageInv, [Next]_vars
  PROVE  [Ideal!IdealNext]_Ideal!idealVars
  <1>1. CASE Tick
    BY <1>1, TickRefines DEF Ideal!IdealNext
  <1>2. ASSUME NEW r \in Request, NEW c \in Client, NEW rt \in Route, Arrive(r, c, rt)
        PROVE  Ideal!IdealNext
    BY <1>2, ArriveRefines DEF Ideal!IdealNext, Route
  <1>3. ASSUME NEW r \in Request, Admit(r) PROVE Ideal!IdealNext
    BY <1>3, AdmitRefines DEF Ideal!IdealNext
  <1>4. ASSUME NEW r \in Request, Refuse(r) PROVE Ideal!IdealNext
    BY <1>4, RefuseRefines DEF Ideal!IdealNext
  <1>5. CASE UNCHANGED <<storeVars, clock, requestVars>>
    BY <1>5 DEF storeVars, requestVars, Ideal!idealVars, Level, Tracked
  <1>6. QED
    BY <1>1, <1>2, <1>3, <1>4, <1>5 DEF Next, ReadClock, vars, storeVars, requestVars

(* With stamps decided in order and room for every key the throttle is the *)
(* ideal one, for any clients, requests and limits: its sweeps, its lazy   *)
(* refills and its clock are invisible (Allow, sweep).                     *)
THEOREM RefinesIdeal ==
  ASSUME Punctual, Roomy
  PROVE  Spec => ImplementsIdeal
  <1>1. Inv /\ StageInv /\ [Next]_vars => [Ideal!IdealNext]_Ideal!idealVars
    BY StepRefines
  <1>2. QED
    BY <1>1, InitRefines, Invariance, StageInvariance, PTL
    DEF Spec, ImplementsIdeal, Ideal!IdealSpec

-----------------------------------------------------------------------------
(***************************************************************************)
(* Whether a Retry-After header is kept.                                   *)
(***************************************************************************)

(* The header keeps nothing from the throttle.                             *)
LEMMA HeaderRefines == HeaderSpec => Spec
  <1>1. HeaderInit => Init
    BY DEF HeaderInit
  <1>2. [HeaderNext]_headerVars => [Next]_vars
    BY DEF HeaderNext, Next, headerVars
  <1>3. QED
    BY <1>1, <1>2, PTL DEF HeaderSpec, Spec

-----------------------------------------------------------------------------
(* Who asks at time p or later finds a token in such a bucket.             *)
Ripe(limit, tokens, seenAt, p) ==
  IF p > seenAt THEN tokens + (p - seenAt) * Refill(limit) >= Token(limit)
  ELSE tokens >= Token(limit)

PromiseInv ==
  /\ promise \in [Keys -> Nat \cup {NoTime}]
  /\ \A k \in Keys : promise[k] # NoTime =>
       /\ Refill(Limit[k[1]]) # 0
       /\ k \in Tracked => Ripe(Limit[k[1]], buckets[k].tokens, buckets[k].seenAt, promise[k])

(* A whole burst is a token at least.                                      *)
LEMMA BurstIsToken ==
  ASSUME NEW name \in LimitName, Refill(Limit[name]) # 0
  PROVE  Burst(Limit[name]) >= Token(Limit[name])
  <1> DEFINE R == Refill(Limit[name])
             T == Token(Limit[name])
  <1>1. R \in Nat /\ R >= 1 /\ T \in Nat /\ Burst(Limit[name]) = R * T
    BY LimitFacts
  <1> HIDE DEF R, T
  <1>2. 1 * T <= R * T
    BY <1>1, ScaleMonotone
  <1>3. Burst(Limit[name]) >= T
    BY <1>1, <1>2
  <1>4. QED
    BY <1>3 DEF T

(* A refill at time now leaves a bucket as ripe as it was, unless it holds *)
(* a token by then; and whoever comes late enough finds one.               *)
LEMMA HeldStaysRipe ==
  ASSUME Inv, NEW k \in Keys, NEW now \in Nat, now <= clock, NEW p \in Nat,
         Refill(Limit[k[1]]) # 0,
         k \in Tracked => Ripe(Limit[k[1]], buckets[k].tokens, buckets[k].seenAt, p)
  PROVE  LET held == Held(k, Limit[k[1]], now) IN
         \/ held.tokens >= Token(Limit[k[1]])
         \/ now < p /\ Ripe(Limit[k[1]], held.tokens, held.seenAt, p)
  <1> DEFINE limit == Limit[k[1]]
             B == Burst(limit)
             R == Refill(limit)
             T == Token(limit)
             held == Held(k, limit, now)
             t == buckets[k].tokens
             s == buckets[k].seenAt
  <1>1. B \in Nat /\ R \in Nat /\ T \in Nat /\ B >= T
    BY LimitFacts, BurstIsToken DEF Keys
  <1>2. CASE k \notin Sweep(now)
    BY <1>1, <1>2 DEF Held
  <1>3. CASE k \in Sweep(now)
    <2>1. k \in Tracked /\ t \in Nat /\ s \in Nat /\ Ripe(limit, t, s, p)
      BY <1>3 DEF Sweep, Inv, StoreInv, BucketOK, Bucket
    <2>2. CASE now > s
      <3> DEFINE x == (now - s) * R
                 y == (p - now) * R
                 z == (p - s) * R
      <3>1. held.tokens = Least(B, t + x) /\ held.seenAt = now
        BY <1>3, <2>2 DEF Held
      <3>2. x \in Nat /\ y \in Int /\ z \in Int /\ z = x + y
        BY <1>1, <2>1, <2>2, RefillSpans
      <3>3. IF p > s THEN t + z >= T ELSE t >= T
        BY <2>1 DEF Ripe
      <3>4. CASE p <= now
        <4>1. y <= 0
          <5>1. y <= 0 * R
            BY <1>1, <3>4, ScaleMonotone
          <5>2. QED
            BY <1>1, <5>1
        <4> HIDE DEF x, y, z, B, T, t, held
        <4>2. t + x >= T
          BY <1>1, <2>1, <3>2, <3>3, <4>1 DEF t
        <4>3. held.tokens >= T
          BY <1>1, <2>1, <3>1, <3>2, <4>2 DEF Least
        <4>4. QED
          BY <4>3 DEF held, T
      <3>5. CASE p > now
        <4>1. p > s
          BY <2>1, <2>2, <3>5
        <4>2. Ripe(limit, held.tokens, held.seenAt, p) <=> held.tokens + y >= T
          BY <3>1, <3>5 DEF Ripe
        <4> HIDE DEF x, y, z, B, T, t, held, limit
        <4>3. held.tokens >= T \/ held.tokens + y >= T
          BY <1>1, <2>1, <3>1, <3>2, <3>3, <4>1 DEF Least
        <4>4. QED
          BY <3>5, <4>2, <4>3 DEF held, T, limit
      <3>6. QED
        BY <3>4, <3>5
    <2>3. CASE ~(now > s)
      <3>1. held.tokens = t /\ held.seenAt = s
        BY <1>3, <2>3 DEF Held
      <3>2. CASE p > s
        BY <2>1, <2>3, <3>1, <3>2
      <3>3. CASE ~(p > s)
        BY <2>1, <3>1, <3>3 DEF Ripe
      <3>4. QED
        BY <3>2, <3>3
    <2>4. QED
      BY <2>2, <2>3
  <1>4. QED
    BY <1>2, <1>3

(* The time a refusal names is one at which the bucket is ripe.            *)
LEMMA ReturnIsRipe ==
  ASSUME Inv, StageInv, NEW r \in Request, Pending(r), ~Passes(r)
  PROVE  LET limit == Limit[stage[r]]
             held  == Held(Asked(r), limit, stamp[r])
         IN  ReturnAt(r) \in Nat /\ Ripe(limit, held.tokens, held.seenAt, ReturnAt(r))
  <1> DEFINE limit == Limit[stage[r]]
             held  == Held(Asked(r), limit, stamp[r])
             R     == Refill(limit)
             T     == Token(limit)
             wait  == CeilDiv(T - held.tokens, R)
             p     == ReturnAt(r)
  <1>1. /\ Asked(r) \in Keys /\ Asked(r)[1] = stage[r] /\ stage[r] \in LimitName
        /\ stamp[r] \in Nat /\ stamp[r] <= clock /\ R # 0 /\ clock \in Nat
    BY PendingFacts DEF Inv, RequestInv, Pending
  <1>2. R \in Nat \ {0} /\ T \in Nat
    BY <1>1, LimitFacts
  <1>3. held.tokens \in Nat /\ held.seenAt \in Nat /\ held.seenAt <= clock
    BY <1>1, HeldFacts DEF Inv
  <1>4. held.tokens < T
    BY <1>1, <1>2, <1>3 DEF Passes, Allowed
  <1>5. wait \in Nat /\ T - held.tokens <= wait * R
    BY <1>2, <1>3, <1>4, CeilDivCovers
  <1>6. wait >= 1
    <2>1. CASE wait = 0
      <3>1. wait * R = 0
        BY <1>2, <2>1
      <3>2. QED
        BY <1>2, <1>3, <1>4, <1>5, <3>1
    <2>2. QED
      BY <1>5, <2>1
  <1>7. p \in Nat /\ p >= clock + wait
    <2> DEFINE n == RetrySeconds(wait)
    <2>1. RetryAfter(Asked(r), limit, stamp[r]) = wait
      BY <1>1 DEF RetryAfter
    <2>2. CeilDiv(wait, TicksPerSecond) \in Nat
          /\ wait <= CeilDiv(wait, TicksPerSecond) * TicksPerSecond
      BY <1>5, CeilDivCovers, HeaderAssumption
    <2>3. n \in Nat /\ n >= CeilDiv(wait, TicksPerSecond)
      BY <2>2 DEF RetrySeconds
    <2>4. CeilDiv(wait, TicksPerSecond) * TicksPerSecond <= n * TicksPerSecond
      BY <2>2, <2>3, ScaleMonotone, HeaderAssumption
    <2>5. n * TicksPerSecond \in Nat
      BY <2>3, HeaderAssumption
    <2>6. p = clock + TicksPerSecond * n
      BY <2>1 DEF ReturnAt
    <2>7. TicksPerSecond * n = n * TicksPerSecond
      BY <2>3, HeaderAssumption
    <2>8. CeilDiv(wait, TicksPerSecond) * TicksPerSecond \in Int
      BY <2>2, HeaderAssumption
    <2> HIDE DEF n, wait, p
    <2>9. wait <= n * TicksPerSecond
      BY <1>5, <2>2, <2>4, <2>5, <2>8
    <2>10. QED
      BY <1>1, <1>5, <2>5, <2>6, <2>7, <2>9
  <1>8. p > held.seenAt /\ wait <= p - held.seenAt
    <2> HIDE DEF wait, p, held
    <2>1. QED
      BY <1>1, <1>3, <1>5, <1>6, <1>7
  <1>9. wait * R <= (p - held.seenAt) * R
    BY <1>2, <1>3, <1>5, <1>7, <1>8, ScaleMonotone
  <1>10. held.tokens + (p - held.seenAt) * R >= T
    <2> DEFINE a == wait * R
               b == (p - held.seenAt) * R
    <2>1. a \in Int /\ b \in Int
      BY <1>2, <1>3, <1>5, <1>7
    <2>2. T - held.tokens <= a /\ a <= b
      BY <1>5, <1>9
    <2> HIDE DEF a, b, held, T
    <2>3. held.tokens + b >= T
      BY <1>2, <1>3, <2>1, <2>2
    <2>4. QED
      BY <2>3 DEF b, held, T
  <1>11. QED
    BY <1>7, <1>8, <1>10 DEF Ripe

-----------------------------------------------------------------------------
LEMMA PromiseInit == HeaderInit => PromiseInv
  BY DEF HeaderInit, PromiseInv, NoTime

(* Keys that nobody asks for keep their promises.                          *)
LEMMA OthersStayRipe ==
  ASSUME Inv, StageInv, PromiseInv, NEW r \in Request, Pending(r),
         Allow(Asked(r), Limit[stage[r]], stamp[r]),
         NEW x \in Keys, x # Asked(r), x \in Tracked', promise[x] # NoTime
  PROVE  Ripe(Limit[x[1]], buckets'[x].tokens, buckets'[x].seenAt, promise[x])
  <1>1. Asked(r)[1] = stage[r] /\ Refill(Limit[stage[r]]) # 0
    BY PendingFacts
  <1>2. x \in Tracked /\ buckets'[x] = buckets[x]
    BY <1>1, AllowWrites
  <1>3. QED
    BY <1>2 DEF PromiseInv

(* A refusal keeps what was promised before, and gives a promise it keeps. *)
LEMMA RefusalStaysRipe ==
  ASSUME Inv, StageInv, PromiseInv, NEW r \in Request, Refuse(r),
         promise' = [promise EXCEPT ![Asked(r)] =
                       IF @ = NoTime THEN ReturnAt(r) ELSE Least(@, ReturnAt(r))]
  PROVE  /\ promise'[Asked(r)] \in Nat
         /\ Ripe(Limit[stage[r]], buckets'[Asked(r)].tokens, buckets'[Asked(r)].seenAt,
                 promise'[Asked(r)])
  <1> DEFINE limit == Limit[stage[r]]
             held  == Held(Asked(r), limit, stamp[r])
  <1>1. Pending(r) /\ ~Passes(r) /\ Allow(Asked(r), limit, stamp[r])
    BY DEF Refuse
  <1>2. /\ Asked(r) \in Keys /\ Asked(r)[1] = stage[r] /\ stage[r] \in LimitName
        /\ stamp[r] \in Nat /\ stamp[r] <= clock /\ Refill(limit) # 0
    BY <1>1, PendingFacts DEF Pending
  <1>3. held.tokens \in Nat /\ Token(limit) \in Nat /\ Refill(limit) \in Nat
    BY <1>2, HeldFacts, LimitFacts DEF Inv, RequestInv
  <1>4. ~(held.tokens >= Token(limit))
    BY <1>1, <1>2, <1>3 DEF Passes, Allowed
  <1>5. buckets'[Asked(r)].tokens = held.tokens /\ buckets'[Asked(r)].seenAt = held.seenAt
    <2>1. buckets'[Asked(r)].tokens = Spent(held, limit) /\ buckets'[Asked(r)].seenAt = held.seenAt
      <3>1. PICK k \in Keys : k = Asked(r)
        BY <1>2
      <3>2. /\ buckets'[k].tokens = Spent(Held(k, Limit[k[1]], stamp[r]), Limit[k[1]])
            /\ buckets'[k].seenAt = Held(k, Limit[k[1]], stamp[r]).seenAt
        <4>1. Refill(Limit[k[1]]) # 0 /\ Allow(k, Limit[k[1]], stamp[r])
          BY <1>1, <1>2, <3>1
        <4>2. QED
          BY <4>1, AllowWrites
      <3>3. QED
        BY <1>2, <3>1, <3>2
    <2>2. QED
      BY <1>4, <2>1 DEF Spent
  <1>6. ReturnAt(r) \in Nat /\ Ripe(limit, held.tokens, held.seenAt, ReturnAt(r))
    BY <1>1, ReturnIsRipe
  <1>7. promise[Asked(r)] \in Nat \cup {NoTime}
    BY <1>2 DEF PromiseInv
  <1>8. ASSUME promise[Asked(r)] # NoTime
        PROVE  Ripe(limit, held.tokens, held.seenAt, promise[Asked(r)])
    <2>1. PICK k \in Keys : k = Asked(r)
      BY <1>2
    <2>2. k \in Tracked => Ripe(Limit[k[1]], buckets[k].tokens, buckets[k].seenAt, promise[k])
      BY <1>8, <2>1 DEF PromiseInv
    <2>3. promise[k] \in Nat
      BY <1>7, <1>8, <2>1
    <2>4. QED
      BY <1>2, <1>4, <2>1, <2>2, <2>3, HeldStaysRipe
  <1>9. promise'[Asked(r)] \in {promise[Asked(r)], ReturnAt(r)} \ {NoTime}
    BY <1>2, <1>6 DEF PromiseInv, Least, NoTime
  <1>10. QED
    BY <1>5, <1>6, <1>7, <1>8, <1>9

LEMMA PromiseStep == Inv /\ StageInv /\ PromiseInv /\ [HeaderNext]_headerVars => PromiseInv'
  <1> SUFFICES ASSUME Inv, StageInv, PromiseInv, [HeaderNext]_headerVars PROVE PromiseInv'
    OBVIOUS
  <1>1. CASE UNCHANGED <<storeVars, promise>>
    BY <1>1 DEF storeVars, PromiseInv, Tracked
  <1>2. ASSUME NEW r \in Request, Admit(r),
               promise' = [promise EXCEPT ![Asked(r)] = NoTime]
        PROVE  PromiseInv'
    <2>1. Pending(r) /\ Allow(Asked(r), Limit[stage[r]], stamp[r])
      BY <1>2 DEF Admit
    <2>2. promise' \in [Keys -> Nat \cup {NoTime}]
      BY <1>2 DEF PromiseInv
    <2>3. ASSUME NEW x \in Keys, promise'[x] # NoTime
          PROVE  /\ Refill(Limit[x[1]]) # 0
                 /\ x \in Tracked' =>
                      Ripe(Limit[x[1]], buckets'[x].tokens, buckets'[x].seenAt, promise'[x])
      <3>1. x # Asked(r) /\ promise'[x] = promise[x]
        BY <1>2, <2>3 DEF PromiseInv
      <3>2. QED
        BY <2>1, <2>3, <3>1, OthersStayRipe DEF PromiseInv
    <2>4. QED
      BY <2>2, <2>3 DEF PromiseInv
  <1>3. ASSUME NEW r \in Request, Refuse(r),
               promise' = [promise EXCEPT ![Asked(r)] =
                             IF @ = NoTime THEN ReturnAt(r) ELSE Least(@, ReturnAt(r))]
        PROVE  PromiseInv'
    <2>1. /\ Pending(r) /\ Allow(Asked(r), Limit[stage[r]], stamp[r])
          /\ Asked(r) \in Keys /\ Asked(r)[1] = stage[r] /\ Refill(Limit[stage[r]]) # 0
      BY <1>3, PendingFacts DEF Refuse
    <2>2. /\ promise'[Asked(r)] \in Nat
          /\ Ripe(Limit[stage[r]], buckets'[Asked(r)].tokens, buckets'[Asked(r)].seenAt,
                  promise'[Asked(r)])
      BY <1>3, RefusalStaysRipe
    <2>3. promise' \in [Keys -> Nat \cup {NoTime}]
      BY <1>3, <2>1, <2>2 DEF PromiseInv
    <2>4. ASSUME NEW x \in Keys, promise'[x] # NoTime
          PROVE  /\ Refill(Limit[x[1]]) # 0
                 /\ x \in Tracked' =>
                      Ripe(Limit[x[1]], buckets'[x].tokens, buckets'[x].seenAt, promise'[x])
      <3>1. CASE x = Asked(r)
        BY <2>1, <2>2, <3>1
      <3>2. CASE x # Asked(r)
        <4>1. promise'[x] = promise[x]
          BY <1>3, <3>2 DEF PromiseInv
        <4>2. QED
          BY <2>1, <2>4, <3>2, <4>1, OthersStayRipe DEF PromiseInv
      <3>3. QED
        BY <3>1, <3>2
    <2>5. QED
      BY <2>3, <2>4 DEF PromiseInv
  <1>4. QED
    BY <1>1, <1>2, <1>3 DEF HeaderNext, headerVars, vars, Tick, Arrive, ReadClock, storeVars

LEMMA PromiseInvariance == HeaderSpec => []PromiseInv
  BY PromiseInit, PromiseStep, HeaderRefines, Invariance, StageInvariance, PTL DEF HeaderSpec

-----------------------------------------------------------------------------
(* A client that waits as long as Retry-After told it is admitted, unless  *)
(* another request on its key was admitted meanwhile: for every lag,       *)
(* rounding and cap (Throttle, Allow).                                     *)
THEOREM WaitingIsEnough == HeaderSpec => RetryAfterHonoured
  <1> DEFINE Kept(r) ==
        /\ Pending(r)
        /\ promise[Asked(r)] # NoTime
        /\ stamp[r] >= promise[Asked(r)]
        => stage'[r] # "throttled"
  <1>1. Inv /\ StageInv /\ PromiseInv /\ [HeaderNext]_headerVars =>
          [\A r \in Request : Kept(r)]_headerVars
    <2> SUFFICES ASSUME Inv, StageInv, PromiseInv, HeaderNext, NEW r \in Request,
                        Pending(r), promise[Asked(r)] # NoTime,
                        stamp[r] >= promise[Asked(r)]
                 PROVE  stage'[r] # "throttled"
      OBVIOUS
    <2>1. stage \in [Request -> Stage] /\ stage[r] \in LimitName /\ stage[r] # "throttled"
      BY DEF Inv, RequestInv, Pending, LimitName
    <2>2. Passes(r)
      <3>1. /\ Asked(r) \in Keys /\ Asked(r)[1] = stage[r]
            /\ stamp[r] \in Nat /\ stamp[r] <= clock /\ Refill(Limit[stage[r]]) # 0
        BY PendingFacts
      <3>2. PICK k \in Keys : k = Asked(r)
        BY <3>1
      <3>3. /\ promise[k] \in Nat /\ ~(stamp[r] < promise[k])
            /\ k \in Tracked => Ripe(Limit[k[1]], buckets[k].tokens, buckets[k].seenAt, promise[k])
        BY <3>1, <3>2 DEF PromiseInv
      <3>4. Held(k, Limit[k[1]], stamp[r]).tokens >= Token(Limit[k[1]])
        BY <3>1, <3>2, <3>3, HeldStaysRipe
      <3>5. Refill(Limit[stage[r]]) > 0
        BY <2>1, <3>1, LimitFacts
      <3>6. QED
        BY <3>1, <3>2, <3>4, <3>5 DEF Passes, Allowed
    <2>3. CASE UNCHANGED stage
      BY <2>1, <2>3
    <2>4. ASSUME NEW q \in Request, NEW c \in Client, NEW rt \in Route, Arrive(q, c, rt)
          PROVE  stage'[r] # "throttled"
      BY <2>1, <2>4 DEF Arrive, Enter
    <2>5. ASSUME NEW q \in Request, Admit(q) PROVE stage'[r] # "throttled"
      BY <2>1, <2>5 DEF Admit, Enter, NextStage
    <2>6. ASSUME NEW q \in Request, Refuse(q) PROVE stage'[r] # "throttled"
      BY <2>1, <2>2, <2>6 DEF Refuse, Enter
    <2>7. QED
      BY <2>3, <2>4, <2>5, <2>6 DEF HeaderNext, Tick, ReadClock, requestVars
  <1>2. QED
    BY <1>1, PromiseInvariance, HeaderRefines, Invariance, StageInvariance, PTL
    DEF HeaderSpec, RetryAfterHonoured

=============================================================================
