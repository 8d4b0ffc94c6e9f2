---------------------------- MODULE Login_proofs ----------------------------
(***************************************************************************)
(* Proofs about logins and listings, for any callers, any size of the pool *)
(* and any number of slots: no connection is lost, what was refused never  *)
(* passes for done, the checks are bounded, and no slot is left unused     *)
(* while somebody waits for one.                                           *)
(***************************************************************************)
EXTENDS Login, FiniteSetTheorems, SequenceTheorems, TLAPS

Holders == {c \in Caller : Holds(c)}

(* The holders are finite in number, whatever the callers are: their       *)
(* number is what is missing from the pool.                                *)
PoolInv ==
  /\ PoolTypeOK
  /\ IsFiniteSet(Holders)
  /\ Conserved

(* A call is of some operation as long as it lasts, and a refusal is known *)
(* to its caller until the caller has gone by it.                          *)
RefusedInv ==
  /\ \A c \in Caller : link[c] # "none" => operation[c] # "none"
  /\ \A c \in refused : operation[c] # "none" /\ link[c] = "none" /\ result[c] = "error"

Place == {"idle", "listing", "finding", "queued", "checking", "signing"}

(* Who waits for a slot waits in one place of the queue.                   *)
QueueInv ==
  /\ at \in [Caller -> Place]
  /\ queue \in Seq(Caller)
  /\ \A i \in 1 .. Len(queue) : at[queue[i]] = "queued"
  /\ \A i, j \in 1 .. Len(queue) : queue[i] = queue[j] => i = j
  /\ \A r \in Caller : at[r] = "queued" => \E i \in 1 .. Len(queue) : queue[i] = r

SlotInv ==
  /\ IsFiniteSet(Checking)
  /\ VerificationsBounded
  /\ SlotsInUse

Inv == PoolInv /\ RefusedInv /\ QueueInv /\ SlotInv

USE DEF Place

-----------------------------------------------------------------------------
(* The pool.                                                               *)

LEMMA InitPoolInv == InitPool => PoolInv /\ RefusedInv
<1> SUFFICES ASSUME InitPool PROVE PoolInv /\ RefusedInv
  OBVIOUS
<1>1. PoolTypeOK
  BY PoolAssumption DEF InitPool, PoolTypeOK
<1>2. Holders = {}
  BY DEF InitPool, Holders, Holds
<1>3. IsFiniteSet(Holders) /\ Conserved
  BY <1>2, FS_EmptySet, PoolAssumption DEF InitPool, Conserved, Holders
<1>4. RefusedInv
  BY DEF InitPool, RefusedInv
<1> QED
  BY <1>1, <1>3, <1>4 DEF PoolInv

(* A caller that starts to hold a connection takes one from the pool.      *)
LEMMA TakesOne ==
  ASSUME PoolInv, NEW c \in Caller, ~Holds(c), free > 0,
         free' = free - 1, Holders' = Holders \cup {c}
  PROVE  IsFiniteSet(Holders') /\ Conserved' /\ free' \in 0 .. MaxOpenConns
<1>1. c \notin Holders
  BY DEF Holders
<1>2. IsFiniteSet(Holders') /\ Cardinality(Holders') = Cardinality(Holders) + 1
  BY <1>1, FS_AddElement DEF PoolInv
<1>3. Cardinality(Holders) \in Nat
  BY FS_CardinalityType DEF PoolInv
<1> QED
  BY <1>2, <1>3, PoolAssumption DEF PoolInv, PoolTypeOK, Conserved, Holders

(* One that stops to hold one gives it back.                               *)
LEMMA GivesOneBack ==
  ASSUME PoolInv, NEW c \in Caller, Holds(c),
         free' = free + 1, Holders' = Holders \ {c}
  PROVE  IsFiniteSet(Holders') /\ Conserved' /\ free' \in 0 .. MaxOpenConns
<1>1. c \in Holders
  BY DEF Holders
<1>2. IsFiniteSet(Holders') /\ Cardinality(Holders') = Cardinality(Holders) - 1
  BY <1>1, FS_RemoveElement DEF PoolInv
<1>3. Cardinality(Holders) \in Nat /\ Cardinality(Holders') \in Nat
  BY <1>2, FS_CardinalityType DEF PoolInv
<1> QED
  BY <1>2, <1>3, PoolAssumption DEF PoolInv, PoolTypeOK, Conserved, Holders

(* Any other step leaves the pool as it is.                                *)
LEMMA HoldsOn ==
  ASSUME PoolInv, free' = free, Holders' = Holders
  PROVE  IsFiniteSet(Holders') /\ Conserved' /\ free' \in 0 .. MaxOpenConns
BY DEF PoolInv, PoolTypeOK, Conserved, Holders

LEMMA ServeKeepsPool ==
  ASSUME PoolInv, RefusedInv, NEW c \in Caller, Serve(c)
  PROVE  PoolInv' /\ RefusedInv'
<1> USE DEF PoolTypeOK, Holders, Holds
<1>1. CASE Borrow(c)
  <2>1. free > 0 /\ free' = free - 1 /\ ~Holds(c) /\ Holders' = Holders \cup {c}
    BY <1>1 DEF Borrow, PoolInv
  <2>2. PoolTypeOK'
    BY <1>1, <2>1, TakesOne DEF Borrow, PoolInv
  <2>3. RefusedInv'
    BY <1>1 DEF Borrow, RefusedInv, PoolInv
  <2> QED
    BY <2>1, <2>2, <2>3, TakesOne DEF PoolInv
<1>2. CASE Refuse(c)
  <2>1. free' = free + 1 /\ Holds(c) /\ Holders' = Holders \ {c}
    BY <1>2 DEF Refuse, ReturnResult, PoolInv
  <2>2. PoolTypeOK'
    BY <1>2, <2>1, GivesOneBack DEF Refuse, ReturnResult, PoolInv
  <2>3. operation[c] # "Update"
    BY SlotAssumption DEF PoolInv, Rows
  <2>4. RefusedInv'
    BY <1>2, <2>3 DEF Refuse, ReturnResult, RefusedInv, PoolInv
  <2> QED
    BY <2>1, <2>2, <2>4, GivesOneBack DEF PoolInv
<1>3. CASE Query(c)
  <2>1. free' = free /\ Holders' = Holders
    BY <1>3 DEF Query, PoolInv
  <2>2. PoolTypeOK' /\ RefusedInv'
    BY <1>3 DEF Query, RefusedInv, PoolInv
  <2> QED
    BY <2>1, <2>2, HoldsOn DEF PoolInv
<1>4. CASE ReadRows(c)
  <2>1. free' = free + 1 /\ Holds(c) /\ Holders' = Holders \ {c}
    BY <1>4 DEF ReadRows, ReturnResult, PoolInv
  <2>2. PoolTypeOK'
    <3>1. PICK r \in {"done", "empty", "error"} : ReturnResult(c, r)
      BY <1>4 DEF ReadRows
    <3> QED
      BY <1>4, <2>1, <3>1, GivesOneBack DEF ReadRows, ReturnResult, PoolInv
  <2>3. RefusedInv'
    BY <1>4 DEF ReadRows, ReturnResult, RefusedInv, PoolInv
  <2> QED
    BY <2>1, <2>2, <2>3, GivesOneBack DEF PoolInv
<1> QED
  BY <1>1, <1>2, <1>3, <1>4 DEF Serve

LEMMA CallKeepsPool ==
  ASSUME PoolInv, RefusedInv, NEW c \in Caller, NEW o \in Operations, Call(c, o)
  PROVE  PoolInv' /\ RefusedInv'
<1> USE DEF PoolTypeOK
<1>1. link[c] = "none" /\ c \notin refused
  BY DEF Call, RefusedInv
<1>2. free' = free /\ Holders' = Holders
  BY <1>1 DEF Call, PoolInv, Holders, Holds
<1>3. o # "none"
  BY SlotAssumption DEF Rows
<1>4. PoolTypeOK' /\ RefusedInv'
  BY <1>1, <1>3 DEF Call, PoolInv, RefusedInv
<1> QED
  BY <1>2, <1>4, HoldsOn DEF PoolInv

LEMMA TakeResultKeepsPool ==
  ASSUME PoolInv, RefusedInv, NEW c \in Caller, TakeResult(c)
  PROVE  PoolInv' /\ RefusedInv'
<1>1. free' = free /\ Holders' = Holders
  BY DEF TakeResult, Holders, Holds
<1>2. PoolTypeOK'
  BY DEF TakeResult, PoolInv, PoolTypeOK
<1>3. RefusedInv'
  <2>1. \A d \in Caller : d # c => operation'[d] = operation[d] /\ result'[d] = result[d]
    BY DEF TakeResult, PoolInv, PoolTypeOK
  <2>2. /\ link' = link /\ link[c] = "none"
        /\ refused' = refused \ {c} /\ refused \subseteq Caller
    BY DEF TakeResult, Returned, PoolInv, PoolTypeOK
  <2> QED
    BY <2>1, <2>2 DEF RefusedInv
<1> QED
  BY <1>1, <1>2, <1>3, HoldsOn DEF PoolInv

-----------------------------------------------------------------------------
(* The slots.                                                              *)

(* A request that is neither queued nor checked, and will not be, moves.   *)
LEMMA MovesElsewhere ==
  ASSUME QueueInv, SlotInv, NEW r \in Caller,
         at[r] \notin {"queued", "checking"},
         NEW p \in {"idle", "listing", "finding", "signing"},
         Leave(r, p), UNCHANGED queue
  PROVE  QueueInv' /\ SlotInv'
<1>1. Checking' = Checking
  BY DEF Leave, Checking, QueueInv
<1>2. QueueInv'
  BY DEF QueueInv, Leave
<1>3. SlotInv'
  BY <1>1 DEF SlotInv, VerificationsBounded, SlotsInUse
<1> QED
  BY <1>2, <1>3

LEMMA FoundKeepsSlots ==
  ASSUME QueueInv, SlotInv, NEW r \in Caller, Found(r)
  PROVE  QueueInv' /\ SlotInv'
<1>1. at[r] = "finding" /\ r \notin Checking
  BY DEF Found, Checking
<1>2. Cardinality(Checking) \in Nat
  BY FS_CardinalityType DEF SlotInv
<1>3. CASE Cardinality(Checking) < MaxVerifications
  <2>1. Leave(r, "checking") /\ queue' = queue
    BY <1>3 DEF Found
  <2>2. queue = <<>>
    BY <1>2, <1>3, SlotAssumption DEF SlotInv, SlotsInUse
  <2>3. Checking' = Checking \cup {r}
    BY <2>1 DEF Leave, Checking, QueueInv
  <2>4. IsFiniteSet(Checking') /\ Cardinality(Checking') = Cardinality(Checking) + 1
    BY <1>1, <2>3, FS_AddElement DEF SlotInv
  <2>5. SlotInv'
    BY <1>2, <1>3, <2>1, <2>2, <2>4, SlotAssumption
    DEF SlotInv, VerificationsBounded, SlotsInUse
  <2>6. QueueInv'
    BY <1>1, <2>1 DEF QueueInv, Leave
  <2> QED
    BY <2>5, <2>6
<1>4. CASE ~(Cardinality(Checking) < MaxVerifications)
  <2>1. Leave(r, "queued") /\ queue' = Append(queue, r)
    BY <1>4 DEF Found
  <2>2. Checking' = Checking
    BY <1>1, <2>1 DEF Leave, Checking, QueueInv
  <2>3. SlotInv'
    BY <1>2, <1>4, <2>2, SlotAssumption DEF SlotInv, VerificationsBounded, SlotsInUse
  <2>4. /\ queue' \in Seq(Caller) /\ Len(queue') = Len(queue) + 1
        /\ \A i \in 1 .. Len(queue) : queue'[i] = queue[i]
        /\ queue'[Len(queue) + 1] = r
    BY <2>1, AppendProperties DEF QueueInv
  <2>5. Len(queue) \in Nat
    BY LenProperties DEF QueueInv
  <2>6. \A i \in 1 .. Len(queue) : queue[i] # r
    BY <1>1 DEF QueueInv
  <2>7. at' \in [Caller -> Place]
    BY <2>1 DEF QueueInv, Leave
  <2>8. \A i \in 1 .. Len(queue') : at'[queue'[i]] = "queued"
    BY <2>1, <2>4, <2>5, <2>6 DEF QueueInv, Leave
  <2>9. \A i, j \in 1 .. Len(queue') : queue'[i] = queue'[j] => i = j
    BY <2>4, <2>5, <2>6 DEF QueueInv
  <2>10. \A s \in Caller : at'[s] = "queued" => \E i \in 1 .. Len(queue') : queue'[i] = s
    <3> SUFFICES ASSUME NEW s \in Caller, at'[s] = "queued"
                 PROVE  \E i \in 1 .. Len(queue') : queue'[i] = s
      OBVIOUS
    <3>1. CASE s = r
      BY <2>4, <2>5, <3>1
    <3>2. CASE s # r
      <4>1. at[s] = "queued"
        BY <2>1, <3>2 DEF QueueInv, Leave
      <4>2. PICK i \in 1 .. Len(queue) : queue[i] = s
        BY <4>1 DEF QueueInv
      <4> QED
        BY <2>4, <2>5, <4>2
    <3> QED
      BY <3>1, <3>2
  <2> QED
    BY <2>3, <2>4, <2>7, <2>8, <2>9, <2>10 DEF QueueInv
<1> QED
  BY <1>3, <1>4

(* A slot that is given back goes to the head of the queue, if any.        *)
LEMMA LeaveSlotKeepsSlots ==
  ASSUME QueueInv, SlotInv, NEW r \in Caller, at[r] = "checking",
         NEW p \in {"idle", "signing"}, LeaveSlot(r, p)
  PROVE  QueueInv' /\ SlotInv'
<1>1. r \in Checking /\ Cardinality(Checking) \in Nat
  BY FS_CardinalityType DEF SlotInv, Checking
<1>2. /\ IsFiniteSet(Checking \ {r})
      /\ Cardinality(Checking \ {r}) = Cardinality(Checking) - 1
  BY <1>1, FS_RemoveElement DEF SlotInv
<1>3. CASE queue = <<>>
  <2>1. queue' = queue /\ at' = [at EXCEPT ![r] = p]
    BY <1>3 DEF LeaveSlot, QueueInv
  <2>2. Checking' = Checking \ {r}
    BY <2>1 DEF Checking, QueueInv
  <2>3. SlotInv'
    BY <1>1, <1>2, <1>3, <2>1, <2>2, SlotAssumption
    DEF SlotInv, VerificationsBounded, SlotsInUse
  <2>4. QueueInv'
    BY <2>1 DEF QueueInv
  <2> QED
    BY <2>3, <2>4
<1>4. CASE queue # <<>>
  <2> DEFINE h == Head(queue)
  <2>1. /\ h \in Caller /\ h = queue[1]
        /\ queue' = Tail(queue) /\ queue' \in Seq(Caller)
        /\ Len(queue') = Len(queue) - 1
        /\ \A i \in 1 .. Len(queue') : queue'[i] = queue[i + 1]
    BY <1>4, HeadTailProperties DEF LeaveSlot, QueueInv
  <2>2. Len(queue) \in Nat \ {0}
    BY <1>4, LenProperties, EmptySeq DEF QueueInv
  <2>3. at[h] = "queued" /\ h # r /\ h \notin Checking
    BY <2>1, <2>2 DEF QueueInv, Checking
  <2>4. at' = [s \in Caller |-> IF s = r THEN p ELSE IF s = h THEN "checking" ELSE at[s]]
    BY <1>4 DEF LeaveSlot
  <2>5. Checking' = (Checking \ {r}) \cup {h}
    BY <2>1, <2>3, <2>4 DEF Checking
  <2>6. IsFiniteSet(Checking') /\ Cardinality(Checking') = Cardinality(Checking)
    <3>1. h \notin Checking \ {r}
      BY <2>3
    <3>2. /\ IsFiniteSet((Checking \ {r}) \cup {h})
          /\ Cardinality((Checking \ {r}) \cup {h}) = Cardinality(Checking \ {r}) + 1
      BY <1>2, <3>1, FS_AddElement
    <3> QED
      BY <1>1, <1>2, <2>5, <3>2
  <2>7. SlotInv'
    BY <1>4, <2>6 DEF SlotInv, VerificationsBounded, SlotsInUse
  <2>8. at' \in [Caller -> Place]
    BY <2>4 DEF QueueInv
  <2>9. \A i \in 1 .. Len(queue') : at'[queue'[i]] = "queued"
    <3> SUFFICES ASSUME NEW i \in 1 .. Len(queue') PROVE at'[queue'[i]] = "queued"
      OBVIOUS
    <3>1. i + 1 \in 1 .. Len(queue) /\ 1 \in 1 .. Len(queue) /\ i + 1 # 1
      BY <2>1, <2>2
    <3>2. queue[i + 1] \in Caller /\ at[queue[i + 1]] = "queued" /\ queue[i + 1] # h
      BY <2>1, <3>1, ElementOfSeq DEF QueueInv
    <3> QED
      BY <2>1, <2>4, <3>2
  <2>10. \A i, j \in 1 .. Len(queue') : queue'[i] = queue'[j] => i = j
    BY <2>1, <2>2 DEF QueueInv
  <2>11. \A s \in Caller : at'[s] = "queued" => \E i \in 1 .. Len(queue') : queue'[i] = s
    <3> SUFFICES ASSUME NEW s \in Caller, at'[s] = "queued"
                 PROVE  \E i \in 1 .. Len(queue') : queue'[i] = s
      OBVIOUS
    <3>1. at[s] = "queued" /\ s # h
      BY <2>4
    <3>2. PICK i \in 1 .. Len(queue) : queue[i] = s
      BY <3>1 DEF QueueInv
    <3>3. i # 1 /\ i - 1 \in 1 .. Len(queue')
      BY <2>1, <2>2, <3>1, <3>2
    <3>4. queue'[i - 1] = queue[(i - 1) + 1] /\ (i - 1) + 1 = i
      BY <2>1, <3>3
    <3> QED
      BY <3>2, <3>3, <3>4
  <2> QED
    BY <2>1, <2>7, <2>8, <2>9, <2>10, <2>11 DEF QueueInv
<1> QED
  BY <1>3, <1>4

-----------------------------------------------------------------------------
LEMMA InitInv == Init => Inv
<1> SUFFICES ASSUME Init PROVE Inv
  OBVIOUS
<1>1. PoolInv /\ RefusedInv
  BY InitPoolInv DEF Init
<1>2. Checking = {}
  BY DEF Init, Checking
<1>3. SlotInv
  BY <1>2, FS_EmptySet, SlotAssumption DEF Init, SlotInv, VerificationsBounded, SlotsInUse
<1>4. QueueInv
  BY DEF Init, QueueInv
<1> QED
  BY <1>1, <1>3, <1>4 DEF Inv

LEMMA NextKeepsInv == Inv /\ [Next]_vars => Inv'
<1> SUFFICES ASSUME Inv, [Next]_vars PROVE Inv'
  OBVIOUS
<1> USE DEF Inv
<1>1. ASSUME NEW r \in Caller, Attempt(r) PROVE Inv'
  <2>1. "Find" \in Operations
    BY SlotAssumption DEF Rows
  <2>2. PoolInv' /\ RefusedInv'
    BY <1>1, <2>1, CallKeepsPool DEF Attempt
  <2>3. QueueInv' /\ SlotInv'
    BY <1>1, MovesElsewhere DEF Attempt
  <2> QED
    BY <2>2, <2>3
<1>2. ASSUME NEW r \in Caller, NEW o \in Operations, Browse(r, o) PROVE Inv'
  <2>1. PoolInv' /\ RefusedInv'
    BY <1>2, CallKeepsPool DEF Browse
  <2>2. QueueInv' /\ SlotInv'
    BY <1>2, MovesElsewhere DEF Browse
  <2> QED
    BY <2>1, <2>2
<1>3. ASSUME NEW r \in Caller, UsePool(r) PROVE Inv'
  <2>1. PoolInv' /\ RefusedInv'
    BY <1>3, ServeKeepsPool DEF UsePool
  <2>2. QueueInv' /\ SlotInv'
    BY <1>3 DEF UsePool, loginVars, QueueInv, SlotInv, Checking, VerificationsBounded,
                SlotsInUse
  <2> QED
    BY <2>1, <2>2
<1>4. ASSUME NEW r \in Caller, Listed(r) \/ NotFound(r) PROVE Inv'
  <2>1. PoolInv' /\ RefusedInv'
    BY <1>4, TakeResultKeepsPool DEF Listed, NotFound
  <2>2. QueueInv' /\ SlotInv'
    BY <1>4, MovesElsewhere DEF Listed, NotFound
  <2> QED
    BY <2>1, <2>2
<1>5. ASSUME NEW r \in Caller, Found(r) PROVE Inv'
  <2>1. PoolInv' /\ RefusedInv'
    BY <1>5, TakeResultKeepsPool DEF Found
  <2> QED
    BY <1>5, <2>1, FoundKeepsSlots
<1>6. ASSUME UNCHANGED poolVars PROVE PoolInv' /\ RefusedInv'
  BY <1>6 DEF poolVars, PoolInv, PoolTypeOK, RefusedInv, Conserved, Holders, Holds
<1>7. ASSUME NEW r \in Caller, Sign(r) PROVE Inv'
  BY <1>6, <1>7, MovesElsewhere DEF Sign
<1>8. ASSUME NEW r \in Caller, Verify(r) PROVE Inv'
  <2>1. PICK p \in {"idle", "signing"} : LeaveSlot(r, p)
    BY <1>8 DEF Verify, Checked, CheckFails
  <2>2. at[r] = "checking" /\ UNCHANGED poolVars
    BY <1>8, <2>1 DEF Verify, Checked, CheckFails, LeaveSlot
  <2> QED
    BY <1>6, <2>1, <2>2, LeaveSlotKeepsSlots
<1>9. CASE UNCHANGED vars
  BY <1>6, <1>9 DEF vars, loginVars, QueueInv, SlotInv, Checking, VerificationsBounded,
                    SlotsInUse
<1> QED
  BY <1>1, <1>2, <1>3, <1>4, <1>5, <1>7, <1>8, <1>9 DEF Next, Proceed

LEMMA Invariance == Spec => []Inv
BY InitInv, NextKeepsInv, PTL DEF Spec

(* Every reachable state has its types, and the queue has just those that  *)
(* wait for a slot.                                                        *)
THEOREM TypeCorrect == Spec => []TypeOK
<1>1. Inv => TypeOK
  <2> SUFFICES ASSUME Inv PROVE TypeOK
    OBVIOUS
  <2>1. DOMAIN queue = 1 .. Len(queue)
    BY LenProperties DEF Inv, QueueInv
  <2>2. \A i \in 1 .. Len(queue) : queue[i] \in Caller
    BY ElementOfSeq DEF Inv, QueueInv
  <2>3. {queue[i] : i \in DOMAIN queue} = {r \in Caller : at[r] = "queued"}
    BY <2>1, <2>2 DEF Inv, QueueInv
  <2> QED
    BY <2>3 DEF Inv, PoolInv, QueueInv, TypeOK
<1> QED
  BY Invariance, <1>1, PTL

(* No model that a route calls reports what the database refused as done   *)
(* (Event.Create, User.FindByUsername, Event.PaginateForUser).             *)
THEOREM NoFalseSuccess == Spec => []DoneMeansAccepted
<1>1. Inv => DoneMeansAccepted
  BY DEF Inv, RefusedInv, DoneMeansAccepted
<1> QED
  BY Invariance, <1>1, PTL

(* However many callers there are and whatever fails, no call on the pool  *)
(* loses a connection or makes one up (pgsql_service.go), no more          *)
(* passwords are checked at once than there are slots, and while a login   *)
(* waits for one all are in use (UserService.verify: the deferred receive).*)
THEOREM NothingLost == Spec => []NothingLeaks
<1>1. Inv => NothingLeaks
  BY DEF Inv, PoolInv, SlotInv, NothingLeaks
<1> QED
  BY Invariance, <1>1, PTL

=============================================================================
