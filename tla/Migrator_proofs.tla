-------------------------- MODULE Migrator_proofs --------------------------
(***************************************************************************)
(* Proofs about the schema migrator, for any migrations, any number of     *)
(* console processes and failures anywhere, when rollbacks and rebuilds    *)
(* are run alone and deployments beside each other.                        *)
(***************************************************************************)
EXTENDS Migrator, WellFoundedInduction, TLAPS

(* Who rolls back or rebuilds does it alone, or there is nobody who does.  *)
Orderly == Disciplined \/ Commands \subseteq {"migrate"}

Label == {"idle", "done", "failed", "list", "drop", "ensure", "applied", "batch",
          "up", "record", "commit", "down", "forget", "uncommit"}
Phase == {"fresh", "reset", "run"}
Applying  == {"up", "record", "commit"}
Reverting == {"down", "forget", "uncommit"}
Done(i)   == Registered[i] \in DOMAIN recorded

-----------------------------------------------------------------------------
TypeInv ==
  /\ tables \subseteq Name \cup {Ledger}
  /\ DOMAIN recorded \subseteq Name
  /\ \A n \in DOMAIN recorded : recorded[n] \in [batch : Nat, by : Nat]
  /\ keys \subseteq Name \X Name
  /\ given \in Nat
  /\ pc \in [Process -> Label]
  /\ phase \in [Process -> Phase]
  /\ self \in [Process -> Nat]
  /\ listed \in [Process -> SUBSET (Name \cup {Ledger})]
  /\ applied \in [Process -> SUBSET Name]
  /\ batch \in [Process -> Nat]
  /\ at \in [Process -> Int]
  /\ tx \in [Process -> [schema : {"none", "skipped", "created", "dropped", "absent"},
                         row : {"none", "insert", "delete", "miss"}]]

(* What is committed, in any state.                                        *)
DbInv ==
  /\ InStep /\ Grounded /\ BatchOwned
  /\ DOMAIN recorded # {} => Ledger \in tables
  /\ \A k \in keys : k[1] \in tables
  /\ \E last \in Nat : \A n \in DOMAIN recorded : recorded[n].batch <= last

Solo ==
  /\ \A p, q \in Process : p # q /\ Active(p) /\ Active(q) => phase[p] = "run"
  /\ Commands \subseteq {"migrate"} => \A p \in Process : phase[p] = "run"

(* No two processes are creating one table.                                *)
OneCreates ==
  \A p, q \in Process :
    p # q /\ tx[p].schema = "created" /\ tx[q].schema = "created" => InHand(p) # InHand(q)

(* Where a process stands, and what its transaction has done.              *)
PlaceInv(p) ==
  /\ pc[p] \in {"list", "drop"} => phase[p] = "fresh"
  /\ pc[p] \in Reverting => phase[p] = "reset"
  /\ pc[p] \in Applying \cup {"batch"} => phase[p] # "reset"
  /\ pc[p] \in Applying \cup Reverting => at[p] \in DOMAIN Registered
  /\ pc[p] \notin {"record", "commit", "forget", "uncommit"} => tx[p] = NoTx
  /\ pc[p] = "record" => tx[p] \in [schema : {"skipped", "created"}, row : {"none"}]
  /\ pc[p] = "commit" => tx[p] \in [schema : {"created"}, row : {"insert"}]
  /\ pc[p] = "forget" => tx[p] \in [schema : {"dropped", "absent"}, row : {"none"}]
  /\ pc[p] = "uncommit" => tx[p] \in [schema : {"dropped", "absent"}, row : {"delete", "miss"}]
  /\ pc[p] = "drop" => listed[p] = tables

(* A run has what it passed over or applied behind it.  If its next is not *)
(* recorded yet its batch is its own; if it is, the run is about to fail.  *)
ApplyInv(p) ==
  /\ pc[p] = "batch" => applied[p] \subseteq DOMAIN recorded
  /\ pc[p] \in Applying =>
       /\ applied[p] \subseteq DOMAIN recorded
       /\ \A i \in DOMAIN Registered : i < at[p] => Done(i)
       /\ ~Done(at[p]) => \A n \in DOMAIN recorded :
            recorded[n].batch = batch[p] => recorded[n].by = self[p]
  /\ tx[p].schema = "created" =>
       InHand(p) \notin tables /\ Refers[InHand(p)] \subseteq tables
  /\ tx[p].schema = "skipped" => InHand(p) \in tables
  /\ pc[p] = "commit" => Ledger \in tables

(* A rollback has what is registered later behind it.                      *)
RevertInv(p) ==
  /\ pc[p] \in Reverting =>
       /\ DOMAIN recorded \subseteq applied[p]
       /\ \A i \in DOMAIN Registered : i > at[p] => ~Done(i)
  /\ pc[p] \in {"forget", "uncommit"} =>
       /\ tx[p].schema = "dropped" <=> InHand(p) \in tables
       /\ \A k \in keys : k[2] # InHand(p)
  /\ pc[p] = "uncommit" => (tx[p].row = "delete" <=> Done(at[p]))

ProcInv(p) == PlaceInv(p) /\ ApplyInv(p) /\ RevertInv(p)

Inv == TypeInv /\ DbInv /\ Solo /\ OneCreates /\ \A p \in Process : ProcInv(p)

-----------------------------------------------------------------------------
(* Sets of numbers have a least and, if bounded, a greatest element.       *)
LEMMA NatMin ==
  ASSUME NEW S \in SUBSET Nat, S # {}
  PROVE  \E m \in S : \A n \in S : m <= n
  <1> DEFINE R == OpToRel(<, Nat)
  <1>1. IsWellFoundedOn(R, Nat)
    BY NatLessThanWellFounded
  <1> HIDE DEF R
  <1>2. PICK m \in S : \A n \in S : ~ (<<n, m>> \in R)
    BY <1>1, WFMin
  <1>3. \A x, y \in Nat : x < y => <<x, y>> \in R
    BY DEF R, OpToRel
  <1>4. ASSUME NEW n \in S PROVE m <= n
    <2>1. n \in Nat /\ m \in Nat /\ ~ (n < m)
      BY <1>2, <1>3
    <2>2. QED
      BY <2>1
  <1>5. QED
    BY <1>4

LEMMA NatMax ==
  ASSUME NEW S \in SUBSET Nat, S # {}, NEW b \in Nat, \A n \in S : n <= b
  PROVE  \E m \in S : \A n \in S : n <= m
  <1> DEFINE D == {b - n : n \in S}
  <1>1. D \in SUBSET Nat /\ D # {}
    <2>1. \A n \in S : b - n \in Nat
      OBVIOUS
    <2>2. PICK n \in S : TRUE
      OBVIOUS
    <2>3. QED
      BY <2>1, <2>2
  <1>2. PICK d \in D : \A e \in D : d <= e
    BY <1>1, NatMin
  <1>3. PICK m \in S : d = b - m
    BY <1>2
  <1>4. ASSUME NEW n \in S PROVE n <= m
    <2>1. b - m <= b - n
      BY <1>2, <1>3
    <2>2. QED
      BY <2>1
  <1>5. QED
    BY <1>4

LEMMA RegisteredFacts ==
  /\ Len(Registered) \in Nat /\ DOMAIN Registered = 1 .. Len(Registered)
  /\ \A i \in DOMAIN Registered : Registered[i] \in Name /\ Refers[Registered[i]] \subseteq Name
  /\ \A i, j \in DOMAIN Registered : Registered[i] = Registered[j] => i = j
  /\ \A n \in Name : \E i \in DOMAIN Registered : n = Registered[i]
  /\ Ledger \notin Name
  <1>1. Len(Registered) \in Nat /\ DOMAIN Registered = 1 .. Len(Registered)
    BY MigrationAssumption
  <1>2. ASSUME NEW i \in DOMAIN Registered PROVE Refers[Registered[i]] \subseteq Name
    <2>1. Refers[Registered[i]] \subseteq {Registered[j] : j \in 1 .. (i - 1)}
      BY MigrationAssumption
    <2>2. 1 .. (i - 1) \subseteq DOMAIN Registered
      BY <1>1
    <2>3. QED
      BY <2>1, <2>2 DEF Name
  <1>3. QED
    BY <1>1, <1>2, MigrationAssumption DEF Name

(* The loop of Run passes over what it read as applied, and nothing else.  *)
LEMMA NextUpFacts ==
  ASSUME NEW from \in Int, NEW done
  PROVE  /\ NextUp(from, done) # 0 =>
              /\ NextUp(from, done) \in DOMAIN Registered /\ NextUp(from, done) >= from
              /\ Registered[NextUp(from, done)] \notin done
         /\ \A i \in DOMAIN Registered :
              i >= from /\ (NextUp(from, done) = 0 \/ i < NextUp(from, done)) =>
                Registered[i] \in done
         /\ NextUp(from, done) \in Nat
  <1> DEFINE left == {i \in DOMAIN Registered : i >= from /\ Registered[i] \notin done}
  <1>1. left \in SUBSET Nat /\ 0 \notin left
    BY RegisteredFacts
  <1>2. CASE left = {}
    BY <1>2 DEF NextUp
  <1>3. CASE left # {}
    <2>1. \E i \in left : \A j \in left : i <= j
      BY <1>1, <1>3, NatMin
    <2>2. NextUp(from, done) = CHOOSE i \in left : \A j \in left : i <= j
      BY <1>3 DEF NextUp
    <2>3. NextUp(from, done) \in left /\ \A j \in left : NextUp(from, done) <= j
      BY <2>1, <2>2
    <2>4. NextUp(from, done) \in Nat
      BY <1>1, <2>3
    <2>5. ASSUME NEW i \in DOMAIN Registered, i >= from, i < NextUp(from, done)
          PROVE  Registered[i] \in done
      <3>1. i \in Nat
        BY RegisteredFacts
      <3>2. i \notin left
        BY <2>3, <2>4, <2>5, <3>1
      <3>3. QED
        BY <2>5, <3>2
    <2>6. QED
      BY <1>1, <2>3, <2>4, <2>5
  <1>4. QED
    BY <1>2, <1>3

LEMMA NextDownFacts ==
  ASSUME NEW from \in Int, NEW done
  PROVE  /\ NextDown(from, done) # 0 =>
              /\ NextDown(from, done) \in DOMAIN Registered /\ NextDown(from, done) <= from
         /\ \A i \in DOMAIN Registered :
              i <= from /\ i > NextDown(from, done) => Registered[i] \notin done
         /\ NextDown(from, done) \in Nat
  <1> DEFINE left == {i \in DOMAIN Registered : i <= from /\ Registered[i] \in done}
  <1>1. left \in SUBSET Nat /\ 0 \notin left
        /\ Len(Registered) \in Nat /\ \A i \in left : i <= Len(Registered)
    BY RegisteredFacts
  <1>2. CASE left = {}
    BY <1>2 DEF NextDown
  <1>3. CASE left # {}
    <2>1. \E i \in left : \A j \in left : j <= i
      BY <1>1, <1>3, NatMax
    <2>2. \E i \in left : \A j \in left : i >= j
      <3>1. PICK i \in left : \A j \in left : j <= i
        BY <2>1
      <3>2. \A j \in left : i >= j
        BY <1>1, <3>1
      <3>3. QED
        BY <3>2
    <2>3. NextDown(from, done) = CHOOSE i \in left : \A j \in left : i >= j
      BY <1>3 DEF NextDown
    <2>4. NextDown(from, done) \in left /\ \A j \in left : NextDown(from, done) >= j
      BY <2>2, <2>3
    <2>5. NextDown(from, done) \in Nat
      BY <1>1, <2>4
    <2>6. ASSUME NEW i \in DOMAIN Registered, i <= from, i > NextDown(from, done)
          PROVE  Registered[i] \notin done
      <3>1. i \in Nat
        BY RegisteredFacts
      <3>2. i \notin left
        BY <2>4, <2>5, <2>6, <3>1
      <3>3. QED
        BY <2>6, <3>2
    <2>7. QED
      BY <1>1, <2>4, <2>5, <2>6
  <1>4. QED
    BY <1>2, <1>3

(* The batch of a run is larger than any on record.                        *)
LEMMA LastBatchFacts ==
  ASSUME TypeInv, DbInv
  PROVE  LastBatch \in Nat /\ \A n \in DOMAIN recorded : recorded[n].batch <= LastBatch
  <1> DEFINE B == {0} \cup {recorded[n].batch : n \in DOMAIN recorded}
  <1>1. B \in SUBSET Nat /\ B # {}
    BY DEF TypeInv
  <1>2. PICK last \in Nat : \A n \in DOMAIN recorded : recorded[n].batch <= last
    BY DEF DbInv
  <1>3. \A b \in B : b <= last
    BY <1>1, <1>2
  <1>4. \E b \in B : \A c \in B : c <= b
    BY <1>1, <1>3, NatMax
  <1>5. \E b \in B : \A n \in DOMAIN recorded : recorded[n].batch <= b
    BY <1>4
  <1>6. LastBatch \in B /\ \A n \in DOMAIN recorded : recorded[n].batch <= LastBatch
    BY <1>5 DEF LastBatch
  <1>7. QED
    BY <1>1, <1>6

-----------------------------------------------------------------------------
LEMMA InvInit == Init => Inv
  <1> SUFFICES ASSUME Init PROVE Inv
    OBVIOUS
  <1>1. TypeInv
    BY DEF Init, TypeInv, Label, Phase, NoTx
  <1>2. DbInv
    <2>1. InStep /\ Grounded /\ BatchOwned
      BY DEF Init, InStep, Grounded, BatchOwned
    <2>2. \A n \in DOMAIN recorded : recorded[n].batch <= 0
      BY DEF Init
    <2>3. QED
      BY <2>1, <2>2 DEF Init, DbInv
  <1>3. Solo /\ OneCreates
    BY DEF Init, Solo, OneCreates, Active, NoTx
  <1>4. \A p \in Process : ProcInv(p)
    BY DEF Init, ProcInv, PlaceInv, ApplyInv, RevertInv, Applying, Reverting, NoTx
  <1>5. QED
    BY <1>1, <1>2, <1>3, <1>4 DEF Inv

(* What a step of another process leaves of q.                             *)
Same(q) ==
  /\ pc'[q] = pc[q] /\ phase'[q] = phase[q] /\ self'[q] = self[q] /\ listed'[q] = listed[q]
  /\ applied'[q] = applied[q] /\ batch'[q] = batch[q] /\ at'[q] = at[q] /\ tx'[q] = tx[q]

LEMMA SameKeepsProc ==
  ASSUME NEW q, ProcInv(q), UNCHANGED database, Same(q)
  PROVE  ProcInv(q)'
  <1> USE DEF Same, database, InHand, Done
  <1>1. PlaceInv(q)'
    BY DEF ProcInv, PlaceInv, NoTx
  <1>2. ApplyInv(q)'
    BY DEF ProcInv, ApplyInv
  <1>3. RevertInv(q)'
    BY DEF ProcInv, RevertInv
  <1>4. QED
    BY <1>1, <1>2, <1>3 DEF ProcInv

(* One that is not running has nothing at stake.                           *)
LEMMA IdleKeepsProc ==
  ASSUME NEW q, ProcInv(q), ~Active(q), Same(q)
  PROVE  ProcInv(q)'
  <1>1. pc'[q] \in {"idle", "done", "failed"} /\ tx'[q] = NoTx
    BY DEF ProcInv, PlaceInv, Active, Same
  <1>2. QED
    BY <1>1 DEF ProcInv, PlaceInv, ApplyInv, RevertInv, Applying, Reverting, NoTx

LEMMA DbUnchanged == ASSUME DbInv, UNCHANGED database PROVE DbInv'
  BY DEF database, DbInv, InStep, Grounded, BatchOwned

(* A step that leaves the database alone keeps the invariant if it does so *)
(* where it changes its process.                                           *)
LEMMA LocalKeeps ==
  ASSUME Inv, NEW p \in Process, UNCHANGED database, \A q \in Process \ {p} : Same(q),
         TypeInv', Solo', OneCreates', ProcInv(p)'
  PROVE  Inv'
  <1>1. \A q \in Process \ {p} : ProcInv(q)'
    BY SameKeepsProc DEF Inv
  <1>2. QED
    BY <1>1, DbUnchanged DEF Inv

LEMMA SoloKept ==
  ASSUME Inv, NEW p \in Process, \A q \in Process \ {p} : Same(q),
         Active(p), phase'[p] \in {phase[p], "run"}
  PROVE  Solo'
  BY DEF Inv, Solo, Same, Active

LEMMA OneCreatesKept ==
  ASSUME Inv, NEW p \in Process, \A q \in Process \ {p} : Same(q),
         tx'[p].schema # "created" \/ (tx'[p].schema = tx[p].schema /\ at'[p] = at[p])
  PROVE  OneCreates'
  BY DEF Inv, OneCreates, Same, InHand

-----------------------------------------------------------------------------
(* The steps that leave the database alone, each where it takes a process. *)
LEMMA StartKeeps ==
  ASSUME Orderly, Inv, NEW p \in Process, NEW c \in Commands, Start(p, c)
  PROVE  Inv'
  <1> USE DEF Start, Goto
  <1>0. TypeInv /\ Solo /\ ProcInv(p) /\ ~Active(p) /\ UNCHANGED database
    BY DEF Inv
  <1>1. TypeInv' /\ \A q \in Process \ {p} : Same(q)
    BY <1>0, MigrationAssumption DEF TypeInv, Label, Phase, Same, database
  <1>2. /\ pc'[p] = IF c = "migrate:fresh" THEN "list" ELSE "ensure"
        /\ phase'[p] = CASE c = "migrate:fresh"   -> "fresh"
                         [] c = "migrate:refresh" -> "reset"
                         [] c = "migrate"         -> "run"
        /\ tx'[p] = tx[p] /\ at'[p] = at[p]
    BY <1>0 DEF TypeInv
  <1>3. tx[p] = NoTx
    BY <1>0 DEF ProcInv, PlaceInv, Active
  <1>4. Solo'
    <2>1. CASE Commands \subseteq {"migrate"}
      <3>1. c = "migrate" /\ phase'[p] = "run"
        BY <1>2, <2>1
      <3>2. \A q \in Process : phase'[q] = "run"
        BY <1>0, <1>1, <2>1, <3>1 DEF Solo, Same
      <3>3. QED
        BY <3>2 DEF Solo
    <2>2. CASE Disciplined /\ ~(Commands \subseteq {"migrate"})
      <3>1. \A q \in Process : Active(q) => c = "migrate" /\ phase[q] = "run"
        BY <2>2 DEF Admissible
      <3>2. \A q \in Process \ {p} : Active(q)' = Active(q) /\ phase'[q] = phase[q]
        BY <1>1 DEF Same, Active
      <3>3. \A a, b \in Process : a # b /\ Active(a)' /\ Active(b)' => phase'[a] = "run"
        <4>1. ASSUME NEW a \in Process, NEW b \in Process, a # b, Active(a)', Active(b)'
              PROVE  phase'[a] = "run"
          <5>1. CASE a = p
            <6>1. Active(b)
              BY <3>2, <4>1, <5>1
            <6>2. c = "migrate"
              BY <3>1, <6>1
            <6>3. QED
              BY <1>2, <5>1, <6>2
          <5>2. CASE a # p
            BY <3>1, <3>2, <4>1, <5>2
          <5>3. QED
            BY <5>1, <5>2
        <4>2. QED
          BY <4>1
      <3>4. QED
        BY <2>2, <3>3 DEF Solo
    <2>3. QED
      BY <2>1, <2>2 DEF Orderly
  <1>5. OneCreates'
    BY <1>1, <1>2, OneCreatesKept
  <1>6. ProcInv(p)'
    BY <1>2, <1>3, MigrationAssumption
    DEF ProcInv, PlaceInv, ApplyInv, RevertInv, Applying, Reverting, NoTx
  <1>7. QED
    BY <1>0, <1>1, <1>4, <1>5, <1>6, LocalKeeps

LEMMA ReadKeeps ==
  ASSUME Inv, NEW p \in Process, ListTables(p) \/ AppliedMigrations(p)
  PROVE  Inv'
  <1>0. TypeInv /\ ProcInv(p) /\ Active(p) /\ UNCHANGED database
    BY DEF Inv, ListTables, AppliedMigrations, Active
  <1>1. CASE ListTables(p)
    <2> USE <1>1 DEF ListTables, Goto
    <2>1. TypeInv' /\ \A q \in Process \ {p} : Same(q)
      BY <1>0 DEF TypeInv, Label, Same, database
    <2>2. /\ pc'[p] \in {"ensure", "drop"} /\ listed'[p] = tables /\ tables' = tables
          /\ tx'[p] = NoTx /\ phase'[p] = "fresh"
      BY <1>0 DEF TypeInv, ProcInv, PlaceInv, database
    <2>3. ProcInv(p)'
      BY <2>2 DEF ProcInv, PlaceInv, ApplyInv, RevertInv, Applying, Reverting, NoTx
    <2>4. Solo' /\ OneCreates'
      BY <1>0, <2>1, SoloKept, OneCreatesKept
    <2>5. QED
      BY <1>0, <2>1, <2>3, <2>4, LocalKeeps
  <1>2. CASE AppliedMigrations(p)
    <2> DEFINE last == NextDown(Len(Registered), DOMAIN recorded)
    <2> USE <1>2 DEF AppliedMigrations, Goto
    <2>1. last \in Nat
      BY RegisteredFacts, NextDownFacts
    <2> HIDE DEF last
    <2>2. TypeInv' /\ \A q \in Process \ {p} : Same(q)
      <3>1. \E l \in {"batch", "down", "ensure"}, f \in Phase, a \in Int :
              /\ pc' = [pc EXCEPT ![p] = l]
              /\ phase' = [phase EXCEPT ![p] = f]
              /\ at' = [at EXCEPT ![p] = a]
        <4>1. pc = [pc EXCEPT ![p] = pc[p]] /\ phase = [phase EXCEPT ![p] = phase[p]]
              /\ at = [at EXCEPT ![p] = at[p]] /\ phase[p] \in Phase /\ at[p] \in Int
          BY <1>0 DEF TypeInv
        <4>2. CASE phase[p] # "reset" /\ pc' = [pc EXCEPT ![p] = "batch"]
                   /\ phase' = phase /\ at' = at
          BY <4>1, <4>2
        <4>3. CASE pc' = [pc EXCEPT ![p] = "down"] /\ phase' = phase
                   /\ at' = [at EXCEPT ![p] = last]
          <5>1. /\ pc' = [pc EXCEPT ![p] = "down"]
                /\ phase' = [phase EXCEPT ![p] = phase[p]]
                /\ at' = [at EXCEPT ![p] = last]
            BY <4>1, <4>3
          <5>2. last \in Int /\ "down" \in {"batch", "down", "ensure"}
            BY <2>1
          <5>3. QED
            BY <4>1, <5>1, <5>2, Zenon
        <4>4. CASE pc' = [pc EXCEPT ![p] = "ensure"]
                   /\ phase' = [phase EXCEPT ![p] = "run"] /\ at' = at
          BY <4>1, <4>4 DEF Phase
        <4>5. QED
          BY <4>2, <4>3, <4>4 DEF last
      <3>2. pc' \in [Process -> Label] /\ phase' \in [Process -> Phase]
            /\ at' \in [Process -> Int]
            /\ \A q \in Process \ {p} :
                 pc'[q] = pc[q] /\ phase'[q] = phase[q] /\ at'[q] = at[q]
        BY <1>0, <3>1 DEF TypeInv, Label
      <3>3. applied' \in [Process -> SUBSET Name]
            /\ \A q \in Process \ {p} : applied'[q] = applied[q]
        BY <1>0 DEF TypeInv
      <3>4. QED
        BY <1>0, <3>2, <3>3 DEF TypeInv, Same, database
    <2>3. tx'[p] = NoTx /\ applied'[p] = DOMAIN recorded /\ recorded' = recorded
      BY <1>0 DEF TypeInv, ProcInv, PlaceInv, database
    <2>4. ProcInv(p)'
      <3>1. CASE pc'[p] \in {"batch", "ensure"} /\ (pc'[p] = "batch" => phase'[p] # "reset")
        BY <2>3, <3>1 DEF ProcInv, PlaceInv, ApplyInv, RevertInv, Applying, Reverting, NoTx
      <3>2. CASE pc'[p] = "down" /\ phase'[p] = "reset" /\ at'[p] = last /\ last # 0
        <4>1. /\ last \in DOMAIN Registered
              /\ \A i \in DOMAIN Registered : i > last => ~Done(i)
          <5>1. \A i \in DOMAIN Registered : i <= Len(Registered)
            BY RegisteredFacts
          <5>2. QED
            BY <3>2, <5>1, RegisteredFacts, NextDownFacts DEF last, Done
        <4>2. QED
          BY <2>3, <3>2, <4>1
          DEF ProcInv, PlaceInv, ApplyInv, RevertInv, Applying, Reverting, NoTx, Done
      <3>3. QED
        BY <1>0, <3>1, <3>2 DEF TypeInv, last
    <2>5. phase'[p] \in {phase[p], "run"}
      BY <1>0 DEF TypeInv
    <2>6. Solo' /\ OneCreates'
      BY <1>0, <2>2, <2>3, <2>5, SoloKept, OneCreatesKept DEF NoTx
    <2>7. QED
      BY <1>0, <2>2, <2>4, <2>6, LocalKeeps
  <1>3. QED
    BY <1>1, <1>2

(* Where RunFrom takes a process that has everything before index i behind *)
(* it.                                                                     *)
LEMMA RunFromFacts ==
  ASSUME TypeInv, NEW p \in Process, NEW i \in Int, RunFrom(p, i),
         \A j \in DOMAIN Registered : j < i => Registered[j] \in DOMAIN recorded',
         applied[p] \subseteq DOMAIN recorded'
  PROVE  /\ at'[p] \in Nat /\ pc'[p] \in {"done", "up"}
         /\ pc'[p] = "up" => at'[p] \in DOMAIN Registered
         /\ \A j \in DOMAIN Registered :
              pc'[p] = "done" \/ j < at'[p] => Registered[j] \in DOMAIN recorded'
         /\ at' \in [Process -> Int] /\ pc' \in [Process -> Label]
         /\ \A q \in Process \ {p} : at'[q] = at[q] /\ pc'[q] = pc[q]
  <1> DEFINE next == NextUp(i, applied[p])
  <1>1. /\ next # 0 => next \in DOMAIN Registered /\ next >= i
        /\ \A j \in DOMAIN Registered :
             j >= i /\ (next = 0 \/ j < next) => Registered[j] \in applied[p]
        /\ next \in Nat
    BY NextUpFacts
  <1> HIDE DEF next
  <1>2. /\ at' = [at EXCEPT ![p] = next]
        /\ pc' = [pc EXCEPT ![p] = IF next = 0 THEN "done" ELSE "up"]
    BY DEF RunFrom, Goto, next
  <1>3. at'[p] = next /\ pc'[p] = IF next = 0 THEN "done" ELSE "up"
    BY <1>2 DEF TypeInv
  <1>4. ASSUME NEW j \in DOMAIN Registered, next = 0 \/ j < next
        PROVE  Registered[j] \in DOMAIN recorded'
    <2>1. j \in Int
      BY RegisteredFacts
    <2>2. CASE j < i
      BY <2>2
    <2>3. CASE j >= i
      BY <1>1, <1>4, <2>3
    <2>4. QED
      BY <2>1, <2>2, <2>3
  <1>5. QED
    BY <1>1, <1>2, <1>3, <1>4 DEF TypeInv, Label

LEMMA NextBatchKeeps ==
  ASSUME Inv, NEW p \in Process, NextBatch(p)
  PROVE  Inv'
  <1> USE DEF NextBatch
  <1>0. /\ TypeInv /\ DbInv /\ ProcInv(p) /\ Active(p) /\ UNCHANGED database
        /\ recorded' = recorded
    BY DEF Inv, Active, database
  <1>1. LastBatch \in Nat /\ \A n \in DOMAIN recorded : recorded[n].batch <= LastBatch
    BY <1>0, LastBatchFacts
  <1>2. applied[p] \subseteq DOMAIN recorded /\ phase[p] # "reset" /\ tx[p] = NoTx
    BY <1>0 DEF ProcInv, PlaceInv, ApplyInv, Applying
  <1>3. /\ at'[p] \in Nat /\ pc'[p] \in {"done", "up"}
        /\ pc'[p] = "up" => at'[p] \in DOMAIN Registered
        /\ \A j \in DOMAIN Registered : j < at'[p] \/ pc'[p] = "done" => Done(j)
        /\ at' \in [Process -> Int] /\ pc' \in [Process -> Label]
        /\ \A q \in Process \ {p} : at'[q] = at[q] /\ pc'[q] = pc[q]
    <2>1. \A j \in DOMAIN Registered : ~(j < 1)
      BY RegisteredFacts
    <2>2. QED
      BY <1>0, <1>2, <2>1, RunFromFacts DEF Done
  <1>4. TypeInv' /\ \A q \in Process \ {p} : Same(q)
    BY <1>0, <1>1, <1>3 DEF TypeInv, Same, database
  <1>5. batch'[p] = LastBatch + 1 /\ tx'[p] = NoTx /\ applied'[p] = applied[p]
        /\ phase'[p] = phase[p]
    BY <1>0, <1>2 DEF TypeInv
  <1>6. \A n \in DOMAIN recorded : recorded[n].batch # batch'[p]
    BY <1>0, <1>1, <1>5 DEF TypeInv
  <1>7. ProcInv(p)'
    BY <1>0, <1>2, <1>3, <1>5, <1>6
    DEF ProcInv, PlaceInv, ApplyInv, RevertInv, Applying, Reverting, NoTx, Done
  <1>8. Solo' /\ OneCreates'
    BY <1>0, <1>4, <1>5, SoloKept, OneCreatesKept DEF NoTx
  <1>9. QED
    BY <1>0, <1>4, <1>7, <1>8, LocalKeeps

(* A statement inside a transaction changes only where its process is and  *)
(* what the transaction has done.                                          *)
Tx == [schema : {"none", "skipped", "created", "dropped", "absent"},
       row : {"none", "insert", "delete", "miss"}]

LEMMA StatementFacts ==
  ASSUME Inv, NEW p \in Process, Active(p),
         UNCHANGED <<database, given, phase, self, listed, applied, batch, at>>,
         NEW t \in Tx, tx' = [tx EXCEPT ![p] = t], NEW l \in Label, Goto(p, l)
  PROVE  /\ UNCHANGED database /\ TypeInv' /\ Solo' /\ \A q \in Process \ {p} : Same(q)
         /\ pc'[p] = l /\ tx'[p] = t
         /\ t.schema # "created" \/ t.schema = tx[p].schema => OneCreates'
  <1>0. TypeInv
    BY DEF Inv
  <1>1. TypeInv' /\ \A q \in Process \ {p} : Same(q)
    BY <1>0 DEF TypeInv, Same, database, Goto, Tx
  <1>2. pc'[p] = l /\ tx'[p] = t /\ phase'[p] = phase[p] /\ at'[p] = at[p]
    BY <1>0 DEF TypeInv, Goto
  <1>3. Solo'
    BY <1>1, <1>2, SoloKept
  <1>4. t.schema # "created" \/ t.schema = tx[p].schema => OneCreates'
    BY <1>1, <1>2, OneCreatesKept
  <1>5. QED
    BY <1>1, <1>2, <1>3, <1>4

LEMMA UpKeeps ==
  ASSUME Inv, NEW p \in Process, UpSkips(p) \/ UpCreates(p)
  PROVE  Inv'
  <1>0. /\ TypeInv /\ ProcInv(p) /\ pc[p] = "up" /\ Active(p) /\ tx[p] = NoTx
        /\ UNCHANGED <<database, given, phase, self, listed, applied, batch, at>>
    BY DEF Inv, UpSkips, UpCreates, Active, ProcInv, PlaceInv
  <1>1. CASE UpSkips(p)
    <2> DEFINE t == [schema |-> "skipped", row |-> "none"]
    <2>1. tx' = [tx EXCEPT ![p] = t] /\ Goto(p, "record") /\ InHand(p) \in tables
      <3>1. [tx[p] EXCEPT !.schema = "skipped"] = t
        BY <1>0 DEF NoTx
      <3>2. tx' = [tx EXCEPT ![p] = [tx[p] EXCEPT !.schema = "skipped"]]
        BY <1>1 DEF UpSkips
      <3> HIDE DEF t
      <3>3. QED
        BY <1>1, <3>1, <3>2 DEF UpSkips
    <2>2. t \in Tx /\ "record" \in Label /\ t.schema # "created"
      BY DEF Tx, Label
    <2> HIDE DEF t
    <2>3. /\ UNCHANGED database /\ TypeInv' /\ Solo' /\ OneCreates'
          /\ \A q \in Process \ {p} : Same(q)
          /\ pc'[p] = "record" /\ tx'[p] = t
      BY <1>0, <2>1, <2>2, StatementFacts
    <2>4. ProcInv(p)'
      BY <1>0, <2>1, <2>3
      DEF ProcInv, PlaceInv, ApplyInv, RevertInv, Applying, Reverting, InHand, Done,
          database, t
    <2>5. QED
      BY <2>3, <2>4, LocalKeeps
  <1>2. CASE UpCreates(p)
    <2> DEFINE t == [schema |-> "created", row |-> "none"]
    <2>1. /\ tx' = [tx EXCEPT ![p] = t] /\ Goto(p, "record")
          /\ InHand(p) \notin tables /\ Refers[InHand(p)] \subseteq tables
          /\ ~Contended(p, {"created"})
      <3>1. [tx[p] EXCEPT !.schema = "created"] = t
        BY <1>0 DEF NoTx
      <3>2. tx' = [tx EXCEPT ![p] = [tx[p] EXCEPT !.schema = "created"]]
        BY <1>2 DEF UpCreates
      <3> HIDE DEF t
      <3>3. QED
        BY <1>2, <3>1, <3>2 DEF UpCreates
    <2>2. t \in Tx /\ "record" \in Label
      BY DEF Tx, Label
    <2> HIDE DEF t
    <2>3. /\ UNCHANGED database /\ TypeInv' /\ Solo'
          /\ \A q \in Process \ {p} : Same(q)
          /\ pc'[p] = "record" /\ tx'[p] = t
      BY <1>0, <2>1, <2>2, StatementFacts
    <2>4. ProcInv(p)'
      BY <1>0, <2>1, <2>3
      DEF ProcInv, PlaceInv, ApplyInv, RevertInv, Applying, Reverting, InHand, Done,
          database, t
    <2>5. OneCreates'
      <3>1. \A q \in Process \ {p} : tx[q].schema = "created" => InHand(q) # InHand(p)
        BY <2>1 DEF Contended
      <3>2. \A q \in Process : InHand(q)' = InHand(q)
        BY <1>0 DEF InHand
      <3>3. \A q \in Process \ {p} : tx'[q] = tx[q]
        BY <2>3 DEF Same
      <3>4. OneCreates
        BY DEF Inv
      <3>5. QED
        BY <3>1, <3>2, <3>3, <3>4 DEF OneCreates
    <2>6. QED
      BY <2>3, <2>4, <2>5, LocalKeeps
  <1>3. QED
    BY <1>1, <1>2

(* A table that was there is one on record: the insert is rejected.        *)
LEMMA RecordKeeps ==
  ASSUME Inv, NEW p \in Process, Record(p)
  PROVE  Inv'
  <1>0. /\ TypeInv /\ ProcInv(p) /\ pc[p] = "record" /\ Active(p) /\ InStep
        /\ UNCHANGED <<database, given, phase, self, listed, applied, batch, at>>
    BY DEF Inv, DbInv, Record, Active
  <1>1. /\ at[p] \in DOMAIN Registered
        /\ tx[p] \in [schema : {"skipped", "created"}, row : {"none"}]
    BY <1>0 DEF ProcInv, PlaceInv, Applying
  <1>2. Ledger \in tables /\ InHand(p) \notin DOMAIN recorded
    BY <1>0 DEF Record, Rejected
  <1>3. tx[p].schema # "skipped"
    BY <1>0, <1>1, <1>2, RegisteredFacts DEF InStep, InHand, ProcInv, ApplyInv
  <1> DEFINE t == [schema |-> "created", row |-> "insert"]
  <1>4. tx[p] = [schema |-> "created", row |-> "none"]
    BY <1>1, <1>3
  <1>5. tx' = [tx EXCEPT ![p] = t] /\ Goto(p, "commit")
    <2>1. [tx[p] EXCEPT !.row = "insert"] = t
      BY <1>4
    <2>2. tx' = [tx EXCEPT ![p] = [tx[p] EXCEPT !.row = "insert"]]
      BY DEF Record
    <2> HIDE DEF t
    <2>3. QED
      BY <2>1, <2>2 DEF Record
  <1>6. t \in Tx /\ "commit" \in Label /\ t.schema = tx[p].schema
    BY <1>4 DEF Tx, Label
  <1> HIDE DEF t
  <1>7. /\ UNCHANGED database /\ TypeInv' /\ Solo' /\ OneCreates'
        /\ \A q \in Process \ {p} : Same(q)
        /\ pc'[p] = "commit" /\ tx'[p] = t
    BY <1>0, <1>5, <1>6, StatementFacts
  <1>8. ProcInv(p)'
    BY <1>0, <1>2, <1>4, <1>7
    DEF ProcInv, PlaceInv, ApplyInv, RevertInv, Applying, Reverting, InHand, Done,
        database, t
  <1>9. QED
    BY <1>7, <1>8, LocalKeeps

LEMMA DownKeeps ==
  ASSUME Inv, NEW p \in Process, Down(p) \/ Forget(p)
  PROVE  Inv'
  <1>0. /\ TypeInv /\ ProcInv(p) /\ pc[p] \in {"down", "forget"} /\ Active(p) /\ ~Rejected(p)
        /\ UNCHANGED <<database, given, phase, self, listed, applied, batch, at>>
    BY DEF Inv, Down, Forget, Active
  <1>1. CASE Down(p)
    <2> DEFINE t == [schema |-> IF InHand(p) \in tables THEN "dropped" ELSE "absent",
                     row |-> "none"]
    <2>1. pc[p] = "down" /\ tx[p] = NoTx /\ \A k \in keys : k[2] # InHand(p)
      BY <1>0, <1>1 DEF Down, Rejected, ProcInv, PlaceInv
    <2>2. tx' = [tx EXCEPT ![p] = t] /\ Goto(p, "forget")
      <3> DEFINE doing == IF InHand(p) \in tables THEN "dropped" ELSE "absent"
      <3>1. [tx[p] EXCEPT !.schema = doing] = t
        BY <2>1 DEF NoTx
      <3>2. tx' = [tx EXCEPT ![p] = [tx[p] EXCEPT !.schema = doing]]
        BY <1>1 DEF Down
      <3> HIDE DEF t, doing
      <3>3. QED
        BY <1>1, <3>1, <3>2 DEF Down
    <2>3. t \in Tx /\ "forget" \in Label /\ t.schema # "created" /\ t.row = "none"
          /\ t \in [schema : {"dropped", "absent"}, row : {"none"}]
          /\ (t.schema = "dropped" <=> InHand(p) \in tables)
      BY DEF Tx, Label
    <2> HIDE DEF t
    <2>4. /\ UNCHANGED database /\ TypeInv' /\ Solo' /\ OneCreates'
          /\ \A q \in Process \ {p} : Same(q)
          /\ pc'[p] = "forget" /\ tx'[p] = t
      BY <1>0, <2>2, <2>3, StatementFacts
    <2>5. ProcInv(p)'
      BY <1>0, <2>1, <2>3, <2>4
      DEF ProcInv, PlaceInv, ApplyInv, RevertInv, Applying, Reverting, InHand, Done,
          database
    <2>6. QED
      BY <2>4, <2>5, LocalKeeps
  <1>2. CASE Forget(p)
    <2> DEFINE t == [tx[p] EXCEPT !.row =
                       IF InHand(p) \in DOMAIN recorded THEN "delete" ELSE "miss"]
    <2>1. /\ pc[p] = "forget"
          /\ tx[p] \in [schema : {"dropped", "absent"}, row : {"none"}]
      BY <1>0, <1>2 DEF Forget, ProcInv, PlaceInv
    <2>2. tx' = [tx EXCEPT ![p] = t] /\ Goto(p, "uncommit")
      BY <1>0, <1>2 DEF Forget, TypeInv
    <2>3. t \in Tx /\ "uncommit" \in Label /\ t.schema # "created" /\ t.schema = tx[p].schema
          /\ t \in [schema : {"dropped", "absent"}, row : {"delete", "miss"}]
          /\ (t.row = "delete" <=> Done(at[p]))
      BY <2>1 DEF Tx, Label, Done, InHand
    <2> HIDE DEF t
    <2>4. /\ UNCHANGED database /\ TypeInv' /\ Solo' /\ OneCreates'
          /\ \A q \in Process \ {p} : Same(q)
          /\ pc'[p] = "uncommit" /\ tx'[p] = t
      BY <1>0, <2>2, <2>3, StatementFacts
    <2>5. ProcInv(p)'
      BY <1>0, <2>1, <2>3, <2>4
      DEF ProcInv, PlaceInv, ApplyInv, RevertInv, Applying, Reverting, InHand, Done,
          database
    <2>6. QED
      BY <2>4, <2>5, LocalKeeps
  <1>3. QED
    BY <1>1, <1>2

LEMMA FailKeeps ==
  ASSUME Inv, NEW p \in Process, Fail(p)
  PROVE  Inv'
  <1>0. /\ TypeInv /\ ProcInv(p) /\ Active(p)
        /\ UNCHANGED <<database, given, phase, self, listed, applied, batch, at>>
        /\ tx' = [tx EXCEPT ![p] = NoTx] /\ Goto(p, "failed")
    BY DEF Inv, Fail
  <1>1. NoTx \in Tx /\ "failed" \in Label /\ NoTx.schema # "created"
    BY DEF NoTx, Tx, Label
  <1>2. /\ UNCHANGED database /\ TypeInv' /\ Solo' /\ OneCreates'
        /\ \A q \in Process \ {p} : Same(q)
        /\ pc'[p] = "failed" /\ tx'[p] = NoTx
    BY <1>0, <1>1, StatementFacts
  <1>3. ProcInv(p)'
    BY <1>0, <1>2
    DEF ProcInv, PlaceInv, ApplyInv, RevertInv, Applying, Reverting, NoTx
  <1>4. QED
    BY <1>2, <1>3, LocalKeeps

-----------------------------------------------------------------------------
(* The steps that change the database.                                     *)

(* Beside a rollback or a rebuild nothing runs.                            *)
LEMMA AloneKeeps ==
  ASSUME Inv, NEW p \in Process, Active(p), phase[p] # "run", \A q \in Process \ {p} : Same(q)
  PROVE  \A q \in Process \ {p} : ProcInv(q)'
  <1>1. \A q \in Process \ {p} : ~Active(q) /\ ProcInv(q)
    BY DEF Inv, Solo
  <1>2. QED
    BY <1>1, IdleKeepsProc

LEMMA EnsureKeeps ==
  ASSUME Inv, NEW p \in Process, EnsureRepository(p)
  PROVE  Inv'
  <1> USE DEF EnsureRepository, Goto
  <1>0. TypeInv /\ DbInv /\ Solo /\ ProcInv(p) /\ Active(p)
    BY DEF Inv, Active
  <1>1. TypeInv' /\ \A q \in Process \ {p} : Same(q)
    BY <1>0 DEF TypeInv, Label, Same
  <1>2. pc'[p] = "applied" /\ tx'[p] = NoTx /\ phase'[p] = phase[p]
    BY <1>0 DEF TypeInv, ProcInv, PlaceInv
  <1>3. DbInv'
    <2>1. \A n \in Name : n \in tables' <=> n \in tables
      BY RegisteredFacts
    <2>2. InStep' /\ BatchOwned'
      BY <1>0, <2>1 DEF DbInv, InStep, BatchOwned
    <2>3. Grounded'
      BY <1>0, <2>1 DEF DbInv, Grounded
    <2>4. QED
      BY <1>0, <2>2, <2>3 DEF DbInv
  <1>4. ASSUME NEW q \in Process \ {p} PROVE ProcInv(q)'
    <2>0. ProcInv(q) /\ Same(q)
      BY <1>1 DEF Inv
    <2>1. PlaceInv(q)'
      <3>1. pc[q] # "drop"
        BY <1>0, <2>0 DEF Solo, Active, ProcInv, PlaceInv
      <3>2. QED
        BY <2>0, <3>1 DEF ProcInv, PlaceInv, Same, NoTx
    <2>2. /\ pc[q] \in Applying \cup Reverting => InHand(q) # Ledger
          /\ tx[q].schema \in {"created", "skipped"} => pc[q] \in Applying \cup Reverting
      BY <2>0, RegisteredFacts
      DEF InHand, ProcInv, PlaceInv, Applying, Reverting, NoTx
    <2>3. ApplyInv(q)'
      BY <2>0, <2>2 DEF ProcInv, ApplyInv, Same, InHand, Done
    <2>4. RevertInv(q)'
      BY <2>0, <2>2 DEF ProcInv, RevertInv, Same, InHand, Done, Reverting
    <2>5. QED
      BY <2>1, <2>3, <2>4 DEF ProcInv
  <1>5. ProcInv(p)'
    BY <1>2 DEF ProcInv, PlaceInv, ApplyInv, RevertInv, Applying, Reverting, NoTx
  <1>6. Solo' /\ OneCreates'
    BY <1>0, <1>1, <1>2, SoloKept, OneCreatesKept DEF NoTx
  <1>7. QED
    BY <1>1, <1>3, <1>4, <1>5, <1>6 DEF Inv

LEMMA DropKeeps ==
  ASSUME Inv, NEW p \in Process, DropListed(p)
  PROVE  Inv'
  <1> USE DEF DropListed, Goto
  <1>0. TypeInv /\ DbInv /\ ProcInv(p) /\ Active(p) /\ pc[p] = "drop"
    BY DEF Inv, Active
  <1>1. listed[p] = tables /\ phase[p] = "fresh" /\ tx[p] = NoTx
    BY <1>0 DEF ProcInv, PlaceInv
  <1>2. tables' = {} /\ keys' = {} /\ DOMAIN recorded' = {}
    BY <1>0, <1>1 DEF DbInv
  <1>3. TypeInv' /\ \A q \in Process \ {p} : Same(q)
    BY <1>0, <1>2 DEF TypeInv, Label, Same
  <1>4. pc'[p] = "ensure" /\ tx'[p] = NoTx /\ phase'[p] = phase[p]
    BY <1>0, <1>1 DEF TypeInv
  <1>5. DbInv'
    <2>1. InStep' /\ Grounded' /\ BatchOwned'
      BY <1>2 DEF InStep, Grounded, BatchOwned
    <2>2. QED
      BY <1>2, <2>1 DEF DbInv
  <1>6. \A q \in Process \ {p} : ProcInv(q)'
    BY <1>0, <1>1, <1>3, AloneKeeps
  <1>7. ProcInv(p)'
    BY <1>4 DEF ProcInv, PlaceInv, ApplyInv, RevertInv, Applying, Reverting, NoTx
  <1>8. Solo' /\ OneCreates'
    BY <1>0, <1>3, <1>4, SoloKept, OneCreatesKept DEF NoTx
  <1>9. QED
    BY <1>3, <1>5, <1>6, <1>7, <1>8 DEF Inv

(* What a commit of a migration leaves: it was the next one of its run,    *)
(* nobody had recorded it, and nobody else can any more.                   *)
LEMMA ApplyCommits ==
  ASSUME Inv, NEW p \in Process, CommitApply(p), \A q \in Process \ {p} : Same(q)
  PROVE  /\ DbInv' /\ \A q \in Process \ {p} : ProcInv(q)'
         /\ tables' \subseteq Name \cup {Ledger} /\ keys' \subseteq Name \X Name
         /\ DOMAIN recorded' \subseteq Name
         /\ \A n \in DOMAIN recorded' : recorded'[n] \in [batch : Nat, by : Nat]
         /\ at[p] \in DOMAIN Registered /\ tx' = [tx EXCEPT ![p] = NoTx]
         /\ applied[p] \subseteq DOMAIN recorded'
         /\ \A i \in DOMAIN Registered : i < at[p] + 1 => Registered[i] \in DOMAIN recorded'
         /\ \A n \in DOMAIN recorded' :
              recorded'[n].batch = batch[p] => recorded'[n].by = self[p]
  <1> DEFINE n == InHand(p)
  <1>0. /\ TypeInv /\ DbInv /\ Solo /\ OneCreates /\ ProcInv(p) /\ Active(p) /\ pc[p] = "commit"
        /\ InStep /\ Grounded /\ BatchOwned
    BY DEF Inv, DbInv, Active, CommitApply
  <1>1. /\ at[p] \in DOMAIN Registered /\ tx[p].schema = "created"
        /\ n \notin tables /\ Refers[n] \subseteq tables /\ Ledger \in tables
        /\ applied[p] \subseteq DOMAIN recorded
        /\ \A i \in DOMAIN Registered : i < at[p] => Done(i)
    BY <1>0 DEF ProcInv, PlaceInv, ApplyInv, Applying
  <1>2. n \in Name /\ n = Registered[at[p]] /\ Refers[n] \subseteq Name /\ n # Ledger
    BY <1>1, RegisteredFacts DEF InHand
  <1>3. n \notin DOMAIN recorded /\ ~Done(at[p])
    BY <1>0, <1>1, <1>2 DEF InStep, Done
  <1>4. \A m \in DOMAIN recorded : recorded[m].batch = batch[p] => recorded[m].by = self[p]
    BY <1>0, <1>3 DEF ProcInv, ApplyInv, Applying
  <1>5. /\ tables' = tables \cup {n} /\ keys' = keys \cup {<<n, r>> : r \in Refers[n]}
        /\ tx' = [tx EXCEPT ![p] = NoTx]
        /\ recorded' = [m \in DOMAIN recorded \cup {n} |->
                          IF m = n THEN [batch |-> batch[p], by |-> self[p]] ELSE recorded[m]]
    BY <1>1 DEF CommitApply
  <1> HIDE DEF n
  <1>6. /\ DOMAIN recorded' = DOMAIN recorded \cup {n}
        /\ recorded'[n] = [batch |-> batch[p], by |-> self[p]]
        /\ \A m \in DOMAIN recorded : recorded'[m] = recorded[m]
    BY <1>3, <1>5
  <1>7. /\ \A i \in DOMAIN Registered : i < at[p] + 1 => Registered[i] \in DOMAIN recorded'
        /\ applied[p] \subseteq DOMAIN recorded'
        /\ \A m \in DOMAIN recorded' :
             recorded'[m].batch = batch[p] => recorded'[m].by = self[p]
    <2>1. ASSUME NEW i \in DOMAIN Registered, i < at[p] + 1 PROVE Registered[i] \in DOMAIN recorded'
      <3>1. i = at[p] \/ i < at[p]
        BY <1>1, <2>1, RegisteredFacts
      <3>2. QED
        BY <1>1, <1>2, <1>6, <3>1 DEF Done
    <2>2. QED
      BY <1>1, <1>4, <1>6, <2>1
  <1>8. /\ tables' \subseteq Name \cup {Ledger} /\ keys' \subseteq Name \X Name
        /\ DOMAIN recorded' \subseteq Name
        /\ \A m \in DOMAIN recorded' : recorded'[m] \in [batch : Nat, by : Nat]
    <2>1. <<batch[p], self[p]>> \in Nat \X Nat
      BY <1>0 DEF TypeInv
    <2>2. QED
      BY <1>0, <1>2, <1>5, <1>6, <2>1 DEF TypeInv
  <1>9. DbInv'
    <2>1. InStep'
      BY <1>0, <1>2, <1>5, <1>6 DEF InStep
    <2>2. Grounded'
      <3>1. ASSUME NEW i \in DOMAIN Registered, NEW j \in DOMAIN Registered, i < j,
                   Registered[j] \in DOMAIN recorded'
            PROVE  Registered[i] \in DOMAIN recorded'
        <4>1. CASE Registered[j] = n
          BY <1>1, <1>2, <1>6, <3>1, <4>1, RegisteredFacts DEF Done
        <4>2. CASE Registered[j] # n
          BY <1>0, <1>6, <3>1, <4>2 DEF Grounded
        <4>3. QED
          BY <4>1, <4>2
      <3>2. ASSUME NEW m \in tables' \cap Name, NEW r \in Refers[m]
            PROVE  r \in tables' /\ <<m, r>> \in keys'
        <4>1. CASE m = n
          BY <1>1, <1>5, <3>2, <4>1
        <4>2. CASE m # n
          BY <1>0, <1>5, <3>2, <4>2 DEF Grounded
        <4>3. QED
          BY <4>1, <4>2
      <3>3. QED
        BY <3>1, <3>2 DEF Grounded
    <2>3. BatchOwned'
      <3>1. ASSUME NEW a \in DOMAIN recorded', NEW b \in DOMAIN recorded',
                   recorded'[a].batch = recorded'[b].batch
            PROVE  recorded'[a].by = recorded'[b].by
        <4>1. CASE a = n \/ b = n
          BY <1>6, <1>7, <3>1, <4>1
        <4>2. CASE a # n /\ b # n
          BY <1>0, <1>6, <3>1, <4>2 DEF BatchOwned
        <4>3. QED
          BY <4>1, <4>2
      <3>2. QED
        BY <3>1 DEF BatchOwned
    <2>4. Ledger \in tables' /\ \A k \in keys' : k[1] \in tables'
      BY <1>0, <1>1, <1>5 DEF DbInv
    <2>5. \E last \in Nat : \A m \in DOMAIN recorded' : recorded'[m].batch <= last
      <3>1. PICK last \in Nat : \A m \in DOMAIN recorded : recorded[m].batch <= last
        BY <1>0 DEF DbInv
      <3>2. batch[p] \in Nat /\ last + batch[p] \in Nat
        BY <1>0 DEF TypeInv
      <3>3. ASSUME NEW m \in DOMAIN recorded' PROVE recorded'[m].batch <= last + batch[p]
        <4>1. CASE m = n
          BY <1>6, <3>2, <4>1
        <4>2. CASE m # n
          <5>1. recorded'[m].batch = recorded[m].batch /\ recorded[m].batch <= last
                /\ recorded[m].batch \in Nat
            BY <1>0, <1>6, <3>1, <3>3, <4>2 DEF TypeInv
          <5>2. QED
            BY <3>2, <5>1
        <4>3. QED
          BY <4>1, <4>2
      <3>4. QED
        BY <3>2, <3>3
    <2>6. QED
      BY <2>1, <2>2, <2>3, <2>4, <2>5 DEF DbInv
  <1>10. ASSUME NEW q \in Process \ {p} PROVE ProcInv(q)'
    <2>0. ProcInv(q) /\ Same(q)
      BY DEF Inv
    <2>1. pc[q] # "drop" /\ pc[q] \notin Reverting
      BY <1>0, <2>0 DEF Solo, Active, ProcInv, PlaceInv, Reverting
    <2>2. PlaceInv(q)'
      BY <2>0, <2>1 DEF ProcInv, PlaceInv, Same, NoTx
    <2>3. RevertInv(q)'
      BY <2>0, <2>1 DEF ProcInv, RevertInv, Same, Reverting
    <2>4. /\ pc'[q] = "batch" => applied'[q] \subseteq DOMAIN recorded'
          /\ pc'[q] = "commit" => Ledger \in tables'
          /\ tx'[q].schema = "skipped" => InHand(q)' \in tables'
      BY <1>5, <1>6, <2>0 DEF ProcInv, ApplyInv, Same, InHand
    <2>5. tx'[q].schema = "created" => InHand(q)' \notin tables' /\ Refers[InHand(q)'] \subseteq tables'
      <3>1. tx[q].schema = "created" => InHand(q) # n
        BY <1>0, <1>1 DEF OneCreates, n
      <3>2. QED
        BY <1>5, <2>0, <3>1 DEF ProcInv, ApplyInv, Same, InHand
    <2>6. ASSUME pc'[q] \in Applying
          PROVE  /\ applied'[q] \subseteq DOMAIN recorded'
                 /\ \A i \in DOMAIN Registered : i < at'[q] => Done(i)'
                 /\ ~Done(at[q])' => \A m \in DOMAIN recorded' :
                      recorded'[m].batch = batch'[q] => recorded'[m].by = self'[q]
      <3>1. /\ pc[q] \in Applying /\ at[q] \in DOMAIN Registered
            /\ applied[q] \subseteq DOMAIN recorded
            /\ \A i \in DOMAIN Registered : i < at[q] => Done(i)
            /\ ~Done(at[q]) => \A m \in DOMAIN recorded :
                 recorded[m].batch = batch[q] => recorded[m].by = self[q]
        BY <2>0, <2>6 DEF ProcInv, PlaceInv, ApplyInv, Same
      <3>2. ~Done(at[q])' => ~Done(at[q]) /\ at[q] # at[p]
        BY <1>2, <1>6, <2>0 DEF Same, Done
      <3>3. Done(at[q])'
        <4>1. CASE at[q] = at[p]
          BY <3>2, <4>1
        <4>2. CASE at[q] < at[p]
          BY <1>1, <3>1, <3>2, <4>2
        <4>3. CASE at[q] > at[p]
          BY <1>1, <1>3, <3>1, <4>3, RegisteredFacts
        <4>4. QED
          BY <1>1, <3>1, <4>1, <4>2, <4>3, RegisteredFacts
      <3>4. QED
        BY <1>6, <2>0, <3>1, <3>3 DEF Same, Done
    <2>7. ApplyInv(q)'
      BY <2>4, <2>5, <2>6 DEF ApplyInv
    <2>8. QED
      BY <2>2, <2>3, <2>7 DEF ProcInv
  <1>11. QED
    BY <1>1, <1>5, <1>7, <1>8, <1>9, <1>10

LEMMA AppliedKeeps ==
  ASSUME Inv, NEW p \in Process, Applied(p)
  PROVE  Inv'
  <1>0. TypeInv /\ ProcInv(p) /\ Active(p) /\ pc[p] = "commit" /\ at[p] \in DOMAIN Registered
        /\ CommitApply(p) /\ RunFrom(p, at[p] + 1)
    BY DEF Inv, Applied, CommitApply, Active, ProcInv, PlaceInv, Applying
  <1>1. at[p] + 1 \in Int /\ phase[p] # "reset"
    BY <1>0, RegisteredFacts DEF ProcInv, PlaceInv, Applying
  <1>2. \A q \in Process \ {p} : Same(q)
    BY <1>0 DEF TypeInv, Same, CommitApply, RunFrom, Goto
  <1>3. /\ DbInv' /\ \A q \in Process \ {p} : ProcInv(q)'
        /\ tables' \subseteq Name \cup {Ledger} /\ keys' \subseteq Name \X Name
        /\ DOMAIN recorded' \subseteq Name
        /\ \A n \in DOMAIN recorded' : recorded'[n] \in [batch : Nat, by : Nat]
        /\ at[p] \in DOMAIN Registered /\ tx' = [tx EXCEPT ![p] = NoTx]
        /\ applied[p] \subseteq DOMAIN recorded'
        /\ \A i \in DOMAIN Registered : i < at[p] + 1 => Registered[i] \in DOMAIN recorded'
        /\ \A n \in DOMAIN recorded' :
             recorded'[n].batch = batch[p] => recorded'[n].by = self[p]
    BY <1>0, <1>2, ApplyCommits
  <1>4. /\ at'[p] \in Nat /\ pc'[p] \in {"done", "up"}
        /\ pc'[p] = "up" => at'[p] \in DOMAIN Registered
        /\ \A j \in DOMAIN Registered :
             pc'[p] = "done" \/ j < at'[p] => Registered[j] \in DOMAIN recorded'
        /\ at' \in [Process -> Int] /\ pc' \in [Process -> Label]
    BY <1>0, <1>1, <1>3, RunFromFacts
  <1>5. UNCHANGED <<given, phase, self, listed, applied, batch>>
    BY <1>0 DEF CommitApply
  <1>6. tx'[p] = NoTx
    BY <1>0, <1>3 DEF TypeInv
  <1>7. TypeInv'
    BY <1>0, <1>3, <1>4, <1>5 DEF TypeInv, NoTx
  <1>8. ProcInv(p)'
    BY <1>1, <1>3, <1>4, <1>5, <1>6
    DEF ProcInv, PlaceInv, ApplyInv, RevertInv, Applying, Reverting, NoTx, Done
  <1>9. Solo' /\ OneCreates'
    BY <1>0, <1>2, <1>5, <1>6, SoloKept, OneCreatesKept DEF NoTx
  <1>10. QED
    BY <1>3, <1>7, <1>8, <1>9 DEF Inv

(* What a commit of a rollback leaves: the table in hand, which nothing    *)
(* refers to, and its row, the last there was, are gone together.          *)
LEMMA RevertCommits ==
  ASSUME Inv, NEW p \in Process, CommitRevert(p), \A q \in Process \ {p} : Same(q)
  PROVE  /\ DbInv' /\ \A q \in Process \ {p} : ProcInv(q)'
         /\ tables' \subseteq Name \cup {Ledger} /\ keys' \subseteq Name \X Name
         /\ DOMAIN recorded' \subseteq Name
         /\ \A n \in DOMAIN recorded' : recorded'[n] \in [batch : Nat, by : Nat]
         /\ at[p] \in DOMAIN Registered /\ tx' = [tx EXCEPT ![p] = NoTx]
         /\ DOMAIN recorded' \subseteq applied[p]
         /\ \A i \in DOMAIN Registered : i >= at[p] => Registered[i] \notin DOMAIN recorded'
  <1> DEFINE n == InHand(p)
  <1>0. /\ TypeInv /\ DbInv /\ ProcInv(p) /\ Active(p) /\ pc[p] = "uncommit"
        /\ InStep /\ Grounded /\ BatchOwned
    BY DEF Inv, DbInv, Active, CommitRevert
  <1>1. /\ at[p] \in DOMAIN Registered /\ phase[p] = "reset"
        /\ DOMAIN recorded \subseteq applied[p]
        /\ \A i \in DOMAIN Registered : i > at[p] => ~Done(i)
        /\ tx[p].schema = "dropped" <=> n \in tables
        /\ \A k \in keys : k[2] # n
        /\ tx[p].row = "delete" <=> n \in DOMAIN recorded
    BY <1>0 DEF ProcInv, PlaceInv, RevertInv, Reverting, Done, InHand
  <1>2. n \in Name /\ n = Registered[at[p]] /\ n # Ledger
    BY <1>1, RegisteredFacts DEF InHand
  <1>3. /\ tables' = tables \ {n} /\ keys' = {k \in keys : k[1] # n}
        /\ tx' = [tx EXCEPT ![p] = NoTx]
    <2>1. n \notin tables => \A k \in keys : k[1] # n
      BY <1>0 DEF DbInv
    <2>2. QED
      BY <1>1, <2>1 DEF CommitRevert
  <1>4. /\ DOMAIN recorded' = DOMAIN recorded \ {n}
        /\ \A m \in DOMAIN recorded' : recorded'[m] = recorded[m]
    BY <1>1 DEF CommitRevert
  <1> HIDE DEF n
  <1>5. ASSUME NEW i \in DOMAIN Registered, i >= at[p] PROVE Registered[i] \notin DOMAIN recorded'
    <2>1. i = at[p] \/ i > at[p]
      BY <1>1, <1>5, RegisteredFacts
    <2>2. QED
      BY <1>1, <1>2, <1>4, <2>1 DEF Done
  <1>6. /\ tables' \subseteq Name \cup {Ledger} /\ keys' \subseteq Name \X Name
        /\ DOMAIN recorded' \subseteq Name
        /\ \A m \in DOMAIN recorded' : recorded'[m] \in [batch : Nat, by : Nat]
    BY <1>0, <1>3, <1>4 DEF TypeInv
  <1>7. DbInv'
    <2>1. InStep'
      BY <1>0, <1>3, <1>4 DEF InStep
    <2>2. Grounded'
      <3>1. ASSUME NEW i \in DOMAIN Registered, NEW j \in DOMAIN Registered, i < j,
                   Registered[j] \in DOMAIN recorded'
            PROVE  Registered[i] \in DOMAIN recorded'
        <4>1. Registered[i] \in DOMAIN recorded
          BY <1>0, <1>4, <3>1 DEF Grounded
        <4>2. i # at[p]
          BY <1>1, <1>4, <3>1 DEF Done
        <4>3. QED
          BY <1>1, <1>2, <1>4, <4>1, <4>2, RegisteredFacts
      <3>2. ASSUME NEW m \in tables' \cap Name, NEW r \in Refers[m]
            PROVE  r \in tables' /\ <<m, r>> \in keys'
        <4>1. m # n /\ r \in tables /\ <<m, r>> \in keys
          BY <1>0, <1>3, <3>2 DEF Grounded
        <4>2. r # n
          BY <1>1, <4>1
        <4>3. QED
          BY <1>3, <4>1, <4>2
      <3>3. QED
        BY <3>1, <3>2 DEF Grounded
    <2>3. BatchOwned'
      BY <1>0, <1>4 DEF BatchOwned
    <2>4. DOMAIN recorded' # {} => Ledger \in tables'
      BY <1>0, <1>2, <1>3, <1>4 DEF DbInv
    <2>5. \A k \in keys' : k[1] \in tables'
      BY <1>0, <1>3 DEF DbInv
    <2>6. \E last \in Nat : \A m \in DOMAIN recorded' : recorded'[m].batch <= last
      BY <1>0, <1>4 DEF DbInv
    <2>7. QED
      BY <2>1, <2>2, <2>3, <2>4, <2>5, <2>6 DEF DbInv
  <1>8. \A q \in Process \ {p} : ProcInv(q)'
    BY <1>0, <1>1, AloneKeeps
  <1>9. QED
    BY <1>1, <1>3, <1>4, <1>5, <1>6, <1>7, <1>8

LEMMA RevertedKeeps ==
  ASSUME Inv, NEW p \in Process, Reverted(p)
  PROVE  Inv'
  <1> DEFINE next == NextDown(at[p] - 1, applied[p])
  <1>0. TypeInv /\ ProcInv(p) /\ Active(p) /\ pc[p] = "uncommit" /\ at[p] \in DOMAIN Registered
        /\ CommitRevert(p)
    BY DEF Inv, Reverted, CommitRevert, Active, ProcInv, PlaceInv, Reverting
  <1>1. at[p] - 1 \in Int /\ at[p] \in Int
    BY <1>0, RegisteredFacts
  <1>2. /\ next # 0 => next \in DOMAIN Registered
        /\ \A i \in DOMAIN Registered : i <= at[p] - 1 /\ i > next => Registered[i] \notin applied[p]
        /\ next \in Nat
    BY <1>1, NextDownFacts
  <1>3. /\ at' = [at EXCEPT ![p] = next]
        /\ pc' = [pc EXCEPT ![p] = IF next = 0 THEN "ensure" ELSE "down"]
        /\ phase' = [phase EXCEPT ![p] = IF next = 0 THEN "run" ELSE "reset"]
    BY DEF Reverted, Goto
  <1> HIDE DEF next
  <1>4. UNCHANGED <<given, self, listed, applied, batch>> /\ tx' = [tx EXCEPT ![p] = NoTx]
    BY <1>0 DEF CommitRevert
  <1>5. \A q \in Process \ {p} : Same(q)
    BY <1>0, <1>3, <1>4 DEF TypeInv, Same
  <1>6. /\ DbInv' /\ \A q \in Process \ {p} : ProcInv(q)'
        /\ tables' \subseteq Name \cup {Ledger} /\ keys' \subseteq Name \X Name
        /\ DOMAIN recorded' \subseteq Name
        /\ \A n \in DOMAIN recorded' : recorded'[n] \in [batch : Nat, by : Nat]
        /\ DOMAIN recorded' \subseteq applied[p]
        /\ \A i \in DOMAIN Registered : i >= at[p] => Registered[i] \notin DOMAIN recorded'
    BY <1>0, <1>5, RevertCommits
  <1>7. /\ at'[p] = next /\ tx'[p] = NoTx /\ applied'[p] = applied[p]
        /\ pc'[p] = IF next = 0 THEN "ensure" ELSE "down"
        /\ phase'[p] = IF next = 0 THEN "run" ELSE "reset"
    BY <1>0, <1>3, <1>4 DEF TypeInv
  <1>8. TypeInv'
    <2>1. pc' \in [Process -> Label] /\ phase' \in [Process -> Phase] /\ at' \in [Process -> Int]
      BY <1>0, <1>2, <1>3 DEF TypeInv, Label, Phase
    <2>2. QED
      BY <1>0, <1>4, <1>6, <2>1 DEF TypeInv, NoTx
  <1>9. ASSUME NEW i \in DOMAIN Registered, i > next PROVE Registered[i] \notin DOMAIN recorded'
    <2>1. i >= at[p] \/ i <= at[p] - 1
      BY <1>1, RegisteredFacts
    <2>2. QED
      BY <1>2, <1>6, <1>9, <2>1
  <1>10. ProcInv(p)'
    BY <1>2, <1>6, <1>7, <1>9
    DEF ProcInv, PlaceInv, ApplyInv, RevertInv, Applying, Reverting, NoTx, Done
  <1>11. Solo' /\ OneCreates'
    <2>1. phase'[p] \in {phase[p], "run"}
      BY <1>0, <1>7 DEF ProcInv, PlaceInv, Reverting
    <2>2. QED
      BY <1>0, <1>5, <1>7, <2>1, SoloKept, OneCreatesKept DEF NoTx
  <1>12. QED
    BY <1>6, <1>8, <1>10, <1>11 DEF Inv

(* A process that never learns of its commit is no worse than one that     *)
(* failed right after.                                                     *)
LEMMA UnacknowledgedKeeps ==
  ASSUME Inv, NEW p \in Process, Unacknowledged(p)
  PROVE  Inv'
  <1> USE DEF Goto
  <1>0. /\ TypeInv /\ Active(p) /\ pc' = [pc EXCEPT ![p] = "failed"] /\ at' = at
        /\ CommitApply(p) \/ CommitRevert(p)
        /\ UNCHANGED <<given, phase, self, listed, applied, batch>>
        /\ tx' = [tx EXCEPT ![p] = NoTx]
    BY DEF Inv, Unacknowledged, CommitApply, CommitRevert, Active
  <1>1. \A q \in Process \ {p} : Same(q)
    BY <1>0 DEF TypeInv, Same
  <1>2. /\ DbInv' /\ \A q \in Process \ {p} : ProcInv(q)'
        /\ tables' \subseteq Name \cup {Ledger} /\ keys' \subseteq Name \X Name
        /\ DOMAIN recorded' \subseteq Name
        /\ \A n \in DOMAIN recorded' : recorded'[n] \in [batch : Nat, by : Nat]
    <2>1. CASE CommitApply(p)
      BY <1>1, <2>1, ApplyCommits
    <2>2. CASE CommitRevert(p)
      BY <1>1, <2>2, RevertCommits
    <2>3. QED
      BY <1>0, <2>1, <2>2
  <1>3. pc'[p] = "failed" /\ tx'[p] = NoTx
    BY <1>0 DEF TypeInv
  <1>4. TypeInv'
    BY <1>0, <1>2 DEF TypeInv, Label, NoTx
  <1>5. ProcInv(p)'
    BY <1>3 DEF ProcInv, PlaceInv, ApplyInv, RevertInv, Applying, Reverting, NoTx
  <1>6. Solo' /\ OneCreates'
    BY <1>0, <1>1, <1>3, SoloKept, OneCreatesKept DEF NoTx
  <1>7. QED
    BY <1>2, <1>4, <1>5, <1>6 DEF Inv

-----------------------------------------------------------------------------
LEMMA NextKeepsInv ==
  ASSUME Orderly, Inv, [Next]_vars
  PROVE  Inv'
  <1>1. CASE UNCHANGED vars
    BY <1>1
    DEF vars, Inv, TypeInv, DbInv, InStep, Grounded, BatchOwned, Solo, OneCreates, Active,
        InHand, ProcInv, PlaceInv, ApplyInv, RevertInv, Done
  <1>2. ASSUME NEW p \in Process, NEW c \in Commands, Start(p, c) PROVE Inv'
    BY <1>2, StartKeeps
  <1>3. ASSUME NEW p \in Process, Execute(p) PROVE Inv'
    <2>1. CASE ListTables(p) \/ AppliedMigrations(p)
      BY <2>1, ReadKeeps
    <2>2. CASE DropListed(p)
      BY <2>2, DropKeeps
    <2>3. CASE EnsureRepository(p)
      BY <2>3, EnsureKeeps
    <2>4. CASE NextBatch(p)
      BY <2>4, NextBatchKeeps
    <2>5. CASE UpSkips(p) \/ UpCreates(p)
      BY <2>5, UpKeeps
    <2>6. CASE Record(p)
      BY <2>6, RecordKeeps
    <2>7. CASE Applied(p)
      BY <2>7, AppliedKeeps
    <2>8. CASE Down(p) \/ Forget(p)
      BY <2>8, DownKeeps
    <2>9. CASE Reverted(p)
      BY <2>9, RevertedKeeps
    <2>10. CASE Unacknowledged(p)
      BY <2>10, UnacknowledgedKeeps
    <2>11. CASE Fail(p)
      BY <2>11, FailKeeps
    <2>12. QED
      BY <1>3, <2>1, <2>2, <2>3, <2>4, <2>5, <2>6, <2>7, <2>8, <2>9, <2>10, <2>11 DEF Execute
  <1>4. QED
    BY <1>1, <1>2, <1>3 DEF Next

(* What the proofs below stand on.                                         *)
LEMMA Invariance == ASSUME Orderly PROVE Spec => []Inv
  <1>1. Init => Inv
    BY InvInit
  <1>2. Inv /\ [Next]_vars => Inv'
    BY NextKeepsInv
  <1>3. QED
    BY <1>1, <1>2, PTL DEF Spec

(* A process ends in success only by finding nothing left in its loop.     *)
LEMMA SuccessFacts ==
  ASSUME Inv, Inv', Next, NEW p \in Process, Active(p), pc'[p] = "done"
  PROVE  Built'
  <1>0. TypeInv /\ ProcInv(p) /\ DbInv'
    BY DEF Inv
  <1>1. PICK q \in Process : Execute(q) \/ \E c \in Commands : Start(q, c)
    BY DEF Next
  <1>2. ASSUME NEW a \in Process, NEW l, Goto(a, l) PROVE p = a /\ l = "done"
    BY <1>0, <1>2 DEF Goto, TypeInv, Active
  <1>3. ~(\E c \in Commands : Start(q, c))
    BY <1>2 DEF Start
  <1>4. ~ListTables(q) /\ ~DropListed(q) /\ ~EnsureRepository(q) /\ ~AppliedMigrations(q)
    BY <1>2 DEF ListTables, DropListed, EnsureRepository, AppliedMigrations
  <1>5. ~UpSkips(q) /\ ~UpCreates(q) /\ ~Record(q) /\ ~Down(q) /\ ~Forget(q)
    BY <1>2 DEF UpSkips, UpCreates, Record, Down, Forget
  <1>6. ~Reverted(q) /\ ~Unacknowledged(q) /\ ~Fail(q)
    BY <1>2 DEF Reverted, Unacknowledged, Fail
  <1>7. NextBatch(q) \/ Applied(q)
    BY <1>1, <1>3, <1>4, <1>5, <1>6 DEF Execute
  <1>8. q = p
    BY <1>2, <1>7 DEF NextBatch, Applied, RunFrom
  <1>9. /\ \A j \in DOMAIN Registered : Registered[j] \in DOMAIN recorded'
        /\ Ledger \in tables'
    <2>1. CASE NextBatch(p)
      <3>1. /\ applied[p] \subseteq DOMAIN recorded' /\ Ledger \in tables' /\ RunFrom(p, 1)
        BY <1>0, <2>1 DEF ProcInv, ApplyInv, NextBatch, database
      <3>2. \A j \in DOMAIN Registered : ~(j < 1)
        BY RegisteredFacts
      <3>3. QED
        BY <1>0, <3>1, <3>2, RunFromFacts
    <2>2. CASE Applied(p)
      <3>1. CommitApply(p) /\ RunFrom(p, at[p] + 1) /\ pc[p] = "commit"
            /\ at[p] \in DOMAIN Registered /\ at[p] + 1 \in Int
        BY <1>0, <2>2, RegisteredFacts DEF Applied, CommitApply, ProcInv, PlaceInv, Applying
      <3>2. \A a \in Process \ {p} : Same(a)
        BY <1>0, <3>1 DEF TypeInv, Same, CommitApply, RunFrom, Goto
      <3>3. /\ applied[p] \subseteq DOMAIN recorded'
            /\ \A i \in DOMAIN Registered : i < at[p] + 1 => Registered[i] \in DOMAIN recorded'
        BY <3>1, <3>2, ApplyCommits
      <3>4. \A j \in DOMAIN Registered : Registered[j] \in DOMAIN recorded'
        BY <1>0, <3>1, <3>3, RunFromFacts
      <3>5. DOMAIN recorded' # {}
        BY <3>1, <3>4
      <3>6. QED
        BY <1>0, <3>4, <3>5 DEF DbInv
    <2>3. QED
      BY <1>7, <1>8, <2>1, <2>2
  <1>10. DOMAIN recorded' = Name
    <2>1. Name \subseteq DOMAIN recorded'
      BY <1>9, RegisteredFacts
    <2>2. QED
      BY <2>1 DEF Inv, TypeInv
  <1>11. QED
    BY <1>0, <1>9, <1>10 DEF DbInv, InStep, Grounded, Built

-----------------------------------------------------------------------------
(* The state is what it is declared to be, for any migrations.             *)
THEOREM TypeCorrect == ASSUME Orderly PROVE Spec => []TypeOK
  <1>1. Inv => TypeOK
    <2> SUFFICES ASSUME Inv PROVE TypeOK
      OBVIOUS
    <2>1. TypeInv /\ \A p \in Process : ProcInv(p)
      BY DEF Inv
    <2>2. ASSUME NEW p \in Process
          PROVE  /\ phase[p] \in {"fresh", "reset", "run"}
                 /\ applied[p] \subseteq Name
                 /\ pc[p] \in {"up", "record", "commit", "down", "forget", "uncommit"} =>
                      at[p] \in DOMAIN Registered
                 /\ tx[p] # NoTx => pc[p] \in {"record", "commit", "forget", "uncommit"}
      BY <2>1 DEF TypeInv, Phase, ProcInv, PlaceInv, Applying, Reverting
    <2>3. QED
      BY <2>1, <2>2 DEF TypeInv, TypeOK
  <1>2. QED
    BY <1>1, Invariance, PTL

(* apply and revert: a table exists exactly when its migration is on       *)
(* record, whatever fails, is killed or goes unacknowledged.               *)
THEOREM NeverDiverges == ASSUME Orderly PROVE Spec => []InStep
  <1>1. Inv => InStep
    BY DEF Inv, DbInv
  <1>2. QED
    BY <1>1, Invariance, PTL

(* Run and Reset: no migration is on record without the ones before it,    *)
(* and no table stands without what it refers to.                          *)
THEOREM StandsOnEarlier == ASSUME Orderly PROVE Spec => []Grounded
  <1>1. Inv => Grounded
    BY DEF Inv, DbInv
  <1>2. QED
    BY <1>1, Invariance, PTL

(* nextBatch: two runs beside each other may get one number, but only one  *)
(* of them ever records under it.                                          *)
THEOREM BatchHasOneRun == ASSUME Orderly PROVE Spec => []BatchOwned
  <1>1. Inv => BatchOwned
    BY DEF Inv, DbInv
  <1>2. QED
    BY <1>1, Invariance, PTL

(* Run, Fresh, Refresh: success is reported only over the whole schema.    *)
THEOREM SuccessIsWhole == ASSUME Orderly PROVE Spec => SuccessMeansBuilt
  <1>1. Inv /\ Inv' /\ [Next]_vars =>
          [\A p \in Process : Active(p) /\ pc'[p] = "done" => Built']_vars
    BY SuccessFacts
  <1>2. QED
    BY <1>1, Invariance, PTL DEF Spec, SuccessMeansBuilt

=============================================================================
