----------------------------- MODULE MCMigrator -----------------------------
(***************************************************************************)
(* The migrations of database/kernel.go for TLC, and a third between them  *)
(* that refers to nothing, so that the loops have a middle.                *)
(***************************************************************************)
EXTENDS Migrator, TLC

Kernel      == <<"users", "events">>
KernelKeys  == [n \in {"users", "events"} |-> IF n = "events" THEN {"users"} ELSE {}]

Longer      == <<"users", "plans", "events">>
LongerKeys  == [n \in {"users", "plans", "events"} |-> IF n = "events" THEN {"users"} ELSE {}]

All       == {"migrate", "migrate:fresh", "migrate:refresh"}
Symmetry  == Permutations(Process)

(* A database left broken: any tables, any of their foreign keys and any   *)
(* rows, as half-applied migrations and manual repairs may leave it.       *)
BrokenInit ==
  /\ tables \in SUBSET (Name \cup {Ledger})
  /\ keys \in SUBSET {<<n, r>> \in tables \X tables : n \in Name /\ r \in Refers[n]}
  /\ \E S \in SUBSET (IF Ledger \in tables THEN Name ELSE {}) :
       recorded = [n \in S |-> [batch |-> 1, by |-> 0]]
  /\ given = 0
  /\ pc = [p \in Process |-> "idle"] /\ phase = [p \in Process |-> "run"]
  /\ self = [p \in Process |-> 0] /\ listed = [p \in Process |-> {}]
  /\ applied = [p \in Process |-> {}] /\ batch = [p \in Process |-> 0]
  /\ at = [p \in Process |-> 0] /\ tx = [p \in Process |-> NoTx]

BrokenSpec == BrokenInit /\ [][Next]_vars /\ \A p \in Process : WF_vars(Execute(p))

(* migrate:fresh that is left alone rebuilds any database, however broken  *)
(* (Fresh: "a database left broken by a half-applied migration can still   *)
(* be rebuilt").                                                           *)
FreshRebuilds == (given = 1) ~> Built

=============================================================================
